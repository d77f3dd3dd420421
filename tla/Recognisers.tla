----------------------------- MODULE Recognisers -----------------------------
(***************************************************************************)
(* Horizontal reductions, evaluation and the recognisers of                *)
(* transformations and permutations, each implementation by itself.        *)
(***************************************************************************)
EXTENDS Epu8Reference

\* n rounds of a prefix network.
Prefix(Op(_, _), table, n, v) ==
  LET after[r \in 0 .. n] ==
        IF r = 0 THEN v ELSE LET w == after[r - 1] IN Op(w, Permuted(w, table[r]))
  IN  after[n]
partial_sums_round(v) == Prefix(VAdd, summing_rounds, 4, v)
partial_max_round(v)  == Prefix(VMax, summing_rounds, 4, v)
partial_min_round(v)  == Prefix(VMin, mining_rounds, 4, v)

\* A loop over the lanes from a starting value.
Reduced(Op(_, _), start, v) ==
  LET r[i \in 0 .. Size] == IF i = 0 THEN start ELSE Op(r[i - 1], v[i - 1]) IN r[Size]

horiz_sum_ref(v) == Reduced(Sum2, 0, v)
horiz_sum4(v)    == partial_sums_round(v)[15]
\* Three rounds leave the reductions of the two halves in lanes 7 and 15.
horiz_sum3(v) == LET w == Prefix(VAdd, summing_rounds, 3, v) IN Sum2(w[7], w[15])
horiz_max_ref(v) == Reduced(Max2, 0, v)
horiz_max4(v)    == partial_max_round(v)[15]
horiz_max3(v) == LET w == Prefix(VMax, summing_rounds, 3, v) IN Max2(w[7], w[15])
horiz_min_ref(v) == Reduced(Min2, 255, v)
horiz_min4(v)    == partial_min_round(v)[15]
horiz_min3(v) == LET w == Prefix(VMin, mining_rounds, 3, v) IN Min2(w[7], w[15])

\* VectGeneric starts from the first entry.
vg_horiz_sum(v) == Reduced(Sum2, 0, v)
vg_horiz_max(v) == Reduced(Max2, v[0], v)
vg_horiz_min(v) == Reduced(Min2, v[0], v)
vg_partial_sums(v)         == [i \in Lane |-> Running(Sum2, v)[i]]
vg_partial_sums_inplace(v) == Running(Sum2, v)
vg_partial_max_inplace(v)  == Running(Max2, v)
vg_partial_min_inplace(v)  == Running(Min2, v)

\* The forms of epu8 that hand the vector to VectGeneric.
horiz_sum_gen(v)    == vg_horiz_sum(v)
partial_sums_gen(v) == vg_partial_sums_inplace(v)
horiz_max_gen(v)    == vg_horiz_max(v)
partial_max_gen(v)  == vg_partial_max_inplace(v)
horiz_min_gen(v)    == vg_horiz_min(v)
partial_min_gen(v)  == vg_partial_min_inplace(v)

-----------------------------------------------------------------------------
\* Counting the entries below Size, one after the other.
Tally(v) ==
  LET t[n \in 0 .. Size] ==
        IF n = 0 THEN Zero
        ELSE LET before == t[n - 1]
             IN  IF v[n - 1] < Size THEN [before EXCEPT ![v[n - 1]] = @ + 1] ELSE before
  IN  t[Size]
eval16_arr(v)      == Tally(v)
vg_eval(v)         == Tally(v)
eval16_gen(v)      == vg_eval(v)
eval16_popcount(v) == [i \in Lane |-> Cardinality({j \in Lane : v[j] = i})]

Ones(x)     == Cardinality({n \in 0 .. 7 : (x \div 2^n) % 2 = 1})
popcount    == [i \in Lane |-> Ones(i)]
popcount16(v) ==
  VAdd(Permuted(popcount, [i \in Lane |-> v[i] % 16]),
       Permuted(popcount, [i \in Lane |-> v[i] \div 16]))

-----------------------------------------------------------------------------
\* The last lane that is moved lies before k.
Within(v, k) ==
  LET diff == last_diff_mask(v, Id, Size) IN diff = Size \/ diff < k

\* Faulty: one more is not kept in a byte, so that 0xFF does not become 0.
FaultyIsPTransf(v, k) == (\A i \in Lane : v[i] + 1 <= 16) /\ Within(v, k)
is_partial_transformation(v, k) ==
  (\A i \in Lane : AsByte(v[i] + 1) <= 16) /\ Within(v, k)
is_transformation(v, k) == (\A i \in Lane : v[i] < 16) /\ Within(v, k)
is_partial_permutation(v, k) ==
  /\ \A i \in Lane : AsByte(v[i] + 1) <= 16
  /\ \A i \in Lane : eval16_ref(v)[i] <= 1
  /\ Within(v, k)
is_permutation_cmpestri(v, k) ==
  /\ EqualAny(Id, 16, v, 16) = Lane
  /\ EqualAny(v, 16, Id, 16) = Lane
  /\ Within(v, k)
is_permutation_sort(v, k) == Sorted(v) = Id /\ Within(v, k)
is_permutation_eval(v, k) ==
  eval16_ref(v) = [i \in Lane |-> 1] /\ Within(v, k)
sorted_vect(v) == Sorted(v)
vg_is_permutation(v, k) == sorted_vect(v) = Id /\ \A i \in k .. Size - 1 : v[i] = i

-----------------------------------------------------------------------------
(***************************************************************************)
(* Every way of reducing a vector returns the same byte, sums wrapping:    *)
(* after three rounds, after four, by the loop, and by VectGeneric, which  *)
(* starts from the first entry instead of a neutral one.                   *)
(***************************************************************************)
ReductionsAgreeOn(v) ==
  /\ {horiz_sum3(v), horiz_sum4(v), horiz_sum_ref(v), vg_horiz_sum(v),
      vg_partial_sums(v)[15], vg_partial_sums_inplace(v)[15]} = {horiz_sum_ref(v)}
  /\ {horiz_max3(v), horiz_max4(v), horiz_max_ref(v), vg_horiz_max(v),
      vg_partial_max_inplace(v)[15]} = {Max({v[i] : i \in Lane})}
  /\ {horiz_min3(v), horiz_min4(v), horiz_min_ref(v), vg_horiz_min(v),
      vg_partial_min_inplace(v)[15]} = {Min({v[i] : i \in Lane})}

(***************************************************************************)
(* The recognisers accept exactly the vectors their documentation          *)
(* describes: points below sixteen, 0xFF for an undefined one, no moved    *)
(* point from k on.  The evaluations they use agree with each other.       *)
(***************************************************************************)
Injective(v) == \A i, j \in Lane : v[i] = v[j] /\ v[i] \in Lane => i = j
RecognisersRightOn(v) ==
  /\ {eval16_arr(v), vg_eval(v), eval16_popcount(v)} = {eval16_ref(v)}
  /\ popcount16(v) = [i \in Lane |-> Ones(v[i])]
  /\ \A k \in 0 .. Size :
       LET fixed == \A i \in k .. Size - 1 : v[i] = i
           total == \A i \in Lane : v[i] \in Lane
           maybe == \A i \in Lane : v[i] \in Lane \cup {255}
       IN  /\ is_partial_transformation(v, k) <=> maybe /\ fixed
           /\ is_transformation(v, k) <=> total /\ fixed
           /\ is_partial_permutation(v, k) <=> maybe /\ fixed /\ Injective(v)
           /\ {is_permutation_cmpestri(v, k), is_permutation_sort(v, k),
               is_permutation_eval(v, k), vg_is_permutation(v, k)}
                = {total /\ fixed /\ Injective(v)}
=============================================================================
