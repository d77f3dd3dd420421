--------------------------- MODULE PermStatistics ---------------------------
(***************************************************************************)
(* Statistics of permutations: length, descents and cycles, by Perm16, by  *)
(* PermGeneric and by the prototypes of experiments/cycle.cpp; the         *)
(* unranking unrankSJT and the elementary transpositions.                  *)
(***************************************************************************)
EXTENDS Epu8Reference

LoopPairs(v) == {e \in Lane \X Lane : e[1] < e[2] /\ v[e[1]] > v[e[2]]}

lehmer_arr(v) == [i \in Lane |-> Cardinality({e \in LoopPairs(v) : e[1] = i})]
length_ref(v) == AsByte(Cardinality(LoopPairs(v)))
length_arr(v) == length_ref(v)
\* The sum of the code, its lanes added as bytes.
Length(code)  == LET r[i \in 0 .. Size] == IF i = 0 THEN 0 ELSE AsByte(r[i - 1] + code[i - 1])
                 IN  r[Size]
nb_descents_ref(v) == Cardinality({i \in 0 .. Size - 2 : v[i] > v[i + 1]})
nb_descents(v)     == Cardinality({i \in Lane : v[i] < ShiftedRight(v)[i]})

\* permdesc_red.cpp compares with the vector shifted the other way, its last entry
\* repeated.
decal == [i \in Lane |-> IF i = Size - 1 THEN i ELSE i + 1]
perm_nb_descents(v) == Cardinality({i \in Lane : v[i] > Permuted(v, decal)[i]})

\* The last lane that holds a point is its image.
pg_inverse(v)     == [i \in Lane |-> Max({j \in Lane : v[j] = i})]
pg_lehmer(v)      == lehmer_ref(v)
pg_length(v)      == Cardinality(LoopPairs(v))
pg_nb_descents(v) == Cardinality({i \in 0 .. Size - 2 : v[i] > v[i + 1]})
pg_left_weak_leq(v, other) == \A e \in LoopPairs(v) : ~(other[e[1]] < other[e[2]])

(***************************************************************************)
(* Counting cycles: from every lane not yet marked, mark along the         *)
(* permutation until a marked lane is met, and count one.                  *)
(***************************************************************************)
Marked(p, i, marks) ==
  LET walk[n \in 0 .. Size] ==
        IF n = 0 THEN [at |-> i, seen |-> marks]
        ELSE LET w == walk[n - 1]
             IN  IF w.at \in w.seen THEN w ELSE [at |-> p[w.at], seen |-> w.seen \cup {w.at}]
  IN  walk[Size].seen
CyclesFrom(p) ==
  LET scan[i \in 0 .. Size] ==
        IF i = 0 THEN [seen |-> {}, lengths |-> <<>>]
        ELSE LET s   == scan[i - 1]
                 new == Marked(p, i - 1, s.seen)
             IN  IF i - 1 \in s.seen THEN s
                 ELSE [seen |-> new,
                       lengths |-> Append(s.lengths, Cardinality(new \ s.seen))]
  IN  scan[Size].lengths
nb_cycles_ref(v) == Len(CyclesFrom(v))
pg_nb_cycles(v)  == Len(CyclesFrom(v))
exp_nb_cycles_ref(v) == Len(CyclesFrom(v))
\* The fixed points of cycles_partition.
nb_cycles_unroll(partition) == Cardinality({i \in Lane : partition[i] = i})

\* The prototypes of cycles_partition: the least number within 2^n steps.
Least(p) ==
  LET after[n \in 0 .. 6] ==
        IF n = 0 THEN [least |-> Id, power |-> p]
        ELSE LET s == after[n - 1]
             IN  [least |-> VMin(s.least, Permuted(s.least, s.power)),
                  power |-> Permuted(s.power, s.power)]
  IN  [n \in 0 .. 6 |-> after[n].least]
cycles_mask_unroll(p) == Least(p)[4]
FixedIn(v) == Cardinality({i \in Lane : v[i] = i})
\* Doubling goes on until it changes nothing, tested after each doubling or
\* after every other one.
exp_nb_cycles(p) ==
  LET x == Least(p) IN FixedIn(x[Min({n \in 1 .. 6 : x[n] = x[n - 1]})])
exp_nb_cycles2(p) ==
  LET x == Least(p) IN FixedIn(x[Min({n \in {2, 4, 6} : x[n] = x[n - 1]})])
exp_nb_cycles_unroll(p) == FixedIn(cycles_mask_unroll(p))
sign_nb_cycles_unroll(p, n) == (n - exp_nb_cycles_unroll(p)) % 2

\* The lengths as they are met; the call of sort orders p, a copy, instead.
cycle_type_ref(p) ==
  LET c == CyclesFrom(p) IN [i \in Lane |-> IF i < Len(c) THEN c[i + 1] ELSE 0]
evaluation(v) == [i \in Lane |-> Cardinality({m \in 0 .. 15 : v[(i - m) % 16] = i})]
cycle_type(p) == LET v == Sorted(evaluation(cycles_mask_unroll(p))) IN [i \in Lane |-> v[15 - i]]

nb_cycles_type_ref(p)  == Cardinality(Lane \ Zeros(cycle_type_ref(p)))
nb_cycles_type_mask(p) == Cardinality(Lane \ Zeros(cycle_type(p)))
\* The histogram of numbers of cycles, from the pairs of a permutation and its number.
timef(counted) == [c \in 0 .. 16 |-> Cardinality({e \in counted : e[2] = c})]
\* The vectors x0 and x1 that democycle prints, one after each power.
democycle(p) ==
  LET x[n \in 0 .. 4] ==
        IF n = 0 THEN <<Id, p>>
        ELSE <<SMin(x[n - 1][1], Permuted(x[n - 1][1], x[n - 1][2])),
               Permuted(x[n - 1][2], x[n - 1][2])>>
  IN  [n \in 0 .. 4 |-> x[n][1]]

-----------------------------------------------------------------------------
\* Lane i + 1 is written whatever i is, lane Size after the last.
elementary_transposition(i) ==
  [j \in 0 .. Size |-> IF j = i THEN i + 1 ELSE IF j = i + 1 THEN i ELSE j]

pg_elementary_transposition(i) == elementary_transposition(i)

\* unrankSJT: the values n-1 down to 0 each take the rem-th free place among the
\* first n, counted from the side the parity of the quotient says.
\* Faulty: the parity of the quotient before the division.
FaultyFromLeft(quotient, rem) == rem % 2 = 1
FromLeft(quotient, rem) == quotient % 2 = 1
unrankSJT(n, r) ==
  LET fill[j \in 0 .. n] ==   \* the values n - 1 .. j placed
        IF j = n THEN [res |-> [i \in Lane |-> IF i < n THEN FF ELSE 0], r |-> r]
        ELSE LET f    == fill[j + 1]
                 rem  == f.r % (j + 1)
                 quot == f.r \div (j + 1)
                 Free(i) == f.res[i] = FF
                 Rank(i) == Cardinality({l \in 0 .. n - 1 :
                              Free(l) /\ IF FromLeft(quot, rem) THEN l < i ELSE i < l})
                 place == CHOOSE i \in 0 .. n - 1 : Free(i) /\ Rank(i) = rem
             IN  [res |-> [f.res EXCEPT ![place] = j], r |-> quot]
  IN  fill[0].res

-----------------------------------------------------------------------------
(***************************************************************************)
(* The statistics agree between implementations and keep their laws:       *)
(* descents from the left and from the right, the length as the sum of the *)
(* code, cycles by marking and by doubling, however early the doubling     *)
(* stops, and the sign of the cycles is that of the length.                *)
(***************************************************************************)
StatisticsOn(v, partition) ==
  LET lengths == [i \in Lane |-> cycle_type_ref(v)[i]]
  IN  /\ lehmer_arr(v) = lehmer_ref(v) /\ pg_lehmer(v) = lehmer_ref(v)
      /\ {length_ref(v), length_arr(v), pg_length(v)} = {Length(lehmer_ref(v))}
      /\ {nb_descents(v), pg_nb_descents(v), perm_nb_descents(v)} = {nb_descents_ref(v)}
      /\ Cardinality({i \in Lane : v[i] < Permuted(v, right_dup)[i]}) = nb_descents(v)
      /\ decal = left_dup
      /\ {cycles_mask_unroll(v), democycle(v)[4]} = {partition}
      /\ {nb_cycles_unroll(partition), pg_nb_cycles(v), exp_nb_cycles_ref(v),
          nb_cycles_type_ref(v), nb_cycles_type_mask(v),
          exp_nb_cycles(v), exp_nb_cycles2(v), exp_nb_cycles_unroll(v)} = {nb_cycles_ref(v)}
      /\ \A i \in Lane : cycle_type(v)[i] = Sorted(lengths)[15 - i]
      /\ sign_nb_cycles_unroll(v, 16) = pg_length(v) % 2

(***************************************************************************)
(* The weak order is decided alike by inversion sets and by lengths:       *)
(* v <= w if and only if the lengths of v and w v^-1 add up to that of w.  *)
(***************************************************************************)
left_weak_leq_length(v, other) ==
  LET prod == Permuted(v, pg_inverse(other))
  IN  length_ref(other) = AsByte(length_ref(v) + length_ref(prod))
WeakOrderOn(v, other) ==
  /\ Permuted(v, pg_inverse(v)) = Id
  /\ {pg_left_weak_leq(v, other), left_weak_leq_length(v, other)} = {left_weak_leq_ref(v, other)}

(***************************************************************************)
(* unrankSJT lists the n! permutations of the first n points once each, in *)
(* steps that exchange two neighbours, as the order of Steinhaus, Johnson  *)
(* and Trotter requires; the lanes from n on are zero, so that only n = 16 *)
(* gives permutations of sixteen points.                                   *)
(***************************************************************************)
Factorial(n) == LET f[m \in 0 .. n] == IF m = 0 THEN 1 ELSE m * f[m - 1] IN f[n]
Neighbours(n, r) ==
  \E i \in 0 .. n - 2 :
    unrankSJT(n, r + 1) = [unrankSJT(n, r) EXCEPT ![i] = unrankSJT(n, r)[i + 1],
                                                  ![i + 1] = unrankSJT(n, r)[i]]
RankedOnce(n) ==
  /\ \A r \in 0 .. Factorial(n) - 2 : Neighbours(n, r)
  /\ Cardinality({unrankSJT(n, r) : r \in 0 .. Factorial(n) - 1}) = Factorial(n)
  /\ \A r \in 0 .. Factorial(n) - 1 :
       /\ {unrankSJT(n, r)[i] : i \in 0 .. n - 1} = 0 .. n - 1
       /\ \A i \in n .. Size - 1 : unrankSJT(n, r)[i] = 0

\* Of the permutations of the first four points, 6, 11, 6 and 1 have 1, 2, 3 and 4
\* cycles there, whichever way they are counted.
HistogramsOn ==
  LET perms == {[i \in Lane |-> IF i < 4 THEN q[i] ELSE i] :
                  q \in {f \in [0 .. 3 -> 0 .. 3] : {f[i] : i \in 0 .. 3} = 0 .. 3}}
      stat  == [c \in 0 .. 16 |-> CASE c = 13 -> 6 [] c = 14 -> 11 [] c = 15 -> 6 [] c = 16 -> 1
                                     [] OTHER -> 0]
  IN  {timef({<<p, exp_nb_cycles_ref(p)>> : p \in perms}),
       timef({<<p, exp_nb_cycles(p)>> : p \in perms}),
       timef({<<p, exp_nb_cycles2(p)>> : p \in perms}),
       timef({<<p, exp_nb_cycles_unroll(p)>> : p \in perms}),
       timef({<<p, nb_cycles_type_ref(p)>> : p \in perms}),
       timef({<<p, nb_cycles_type_mask(p)>> : p \in perms})} = {stat}

\* An elementary transposition is the permutation of length one that moves i, but
\* not for the last point, which it exchanges with one there is not.
TranspositionsOn(i) ==
  LET s == [j \in Lane |-> elementary_transposition(i)[j]]
  IN  {s[j] : j \in Lane} = Lane <=> i < Size - 1 /\ s[i] > i /\ pg_length(s) = 1
=============================================================================
