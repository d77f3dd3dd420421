---------------------------- MODULE Epu8Reference ----------------------------
(***************************************************************************)
(* Comparing vectors and searching in them: the first and the last lane    *)
(* that differs or is zero, the lexicographic order and the wrappers of    *)
(* Vect16.  The library has three kinds of implementation, the loops (_ref *)
(* and VectGeneric), a lane mask (_mask) and the string instructions       *)
(* (_cmpstr); a mask is the set of its lanes here.  At the end, the        *)
(* arithmetic of lanes and the reference loops (_ref) that define what the *)
(* lane-parallel functions of epu8 and Perm16 compute.                     *)
(***************************************************************************)
EXTENDS Epu8, FiniteSetsExt, Epu8Tables

\* A byte read as int8_t, and a result kept in one.
Signed(x) == IF x < 128 THEN x ELSE x - 256
AsByte(x) == x % 256

\* The lanes two vectors differ in; movemask of a comparison.
Differ(a, b) == {i \in Lane : a[i] # b[i]}
Zeros(v)     == {i \in Lane : v[i] = 0}

first_mask(msk, bound) ==
  LET res == {i \in msk : i < bound} IN IF res = {} THEN Size ELSE Min(res)
\* Faulty: the bound is taken to belong to the searched lanes.
FaultyLastMask(msk, bound) ==
  LET res == {i \in msk : i <= bound} IN IF res = {} THEN Size ELSE Max(res)
last_mask(msk, bound) ==
  LET res == {i \in msk : i < bound} IN IF res = {} THEN Size ELSE Max(res)

first_diff_mask(a, b, bound) == first_mask(Differ(a, b), bound)
last_diff_mask(a, b, bound)  == last_mask(Differ(a, b), bound)

\* The loops, upwards and downwards.
Upwards(Hit(_), bound) ==
  LET from[i \in 0 .. bound] ==
        IF i = bound THEN Size ELSE IF Hit(i) THEN i ELSE from[i + 1]
  IN  from[0]
Downwards(Hit(_), bound) ==
  LET below[i \in 0 .. bound] ==
        IF i = 0 THEN Size ELSE IF Hit(i - 1) THEN i - 1 ELSE below[i - 1]
  IN  below[bound]

first_diff_ref(a, b, bound) == Upwards(LAMBDA i : a[i] # b[i], bound)
last_diff_ref(a, b, bound)  == Downwards(LAMBDA i : a[i] # b[i], bound)

(***************************************************************************)
(* The string instructions, comparing lane by lane or with any lane of a   *)
(* prefix.  Both operands end at their length; lanes past the end of both  *)
(* are equal.                                                              *)
(***************************************************************************)
EqualEach(a, la, b, lb) ==
  {i \in Lane : IF i < la /\ i < lb THEN a[i] = b[i] ELSE i >= la /\ i >= lb}
EqualAny(a, la, b, lb) ==
  {j \in Lane : j < lb /\ \E i \in Lane : i < la /\ a[i] = b[j]}

first_diff_cmpstr(a, b, bound) ==
  LET out == Lane \ EqualEach(a, bound, b, bound) IN IF out = {} THEN Size ELSE Min(out)
last_diff_cmpstr(a, b, bound) ==
  LET out == Lane \ EqualEach(a, bound, b, bound) IN IF out = {} THEN Size ELSE Max(out)

less(a, b) ==
  LET diff == first_diff_mask(a, b, Size) IN diff < Size /\ a[diff] < b[diff]
\* The difference of two signed bytes, returned as one.
less_partial(a, b, k) ==
  LET diff == first_diff_mask(a, b, k)
  IN  IF diff = Size THEN 0 ELSE Signed(AsByte(Signed(a[diff]) - Signed(b[diff])))

first_zero(v, bnd)     == first_mask(Zeros(v), bnd)
last_zero(v, bnd)      == last_mask(Zeros(v), bnd)
first_non_zero(v, bnd) == first_mask(Lane \ Zeros(v), bnd)
last_non_zero(v, bnd)  == last_mask(Lane \ Zeros(v), bnd)

-----------------------------------------------------------------------------
\* VectGeneric<16>.
vg_first_diff(v, u, bound) == Upwards(LAMBDA i : v[i] # u[i], bound)
vg_last_diff(v, u, bound)  == Downwards(LAMBDA i : u[i] # v[i], bound)
vg_equal(v, u)             == vg_first_diff(v, u, Size) = Size
vg_less(v, u) ==
  LET diff == vg_first_diff(v, u, Size) IN diff # Size /\ v[diff] < u[diff]
vg_less_partial(v, u, k) ==
  LET diff == vg_first_diff(v, u, k)
  IN  IF diff = Size THEN 0 ELSE Signed(AsByte(Signed(v[diff]) - Signed(u[diff])))
\* Lanes whose selector is out of range keep what the uninitialised result holds.
vg_permuted(v, u, garbage) ==
  [i \in Lane |-> IF u[i] < Size THEN v[u[i]] ELSE garbage[i]]
\* True if no byte is smaller than the next: the order that falls.
vg_is_sorted(v)            == \A i \in 1 .. Size - 1 : ~(v[i - 1] < v[i])
vg_first_non_zero(v, bound) == Upwards(LAMBDA i : v[i] # 0, bound)
vg_first_zero(v, bound)     == Upwards(LAMBDA i : v[i] = 0, bound)
vg_last_non_zero(v, bound)  == Downwards(LAMBDA i : v[i] # 0, bound)
vg_last_zero(v, bound)      == Downwards(LAMBDA i : v[i] = 0, bound)

\* permuted without the instruction: the selector's low four bits.
permuted_ref(a, b) == [i \in Lane |-> a[b[i] % 16]]

\* Each byte that repeats its left neighbour becomes repl; lane 0 has a zero on
\* its left.
remove_dups(v, repl) ==
  [i \in Lane |-> IF v[i] # ShiftedRight(v)[i] THEN v[i] ELSE repl]

-----------------------------------------------------------------------------
(***************************************************************************)
(* All implementations of a search return the same lane for every bound:   *)
(* mask, string instruction and loop, that of epu8 and that of             *)
(* VectGeneric (the tests compare them at a few bounds only).              *)
(***************************************************************************)
SearchesAgreeOn(a, b) ==
  \A n \in 0 .. Size :
    /\ {first_diff_ref(a, b, n), first_diff_mask(a, b, n),
        first_diff_cmpstr(a, b, n), vg_first_diff(a, b, n)}
         = {first_diff_ref(a, b, n)}
    /\ {last_diff_ref(a, b, n), last_diff_mask(a, b, n),
        last_diff_cmpstr(a, b, n), vg_last_diff(a, b, n)}
         = {last_diff_ref(a, b, n)}
    /\ first_zero(a, n) = vg_first_zero(a, n)
    /\ last_zero(a, n) = vg_last_zero(a, n)
    /\ first_non_zero(a, n) = vg_first_non_zero(a, n)
    /\ last_non_zero(a, n) = vg_last_non_zero(a, n)

(***************************************************************************)
(* less is the lexicographic order, of which vg_equal is the tie, and     *)
(* less_partial tells it on every prefix, as long as no byte has its top   *)
(* bit set: two such bytes compare as negative ones, and their difference  *)
(* may not fit in the byte that is returned.                               *)
(***************************************************************************)
Before(a, b, k) ==
  \E i \in 0 .. k - 1 : a[i] < b[i] /\ \A j \in 0 .. i - 1 : a[j] = b[j]
OrderOn(a, b) ==
  /\ less(a, b) <=> Before(a, b, Size)
  /\ vg_less(a, b) <=> less(a, b)
  /\ vg_equal(a, b) <=> ~less(a, b) /\ ~less(b, a)
  /\ \A k \in 0 .. Size :
       /\ vg_less_partial(a, b, k) = less_partial(a, b, k)
       /\ (\A i \in Lane : a[i] < 128 /\ b[i] < 128) =>
            (less_partial(a, b, k) < 0 <=> Before(a, b, k))

\* The shuffles agree on selectors in range.
ShufflesAgreeOn(a, b) ==
  (\A i \in Lane : b[i] \in Lane) =>
    /\ permuted_ref(a, b) = Permuted(a, b)
    /\ vg_permuted(a, b, a) = Permuted(a, b)

(***************************************************************************)
(* remove_dups on a vector in order keeps exactly one of every byte other  *)
(* than repl, but for zeros: those at the front are replaced as well.      *)
(***************************************************************************)
DupsRemovedOn(v, repl) ==
  IsSorted(v) /\ (\A i \in Lane : v[i] # repl) =>
    LET left == remove_dups(v, repl)
    IN  \A x \in {v[i] : i \in Lane} :
          Cardinality({i \in Lane : left[i] = x}) = IF x = 0 THEN 0 ELSE 1

-----------------------------------------------------------------------------
ShiftedLeft(v) == [i \in Lane |-> IF i = Size - 1 THEN 0 ELSE v[i + 1]]
left_cycle     == [i \in Lane |-> ((i + 15) % 16)]
left_dup       == [i \in Lane |-> IF i = 15 THEN 15 ELSE i + 1]
right_dup      == [i \in Lane |-> IF i = 0 THEN 0 ELSE i - 1]
Zero           == [i \in Lane |-> 0]

\* Lanewise sums of bytes, and the count of one more where a comparison holds
\* (which is -1 in every lane it holds in, and subtracted).
VAdd(v, w)       == [i \in Lane |-> AsByte(v[i] + w[i])]
Plus(v, Hit(_))  == [i \in Lane |-> AsByte(v[i] + IF Hit(i) THEN 1 ELSE 0)]

\* Minimum and maximum of signed bytes.
SMin(v, w) == [i \in Lane |-> IF Signed(v[i]) <= Signed(w[i]) THEN v[i] ELSE w[i]]
SMax(v, w) == [i \in Lane |-> IF Signed(v[i]) <= Signed(w[i]) THEN w[i] ELSE v[i]]

\* FIND_IN_VECT: the lanes of w whose byte is not among the first eight of v.
NotInFront(v, w) == Lane \ EqualAny(v, 8, w, Size)

-----------------------------------------------------------------------------
\* What sorted returns, whatever the network.
Sorted(v) ==
  LET Upto(m) == Cardinality({i \in Lane : v[i] <= m})
  IN  [c \in Lane |-> Min({m \in {v[i] : i \in Lane} : c < Upto(m)})]

\* The reference loops.
Running(Op(_, _), v) ==
  LET r[i \in Lane] == IF i = 0 THEN v[0] ELSE Op(r[i - 1], v[i]) IN r
Sum2(m, n) == AsByte(m + n)
Max2(m, n) == IF m < n THEN n ELSE m
Min2(m, n) == IF n < m THEN n ELSE m

partial_sums_ref(v) == Running(Sum2, v)
partial_max_ref(v)  == Running(Max2, v)
partial_min_ref(v)  == Running(Min2, v)

\* 16 where the byte is absent.
permutation_of_ref(v, w) == [j \in Lane |-> Upwards(LAMBDA i : v[i] = w[j], Size)]

eval16_ref(v) == [i \in Lane |-> Cardinality({j \in Lane : v[j] = i})]

lehmer_ref(v) ==
  [i \in Lane |-> Cardinality({j \in Lane : i < j /\ v[i] > v[j]})]

left_weak_leq_ref(v, other) ==
  \A i, j \in Lane : i < j /\ v[i] > v[j] => ~(other[i] < other[j])

\* The lanes of the cycle of i that a permutation reaches within n steps.
Orbit(p, i, n) ==
  LET at[m \in 0 .. n] == IF m = 0 THEN i ELSE p[at[m - 1]]
  IN  {at[m] : m \in 0 .. n}
=============================================================================
