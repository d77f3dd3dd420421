------------------------------ MODULE LaneLoops ------------------------------
(***************************************************************************)
(* The functions of epu8 and Perm16 that work on all lanes at once by a    *)
(* short loop of shuffles or shifts, one action per loop and one step per  *)
(* iteration: permutation_of_cmpestrm, the partial sums, maxima and        *)
(* minima, eval16_cycle, lehmer, cycles_partition, left_weak_leq, and the  *)
(* prototype sorts of experiments/sort.cpp.  The reference loops they      *)
(* replace are in Epu8Reference, and what a loop has computed after k      *)
(* iterations is the invariant RoundsExplained.                            *)
(***************************************************************************)
EXTENDS Epu8Reference

CONSTANTS
  Programs,    \* the functions that are run
  Arguments    \* Arguments[p]: the pairs of vectors p is called with

Loops == {"permutation_of", "partial_sums", "partial_max", "partial_min",
          "eval16_cycle", "lehmer", "cycles_partition", "left_weak_leq",
          "sort_pair", "sort_odd_even", "insertion_sort"}

\* The vectors that hold each lane number once.
Perms == {p \in [Lane -> Lane] : \A i, j \in Lane : p[i] = p[j] => i = j}

\* lehmer, cycles_partition and left_weak_leq are members of Perm16, the first
\* two have no other argument.
ASSUME ProgramsAssumption ==
  /\ Size = 16 /\ Byte = 0 .. 255
  /\ Programs \subseteq Loops
  /\ \A p \in Programs : \A args \in Arguments[p] :
       /\ args \in Vec \X Vec
       /\ p \in {"lehmer", "cycles_partition", "left_weak_leq"} => args \in Perms \X Perms
       /\ p \in {"lehmer", "cycles_partition"} => args[1] = args[2]

VARIABLES
  prog,    \* the function that runs
  a, b,    \* its arguments
  x, y,    \* the working vectors of the loop
  res,     \* the result under construction
  k,       \* the iterations done
  done     \* has the function returned?

vars == <<prog, a, b, x, y, res, k, done>>

-----------------------------------------------------------------------------
Init ==
  /\ prog \in Programs
  /\ \E args \in Arguments[prog] : a = args[1] /\ b = args[2]
  /\ x = a
  /\ y = b
  /\ res = CASE prog = "permutation_of" -> Plus(Zero, LAMBDA i : i \in NotInFront(a, b))
              [] prog = "eval16_cycle" -> Plus(Zero, LAMBDA i : a[i] = i)
              [] prog = "lehmer" -> [i \in Lane |-> AsByte(-i)]
              [] OTHER -> Zero
  /\ k = 0
  /\ done = FALSE

\* The loop goes on for n iterations; after the last one the function returns.
Iterate(p, n) ==
  /\ prog = p
  /\ ~done
  /\ k' = k + 1
  /\ done' = (k + 1 = n)
  /\ UNCHANGED <<prog, a, b>>

\* Faulty: the bit is looked for before the halves are gathered.
FaultyPositionRound ==
  /\ Iterate("permutation_of", 3)
  /\ x' = Permuted(x, inverting_rounds[k + 1])
  /\ res' = Plus(VAdd(res, res), LAMBDA i : i \in NotInFront(x, b))
  /\ UNCHANGED y
\* permutation_of_cmpestrm: gather the halves by the next bit and append it.
PositionRound ==
  /\ Iterate("permutation_of", 3)
  /\ x' = Permuted(x, inverting_rounds[k + 1])
  /\ res' = Plus(VAdd(res, res), LAMBDA i : i \in NotInFront(x', b))
  /\ UNCHANGED y

\* partial_sums_round, partial_max_round and partial_min_round.
SumRound ==
  /\ Iterate("partial_sums", 4)
  /\ x' = VAdd(x, Permuted(x, summing_rounds[k + 1]))
  /\ UNCHANGED <<y, res>>
MaxRound ==
  /\ Iterate("partial_max", 4)
  /\ x' = VMax(x, Permuted(x, summing_rounds[k + 1]))
  /\ UNCHANGED <<y, res>>
MinRound ==
  /\ Iterate("partial_min", 4)
  /\ x' = VMin(x, Permuted(x, mining_rounds[k + 1]))
  /\ UNCHANGED <<y, res>>

\* eval16_cycle: each byte passes each lane.
CycleRound ==
  /\ Iterate("eval16_cycle", 15)
  /\ x' = Permuted(x, left_cycle)
  /\ res' = Plus(res, LAMBDA i : x'[i] = i)
  /\ UNCHANGED y

\* lehmer: the zeros that enter on the right are counted too, lane i counts i
\* of them.
LehmerRound ==
  /\ Iterate("lehmer", 15)
  /\ x' = ShiftedLeft(x)
  /\ res' = Plus(res, LAMBDA i : a[i] >= x'[i])
  /\ UNCHANGED y

\* Faulty: the power is not squared again.
FaultyPartitionRound ==
  /\ Iterate("cycles_partition", 4)
  /\ x' = VMin(IF k = 0 THEN Id ELSE x, Permuted(IF k = 0 THEN Id ELSE x, y))
  /\ y' = IF k < 2 THEN Permuted(y, y) ELSE y
  /\ UNCHANGED res
\* cycles_partition: the least number within 2^k steps of the permutation, then
\* the permutation squared.
PartitionRound ==
  LET least == IF k = 0 THEN Id ELSE x
  IN  /\ Iterate("cycles_partition", 4)
      /\ x' = VMin(least, Permuted(least, y))
      /\ y' = IF k < 3 THEN Permuted(y, y) ELSE y
      /\ UNCHANGED res

\* left_weak_leq: the inversions at distance k + 1; return at the first that the
\* other permutation lacks.
Inversions(v, shifted) == {i \in Lane : v[i] < shifted[i]}
WeakRound ==
  /\ prog = "left_weak_leq"
  /\ ~done
  /\ x' = ShiftedRight(x)
  /\ y' = ShiftedRight(y)
  /\ LET leq == Inversions(a, x') \subseteq Inversions(b, y')
     IN  /\ res' = [i \in Lane |-> IF leq THEN 1 ELSE 0]
         /\ done' = (~leq \/ k = 14)
  /\ k' = k + 1
  /\ UNCHANGED <<prog, a, b>>

\* The sorts of experiments/sort.cpp: minimum and maximum of signed bytes, in the
\* rounds of the library's table or in odd and even pairs; and insertion.
rounds_mask(r) == [i \in Lane |-> sorting_rounds[r][i] < i]
PairRound ==
  LET w == Permuted(x, sorting_rounds[k + 1])
  IN  /\ Iterate("sort_pair", 9)
      /\ x' = Blend(SMin(x, w), SMax(x, w), rounds_mask(k + 1))
      /\ UNCHANGED <<y, res>>

\* Even pairs first; res holds the vector in between.
even == [i \in Lane |-> IF i % 2 = 0 THEN i + 1 ELSE i - 1]
odd  == [i \in Lane |-> IF i \in {0, 15} THEN i ELSE IF i % 2 = 1 THEN i + 1 ELSE i - 1]
OddEvenRound ==
  LET mask == [i \in Lane |-> i % 2 = 1]
      w    == Permuted(x, even)
      u    == Permuted(res', odd)
  IN  /\ Iterate("sort_odd_even", 8)
      /\ res' = Blend(SMin(x, w), SMax(x, w), mask)
      /\ x' = Blend(SMax(res', u), SMin(res', u), mask)
      /\ UNCHANGED y

\* Entry k moves to the left while it is smaller than its left neighbour.
InsertRound ==
  LET to == CHOOSE j \in 0 .. k :
              (\A l \in j .. k - 1 : x[l] > x[k]) /\ (j = 0 \/ x[j - 1] <= x[k])
  IN  /\ Iterate("insertion_sort", 16)
      /\ x' = [l \in Lane |-> IF l = to THEN x[k]
                              ELSE IF to < l /\ l <= k THEN x[l - 1] ELSE x[l]]
      /\ UNCHANGED <<y, res>>

Next ==
  \/ PairRound \/ OddEvenRound \/ InsertRound
  \/ PositionRound \/ SumRound \/ MaxRound \/ MinRound
  \/ CycleRound \/ LehmerRound \/ PartitionRound \/ WeakRound

Spec == Init /\ [][Next]_vars

-----------------------------------------------------------------------------
TypeOK ==
  /\ prog \in Programs
  /\ {a, b, x, y, res} \subseteq [Lane -> 0 .. 255]
  /\ k \in 0 .. 16
  /\ done \in BOOLEAN

(***************************************************************************)
(* What each loop knows after k iterations.                                *)
(*  - permutation_of has the leading k + 1 bits of the position of every   *)
(*    byte that occurs once, although it has moved the bytes it looks at;  *)
(*  - a prefix network has in each lane the reduction of the lanes of its  *)
(*    aligned block of 2^k up to it, sums wrapping like the loop's;        *)
(*  - eval16_cycle has counted the bytes that came from the k lanes to the *)
(*    left, around the end;                                                *)
(*  - lehmer has counted the smaller entries up to k lanes to the right,   *)
(*    less its lane number, more one for each zero shifted in;             *)
(*  - cycles_partition has the least number among 2^k along the cycle;     *)
(*  - left_weak_leq has found no inversion at distances up to k missing;   *)
(*  - the prototype sorts have lost no byte, and insertion_sort has sorted *)
(*    the first k and left the rest.                                       *)
(***************************************************************************)
Block(n, i)    == (i - (i % (2^n))) .. i
Front(v, n, i) == [j \in Lane |-> IF j \in Block(n, i) THEN v[j] ELSE 0]
RoundsExplained ==
  CASE prog = "permutation_of" ->
         \A i, j \in Lane :
           a[i] = b[j] /\ (\A l \in Lane \ {i} : a[l] # a[i]) =>
             res[j] = i \div 2^(3 - k)
    [] prog = "partial_sums" ->
         \A i \in Lane : x[i] = partial_sums_ref(Front(a, k, i))[i]
    [] prog = "partial_max" -> \A i \in Lane : x[i] = Max({a[j] : j \in Block(k, i)})
    [] prog = "partial_min" -> \A i \in Lane : x[i] = Min({a[j] : j \in Block(k, i)})
    [] prog = "eval16_cycle" ->
         \A i \in Lane : res[i] = Cardinality({m \in 0 .. k : a[(i - m) % 16] = i})
    [] prog = "lehmer" ->
         \A i \in Lane :
           res[i] = AsByte(Cardinality({m \in 1 .. k : i + m > 15 \/ a[i] > a[i + m]}) - i)
    [] prog = "cycles_partition" ->
         \A i \in Lane : k > 0 => x[i] = Min(Orbit(a, i, 2^k - 1))
    [] prog = "left_weak_leq" ->
         k > 0 /\ res[0] = 1 =>
           \A i, j \in Lane :
             i < j /\ j <= i + k /\ a[i] > a[j] => b[i] > b[j]
    [] prog \in {"sort_pair", "sort_odd_even"} ->
         \A i \in Lane : Count(x, Lane, a[i]) = Count(a, Lane, a[i])
    [] prog = "insertion_sort" ->
         \A i \in Lane : x[i] = IF i < k THEN Sorted([j \in Lane |-> IF j < k THEN a[j] ELSE 255])[i]
                                ELSE a[i]

(***************************************************************************)
(* The functions return what their reference loops return (for             *)
(* permutation_of, at the bytes that occur exactly once, as documented).   *)
(***************************************************************************)
AnswerAtReturn ==
  done /\ prog \notin {"sort_pair", "sort_odd_even"} =>
    CASE prog = "permutation_of" ->
           \A j \in Lane : Cardinality({i \in Lane : a[i] = b[j]}) = 1 =>
             res[j] = permutation_of_ref(a, b)[j]
      [] prog = "partial_sums" -> x = partial_sums_ref(a)
      [] prog = "partial_max" -> x = partial_max_ref(a)
      [] prog = "partial_min" -> x = partial_min_ref(a)
      [] prog = "eval16_cycle" -> res = eval16_ref(a)
      [] prog = "lehmer" -> res = lehmer_ref(a)
      [] prog = "cycles_partition" -> \A i \in Lane : x[i] = Min(Orbit(a, i, Size))
      [] prog = "left_weak_leq" -> res[0] = 1 <=> left_weak_leq_ref(a, b)
      [] prog = "insertion_sort" -> x = Sorted(a)
=============================================================================
