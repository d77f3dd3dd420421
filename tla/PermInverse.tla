----------------------------- MODULE PermInverse -----------------------------
(***************************************************************************)
(* The algorithms of perm16_impl.hpp that invert a permutation.            *)
(*                                                                         *)
(*   ref   inverse_ref and inverse_arr: write i at lane v[i], into a       *)
(*         vector the code leaves uninitialised;                           *)
(*   cycl  inverse_cycl, which inverse() calls: go through the powers of v *)
(*         from v^(Size/2) on, and where a power returns to the identity   *)
(*         keep the power before it;                                       *)
(*   sort  inverse_sort: tag every lane with its number, sort, and read    *)
(*         the tags;                                                       *)
(*   pow   inverse_pow: the power lcm(1, ..., Size) - 1 of v.              *)
(*                                                                         *)
(* cycl and pow begin with power.hpp's pow, a recursion on the exponent:   *)
(* it halves the exponent down to zero, and squares and multiplies on the  *)
(* way back.                                                               *)
(***************************************************************************)
EXTENDS Epu8, Sequences, FiniteSetsExt

CONSTANTS
  Arguments,    \* the permutations that are inverted
  Algorithms,   \* the algorithms that are run
  Rounds,       \* sorting_rounds, for the algorithm sort
  Reach,        \* Reach[r]: a set of 0/1 vectors, a certificate about Rounds
  Garbage       \* what an uninitialised vector can hold

IsPerm(p) ==
  /\ p \in [Lane -> Lane]
  /\ \A x, y \in Lane : p[x] = p[y] => x = y
  /\ \A y \in Lane : \E x \in Lane : p[x] = y

ASSUME PermInverseAssumption ==
  /\ \A p \in Arguments : IsPerm(p)
  /\ Algorithms \subseteq {"ref", "cycl", "sort", "pow"}
  /\ Garbage \subseteq [Lane -> Nat]

(***************************************************************************)
(* What inverse_sort needs of sorting_rounds: a round pairs the lanes off, *)
(* and Reach certifies, as in ZeroOne, that the rounds sort every vector   *)
(* of zeros and ones.  Four bits hold a lane.                              *)
(***************************************************************************)
ASSUME SortingAssumption ==
  "sort" \in Algorithms =>
    /\ Size <= 16
    /\ Rounds \in Seq([Lane -> Lane])
    /\ Len(Rounds) > 0
    /\ \A r \in 1 .. Len(Rounds) : \A x \in Lane : Rounds[r][Rounds[r][x]] = x
    /\ [Lane -> {0, 1}] \subseteq Reach[0]
    /\ \A r \in 1 .. Len(Rounds) :
         {SortRound(TRUE, w, Rounds[r]) : w \in Reach[r - 1]} \subseteq Reach[r]
    /\ \A w \in Reach[Len(Rounds)] : Ordered(w, TRUE, Lane)

VARIABLES
  algo,     \* the algorithm that runs
  v,        \* the permutation
  pc,       \* in pow ("call", "return"), in the algorithm's own loop, or done
  calls,    \* the exponents of the calls of pow that are open, innermost first
  i,        \* loop counter
  newpow,   \* what pow has returned, or the last power computed
  res       \* the result under construction

vars == <<algo, v, pc, calls, i, newpow, res>>

Gcd(m, n) == Max({d \in 1 .. n : m % d = 0 /\ n % d = 0})
lcm_range ==
  LET lcm[n \in 0 .. Size] ==
        IF n = 0 THEN 1 ELSE LET l == lcm[n - 1] IN (l * n) \div Gcd(l, n)
  IN  lcm[Size]

\* The loop that computes it ends at a common multiple of all lengths a cycle has.
ASSUME LcmAssumption ==
  "pow" \in Algorithms => lcm_range \in Nat \ {0} /\ \A n \in 1 .. Size : lcm_range % n = 0

\* The exponent pow is called with.
Exponent == IF algo = "cycl" THEN Size \div 2 ELSE lcm_range - 1

\* inverse_sort's v << 4, plus the lane numbers.  The shift is done on words;
\* four bits up, the lanes of a permutation stay within their bytes.
Tagged(p) == [x \in Lane |-> (p[x] * 16 + x) % 256]

\* The local variables on entry; vectors that are not initialised hold garbage.
Init ==
  /\ algo \in Algorithms
  /\ v \in Arguments
  /\ newpow = Id
  /\ i = 0
  /\ \/ algo = "ref" /\ pc = "loop" /\ calls = <<>> /\ res \in Garbage
     \/ algo = "sort" /\ pc = "loop" /\ calls = <<>> /\ res = Tagged(v)
     \/ algo = "cycl" /\ pc = "call" /\ calls = <<Exponent>> /\ res = Id
     \/ algo = "pow" /\ pc = "call" /\ calls = <<Exponent>> /\ res \in Garbage

\* pow calls itself with half the exponent, and ends the recursion at zero.
PowCall ==
  /\ pc = "call" /\ Head(calls) # 0
  /\ calls' = <<Head(calls) \div 2>> \o calls
  /\ UNCHANGED <<algo, v, pc, i, newpow, res>>

PowOne ==
  /\ pc = "call" /\ Head(calls) = 0
  /\ newpow' = Id
  /\ pc' = "return"
  /\ UNCHANGED <<algo, v, calls, i, res>>

\* Faulty: the exponent that is odd or even is the one of the call that returned.
FaultyPowStep ==
  /\ pc = "return" /\ Len(calls) > 1
  /\ LET square == Permuted(newpow, newpow)
         odd    == Head(calls) % 2 = 1
     IN  newpow' = IF odd THEN Permuted(v, square) ELSE square
  /\ calls' = Tail(calls)
  /\ UNCHANGED <<algo, v, pc, i, res>>

\* One return of pow's recursion: the caller squares, and multiplies if its
\* exponent is odd.
PowStep ==
  /\ pc = "return" /\ Len(calls) > 1
  /\ LET square == Permuted(newpow, newpow)
         odd    == calls[2] % 2 = 1
     IN  newpow' = IF odd THEN Permuted(v, square) ELSE square
  /\ calls' = Tail(calls)
  /\ UNCHANGED <<algo, v, pc, i, res>>

\* The outermost call returns: inverse_pow has its result, inverse_cycl enters
\* its loop.
PowReturn ==
  /\ pc = "return" /\ Len(calls) = 1
  /\ calls' = <<>>
  /\ IF algo = "pow" THEN res' = newpow /\ pc' = "done" /\ i' = i
                     ELSE res' = res /\ pc' = "loop" /\ i' = Size \div 2 + 1
  /\ UNCHANGED <<algo, v, newpow>>

\* A faulty iteration: the permutation copied instead of inverted.
FaultyRefCopies ==
  /\ algo = "ref" /\ pc = "loop"
  /\ res' = [res EXCEPT ![i] = v[i]]
  /\ i' = i + 1
  /\ pc' = IF i' < Size THEN "loop" ELSE "done"
  /\ UNCHANGED <<algo, v, calls, newpow>>

\* One iteration of inverse_ref: res[v[i]] = i.
RefStep ==
  /\ algo = "ref" /\ pc = "loop"
  /\ res' = [res EXCEPT ![v[i]] = i]
  /\ i' = i + 1
  /\ pc' = IF i' < Size THEN "loop" ELSE "done"
  /\ UNCHANGED <<algo, v, calls, newpow>>

\* Faulty iterations: the last power left out, and the operands of the
\* blend mixed up.
FaultyCyclShort ==
  /\ algo = "cycl" /\ pc = "loop"
  /\ newpow' = Permuted(newpow, v)
  /\ res' = Blend(res, newpow, [x \in Lane |-> newpow'[x] = x])
  /\ i' = i + 1
  /\ pc' = IF i' < Size THEN "loop" ELSE "done"
  /\ UNCHANGED <<algo, v, calls>>
FaultyCyclBlend ==
  /\ algo = "cycl" /\ pc = "loop"
  /\ newpow' = Permuted(newpow, v)
  /\ res' = Blend(newpow, res, [x \in Lane |-> newpow'[x] = x])
  /\ i' = i + 1
  /\ pc' = IF i' <= Size THEN "loop" ELSE "done"
  /\ UNCHANGED <<algo, v, calls>>

\* One iteration of inverse_cycl: where the new power is the identity, the old
\* one is the inverse.
CyclStep ==
  /\ algo = "cycl" /\ pc = "loop"
  /\ newpow' = Permuted(newpow, v)
  /\ res' = Blend(res, newpow, [x \in Lane |-> newpow'[x] = x])
  /\ i' = i + 1
  /\ pc' = IF i' <= Size THEN "loop" ELSE "done"
  /\ UNCHANGED <<algo, v, calls>>

\* One round of the sorting network of inverse_sort; after the last one the
\* tags are masked out.
SortStep ==
  /\ algo = "sort" /\ pc = "loop"
  /\ LET sorted == SortRound(TRUE, res, Rounds[i + 1])
         last   == i + 1 = Len(Rounds)
     IN  /\ res' = IF last THEN [x \in Lane |-> sorted[x] % 16] ELSE sorted
         /\ pc' = IF last THEN "done" ELSE "loop"
  /\ i' = i + 1
  /\ UNCHANGED <<algo, v, calls, newpow>>

Next == PowCall \/ PowOne \/ PowStep \/ PowReturn \/ RefStep \/ CyclStep \/ SortStep

Spec == Init /\ [][Next]_vars

-----------------------------------------------------------------------------
TypeOK ==
  /\ algo \in Algorithms
  /\ IsPerm(v)
  /\ pc \in {"call", "return", "loop", "done"}
  /\ calls \in Seq(Nat)
  /\ i \in Nat
  /\ newpow \in [Lane -> Lane]
  /\ res \in [Lane -> Nat]

(***************************************************************************)
(* Every algorithm returns the inverse; in particular inverse_ref leaves   *)
(* no lane uninitialised, and the Size / 2 powers inverse_cycl looks at    *)
(* contain a multiple of the length of every cycle.                        *)
(***************************************************************************)
Right(x, r) == r[x] \in Lane /\ v[r[x]] = x
InverseAtReturn == pc = "done" => \A x \in Lane : Right(x, res)

(***************************************************************************)
(* In the two algorithms that fill in res lane by lane, a lane that holds  *)
(* the right value is not spoilt later: inverse_ref writes over garbage    *)
(* that happens to be right with the same value, and inverse_cycl blends   *)
(* a power into the lanes of a cycle once for every multiple of its        *)
(* length, with the same result each time.                                 *)
(***************************************************************************)
KeepsRightLanes ==
  algo \in {"ref", "cycl"} => \A x \in Lane : Right(x, res) => Right(x, res')
RightLanesKept == [][KeepsRightLanes]_vars

(***************************************************************************)
(* inverse_cycl only ever blends in right values: a lane is still at its   *)
(* initial value or holds the inverse.  The code tests that the new power  *)
(* fixes x; that the old power is then the inverse at x rests on the       *)
(* powers commuting with v, whichever side they are multiplied on.         *)
(***************************************************************************)
PowersCommute  == \A x \in Lane : newpow[v[x]] = v[newpow[x]]
CyclLanesRight == algo = "cycl" => \A x \in Lane : res[x] = x \/ Right(x, res)

(***************************************************************************)
(* newpow is the power of v that the code takes it for: when pow returns   *)
(* the one it was called for, in the loop the one before i.  The reference *)
(* walks the cycle of each lane.                                           *)
(***************************************************************************)
Walk(x, n) ==
  LET walk[m \in 0 .. Size] == IF m = 0 THEN x ELSE v[walk[m - 1]]
      cycle == Min({m \in 1 .. Size : walk[m] = x})
  IN  walk[n % cycle]
PowersExact ==
  LET n == IF pc = "call" THEN 0
           ELSE IF pc = "return" THEN Head(calls)
           ELSE IF algo = "cycl" THEN i - 1 ELSE Exponent
  IN  algo \in {"cycl", "pow"} => \A x \in Lane : newpow[x] = Walk(x, n)
=============================================================================
