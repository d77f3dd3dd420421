-------------------------- MODULE PermInverseProofs --------------------------
(***************************************************************************)
(* Proofs about the algorithms that invert a permutation, for permutations *)
(* of any size: each of them returns the inverse.                          *)
(* The powers are followed lane by lane, with the steps of Epu8Proofs.     *)
(***************************************************************************)
EXTENDS PermInverse, Epu8Proofs

(***************************************************************************)
(* Why Size / 2 powers are enough for inverse_cycl, whatever Size is: a    *)
(* number up to Size has a multiple between Size / 2 and Size.             *)
(***************************************************************************)
LEMMA MultipleInUpperHalf ==
  ASSUME NEW l \in 1 .. Size
  PROVE  \E n \in Nat : n * l \in Size \div 2 + 1 .. Size
<1> DEFINE half == Size \div 2
           d    == Size \div l
<1>1. half \in Nat /\ 2 * half <= Size /\ Size <= 2 * half + 1
  BY SizeAssumption
<1>2. d \in Nat /\ l * d <= Size /\ Size < l * d + l
  BY SizeAssumption, Z3
<1> HIDE DEF half, d
<1>3. d * l \in Nat /\ d * l <= Size /\ Size < d * l + l
  BY <1>2
<1>4. CASE l > half
  <2>1. 1 * l \in half + 1 .. Size
    BY <1>1, <1>4
  <2>2. QED
    BY <2>1 DEF half
<1>5. CASE l <= half
  <2>1. d * l \in half + 1 .. Size
    <3> DEFINE m == d * l
    <3>1. m \in Nat /\ m <= Size /\ Size < m + l
      BY <1>3
    <3> HIDE DEF m
    <3>2. m \in half + 1 .. Size
      BY <1>1, <1>5, <3>1, SizeAssumption
    <3>3. QED
      BY <3>2 DEF m
  <2>2. QED
    BY <1>2, <2>1 DEF half
<1>6. QED
  BY <1>1, <1>4, <1>5

\* The reference of PowersExact, which walks the cycle only once, takes n steps.
LEMMA WalkIsSteps ==
  ASSUME IsPerm(v), NEW x \in Lane, NEW n \in Nat
  PROVE  Walk(x, n) = Steps(v, x)[n]
<1> DEFINE w == CHOOSE w : w = [m \in 0 .. Size |-> IF m = 0 THEN x ELSE v[w[m - 1]]]
           c == Min({m \in 1 .. Size : w[m] = x})
<1>1. v \in [Lane -> Lane] /\ LanesApart(v)
  BY DEF IsPerm, LanesApart
<1>2. /\ Steps(v, x) \in [Nat -> Lane] /\ Steps(v, x)[0] = x
      /\ \A m \in Nat : Steps(v, x)[m + 1] = v[Steps(v, x)[m]]
  BY <1>1, StepsFacts
<1>3. w = [m \in 0 .. Size |-> IF m = 0 THEN x ELSE v[w[m - 1]]]
  <2> DEFINE g == [m \in 0 .. Size |-> Steps(v, x)[m]]
  <2>1. ASSUME NEW m \in 0 .. Size
        PROVE  g[m] = IF m = 0 THEN x ELSE v[g[m - 1]]
    <3>1. CASE m = 0
      BY <1>2, <3>1
    <3>2. CASE m # 0
      <4>1. m - 1 \in Nat /\ m - 1 \in 0 .. Size /\ (m - 1) + 1 = m
        BY <3>2, SizeAssumption
      <4>2. QED
        BY <1>2, <3>2, <4>1
    <3>3. QED
      BY <3>1, <3>2
  <2>2. g = [m \in 0 .. Size |-> IF m = 0 THEN x ELSE v[g[m - 1]]]
    BY <2>1
  <2> HIDE DEF g
  <2>3. QED
    BY <2>2
<1> HIDE DEF w
<1>4. ASSUME NEW m \in 0 .. Size
      PROVE  w[m] = Steps(v, x)[m]
  <2> DEFINE Agree == {l \in Nat : l <= Size => w[l] = Steps(v, x)[l]}
  <2>1. 0 \in Agree
    BY <1>2, <1>3, SizeAssumption
  <2>2. ASSUME NEW l \in Nat, l \in Agree
        PROVE  l + 1 \in Agree
    <3>1. SUFFICES ASSUME l + 1 <= Size PROVE w[l + 1] = Steps(v, x)[l + 1]
      OBVIOUS
    <3>2. l + 1 \in 0 .. Size /\ l + 1 # 0 /\ (l + 1) - 1 = l /\ l <= Size
      BY <3>1, SizeAssumption
    <3>3. w[l + 1] = v[w[l]]
      BY <1>3, <3>2
    <3>4. QED
      BY <1>2, <2>2, <3>2, <3>3
  <2> HIDE DEF Agree
  <2>3. \A l \in Nat : l \in Agree
    BY <2>1, <2>2, NatSetInduction
  <2>4. m \in Nat /\ m <= Size
    BY SizeAssumption
  <2>5. QED
    BY <2>3, <2>4 DEF Agree
<1>5. c \in 1 .. Size /\ Steps(v, x)[c] = x
  <2> DEFINE Cs == {m \in 1 .. Size : w[m] = x}
  <2>1. Cs # {}
    <3>1. PICK l \in 1 .. Size : Steps(v, x)[l] = x
      BY <1>1, CycleLength
    <3>2. l \in 0 .. Size
      BY SizeAssumption
    <3>3. QED
      BY <1>4, <3>1, <3>2
  <2>2. Cs \subseteq Nat
    BY SizeAssumption
  <2>3. Cs \subseteq 1 .. Size /\ \A m \in Cs : w[m] = x
    OBVIOUS
  <2>4. c = Min(Cs)
    OBVIOUS
  <2> HIDE DEF Cs, c
  <2>5. \E m \in Cs : \A l \in Cs : m <= l
    BY <2>1, <2>2, LeastOfSome
  <2>6. c \in Cs
    BY <2>4, <2>5 DEF Min
  <2>7. c \in 1 .. Size /\ c \in 0 .. Size /\ w[c] = x
    BY <2>3, <2>6, SizeAssumption
  <2>8. QED
    BY <1>4, <2>7
<1> HIDE DEF c
<1>6. Walk(x, n) = w[n % c]
  BY DEF Walk, w, c
<1>7. n % c \in 0 .. Size
  <2>1. c \in Nat \ {0} /\ c <= Size /\ Size \in Nat
    BY <1>5, SizeAssumption
  <2>2. n % c \in 0 .. c - 1
    BY <2>1
  <2>3. QED
    BY <2>1, <2>2
<1>8. Steps(v, x)[n] = Steps(v, x)[n % c]
  BY <1>1, <1>5, CycleRest, SizeAssumption
<1>9. QED
  BY <1>4, <1>6, <1>7, <1>8

\* The only way along which a permutation of the lanes never falls is the identity.
LEMMA IncreasingIsId ==
  ASSUME NEW f \in [Lane -> Lane], \A x, y \in Lane : x < y => f[x] < f[y], NEW x \in Lane
  PROVE  f[x] = x
<1> DEFINE Up   == {n \in Nat : n < Size => f[n] >= n}
           Down == {n \in Nat : n < Size => f[Size - 1 - n] <= Size - 1 - n}
<1>1. \A n \in Nat : n < Size => n \in Lane /\ Size - 1 - n \in Lane
  BY SizeAssumption DEF Lane
<1>2. \A y \in Lane : y \in Nat /\ y < Size /\ f[y] \in Nat /\ f[y] <= Size - 1
  BY SizeAssumption DEF Lane
<1>3. 0 \in Up /\ 0 \in Down
  BY <1>1, <1>2, SizeAssumption
<1>4. ASSUME NEW n \in Nat, n \in Up
      PROVE  n + 1 \in Up
  <2>1. SUFFICES ASSUME n + 1 < Size PROVE f[n + 1] >= n + 1
    OBVIOUS
  <2>2. n \in Lane /\ n + 1 \in Lane /\ n < n + 1 /\ n < Size
    BY <1>1, <2>1, SizeAssumption
  <2>3. f[n] < f[n + 1] /\ f[n] >= n
    BY <1>4, <2>2
  <2>4. QED
    BY <1>2, <2>2, <2>3
<1>5. ASSUME NEW n \in Nat, n \in Down
      PROVE  n + 1 \in Down
  <2> DEFINE y == Size - 1 - (n + 1)
  <2>1. SUFFICES ASSUME n + 1 < Size PROVE f[y] <= y
    OBVIOUS
  <2>2. y \in Lane /\ y + 1 \in Lane /\ y < y + 1 /\ n < Size /\ Size - 1 - n = y + 1
    BY <1>1, <2>1, SizeAssumption
  <2> HIDE DEF y
  <2>3. f[y] < f[y + 1] /\ f[y + 1] <= y + 1
    BY <1>5, <2>2
  <2>4. QED
    BY <1>2, <2>2, <2>3
<1> HIDE DEF Up, Down
<1>6. \A n \in Nat : n \in Up
  BY <1>3, <1>4, NatSetInduction
<1>7. \A n \in Nat : n \in Down
  BY <1>3, <1>5, NatSetInduction
<1>8. x \in Nat /\ x < Size /\ Size - 1 - x \in Nat /\ Size - 1 - x < Size
      /\ Size - 1 - (Size - 1 - x) = x
  BY <1>2, SizeAssumption
<1>9. f[x] >= x
  BY <1>6, <1>8 DEF Up
<1>10. f[x] <= x
  BY <1>7, <1>8 DEF Down
<1>11. QED
  BY <1>2, <1>9, <1>10

-----------------------------------------------------------------------------
(***************************************************************************)
(* The inductive invariant.  Its conjuncts say, of each algorithm, what it *)
(* has computed so far.                                                    *)
(***************************************************************************)

\* The lanes inverse_ref has written hold the inverse.
RefLanesRight ==
  algo = "ref" =>
    /\ pc \in {"loop", "done"}
    /\ pc = "loop" => i \in Lane /\ \A y \in 0 .. i - 1 : res[v[y]] = y
    /\ pc = "done" => \A y \in Lane : res[v[y]] = y

\* Every open call of pow was made with half the exponent of its caller.
CallsHalve ==
  pc \in {"call", "return"} =>
    /\ algo \in {"cycl", "pow"}
    /\ Len(calls) > 0
    /\ calls[Len(calls)] = Exponent
    /\ \A m \in 1 .. Len(calls) - 1 : calls[m] = calls[m + 1] \div 2

\* The power newpow is.
Power ==
  IF pc = "call" THEN 0
  ELSE IF pc = "return" THEN Head(calls)
  ELSE IF algo = "cycl" THEN i - 1 ELSE Exponent

PowerReached ==
  algo \in {"cycl", "pow"} =>
    /\ Power \in Nat
    /\ \A x \in Lane : newpow[x] = Steps(v, x)[Power]

\* inverse_cycl has settled the lanes of the cycles whose lengths divide one of
\* the powers it went through.
CyclesSettled ==
  algo = "cycl" /\ pc \in {"loop", "done"} =>
    /\ i \in Size \div 2 + 1 .. Size + 1
    /\ pc = "loop" => i <= Size
    /\ pc = "done" => i = Size + 1
    /\ \A n \in Size \div 2 + 1 .. i - 1 : \A x \in Lane :
         Steps(v, x)[n] = x => Right(x, res)

PowResult ==
  algo = "pow" => pc # "loop" /\ (pc = "done" => res = newpow)

\* Between the rounds of inverse_sort res holds the tagged lanes of v, each
\* once, and is as far sorted as Reach says.
TagsMoved ==
  \E g \in [Lane -> Lane] : LanesApart(g) /\ \A x \in Lane : res[x] = Tagged(v)[g[x]]
SortProgress ==
  algo = "sort" =>
    /\ pc \in {"loop", "done"}
    /\ pc = "loop" => /\ i \in 0 .. Len(Rounds) - 1
                      /\ TagsMoved
                      /\ \A t \in Nat : Threshold(res, t) \in Reach[i]
    /\ pc = "done" => \A x \in Lane : Right(x, res)

IInv ==
  /\ TypeOK
  /\ PowersCommute
  /\ CyclLanesRight
  /\ RefLanesRight
  /\ CallsHalve
  /\ PowerReached
  /\ CyclesSettled
  /\ PowResult
  /\ SortProgress

LEMMA IInvInit == Init => IInv
<1> SUFFICES ASSUME Init PROVE IInv
  OBVIOUS
<1>1. IsPerm(v) /\ v \in [Lane -> Lane] /\ algo \in Algorithms
  BY PermInverseAssumption DEF Init, IsPerm
<1>2. /\ newpow = Id /\ Id \in [Lane -> Lane] /\ Id \in [Lane -> Nat]
      /\ \A x \in Lane : Id[x] = x
  BY DEF Init, Id, Lane
<1>3. algo \in {"cycl", "pow"} => Exponent \in Nat
  <2>1. Size \div 2 \in Nat
    BY SizeAssumption
  <2>2. QED
    BY <1>1, <2>1, LcmAssumption DEF Exponent
<1>4. Tagged(v) \in [Lane -> Nat]
  <2>1. \A x \in Lane : v[x] \in Nat /\ x \in Nat
    BY <1>1 DEF Lane
  <2>2. \A x \in Lane : (v[x] * 16 + x) % 256 \in Nat
    BY <2>1
  <2>3. QED
    BY <2>2 DEF Tagged
<1>5. TypeOK
  <2>1. res \in [Lane -> Nat]
    BY <1>2, <1>4, PermInverseAssumption DEF Init
  <2>2. calls \in Seq(Nat)
    <3>1. \/ calls = <<>>
          \/ calls = <<Exponent>> /\ Exponent \in Nat
      BY <1>3 DEF Init
    <3>2. << >> \in Seq(Nat) /\ \A e \in Nat : <<e>> \in Seq(Nat)
      OBVIOUS
    <3>3. QED
      BY <3>1, <3>2
  <2>3. QED
    BY <1>1, <1>2, <2>1, <2>2 DEF Init, TypeOK
<1>6. PowersCommute
  BY <1>1, <1>2 DEF PowersCommute
<1>7. CyclLanesRight
  BY <1>2 DEF Init, CyclLanesRight
<1>8. RefLanesRight
  <2>1. 0 \in Lane /\ \A y \in 0 .. 0 - 1 : FALSE
    BY SizeAssumption DEF Lane
  <2>2. QED
    BY <2>1 DEF Init, RefLanesRight
<1>9. CallsHalve
  <2> SUFFICES ASSUME pc \in {"call", "return"} PROVE CallsHalve
    BY DEF CallsHalve
  <2>1. calls = <<Exponent>> /\ algo \in {"cycl", "pow"}
    BY DEF Init
  <2>2. Len(calls) = 1 /\ calls[1] = Exponent
    BY <2>1
  <2>3. \A m \in 1 .. 1 - 1 : FALSE
    OBVIOUS
  <2>4. QED
    BY <2>1, <2>2, <2>3 DEF CallsHalve
<1>10. PowerReached
  <2> SUFFICES ASSUME algo \in {"cycl", "pow"}
               PROVE  PowerReached
    BY DEF PowerReached
  <2>1. Power = 0
    BY DEF Init, Power
  <2>2. \A x \in Lane : Steps(v, x)[0] = x
    BY <1>1, StepsFacts
  <2>3. QED
    BY <1>2, <2>1, <2>2 DEF PowerReached
<1>11. CyclesSettled /\ PowResult
  BY DEF Init, CyclesSettled, PowResult
<1>12. SortProgress
  <2> SUFFICES ASSUME algo = "sort" PROVE SortProgress
    BY DEF SortProgress
  <2>1. pc = "loop" /\ i = 0 /\ res = Tagged(v)
    BY DEF Init
  <2>2. Len(Rounds) \in Nat /\ Len(Rounds) > 0 /\ [Lane -> {0, 1}] \subseteq Reach[0]
    BY <1>1, SortingAssumption
  <2>3. TagsMoved
    BY <1>2, <2>1 DEF TagsMoved, LanesApart
  <2>4. \A t \in Nat : Threshold(res, t) \in [Lane -> {0, 1}]
    BY DEF Threshold
  <2>5. QED
    BY <2>1, <2>2, <2>3, <2>4 DEF SortProgress
<1>13. QED
  BY <1>5, <1>6, <1>7, <1>8, <1>9, <1>10, <1>11, <1>12 DEF IInv

-----------------------------------------------------------------------------
\* Composing with v, or with itself, keeps a power commuting with v.
LEMMA PowersStep ==
  ASSUME IInv, [Next]_vars
  PROVE  newpow' \in [Lane -> Lane] /\ PowersCommute' /\ v' = v /\ algo' = algo
<1>1. v \in [Lane -> Lane] /\ newpow \in [Lane -> Lane]
      /\ \A x \in Lane : newpow[v[x]] = v[newpow[x]]
  BY DEF IInv, TypeOK, IsPerm, PowersCommute
<1>2. v' = v /\ algo' = algo
  BY DEF Next, PowCall, PowOne, PowStep, PowReturn, RefStep, CyclStep, SortStep, vars
<1>3. CASE PowStep
  <2> DEFINE square == Permuted(newpow, newpow)
  <2>1. square = [x \in Lane |-> newpow[newpow[x]]]
    BY <1>1, PermutedLane
  <2>2. square \in [Lane -> Lane]
    BY <1>1, <2>1
  <2>3. Permuted(v, square) = [x \in Lane |-> v[square[x]]]
    BY <2>2, PermutedLane
  <2>4. newpow' = square \/ newpow' = Permuted(v, square)
    BY <1>3 DEF PowStep
  <2>5. \A x \in Lane : square[v[x]] = v[square[x]]
    BY <1>1, <2>1
  <2> HIDE DEF square
  <2>6. newpow' \in [Lane -> Lane]
    BY <1>1, <2>2, <2>3, <2>4
  <2>7. \A x \in Lane : newpow'[v[x]] = v[newpow'[x]]
    BY <1>1, <2>2, <2>3, <2>4, <2>5
  <2>8. QED
    BY <1>2, <2>6, <2>7 DEF PowersCommute
<1>4. CASE CyclStep
  <2>1. newpow' = [x \in Lane |-> newpow[v[x]]]
    BY <1>1, <1>4, PermutedLane DEF CyclStep
  <2>2. QED
    BY <1>1, <1>2, <2>1 DEF PowersCommute
<1>5. CASE PowOne
  <2>1. newpow' = Id
    BY <1>5 DEF PowOne
  <2>2. QED
    BY <1>1, <1>2, <2>1 DEF PowersCommute, Id
<1>6. CASE newpow' = newpow
  BY <1>1, <1>2, <1>6 DEF PowersCommute
<1>7. QED
  BY <1>3, <1>4, <1>5, <1>6 DEF Next, PowCall, PowReturn, RefStep, SortStep, vars

\* What an iteration of inverse_cycl does to a lane.
LEMMA CyclLane ==
  ASSUME IInv, CyclStep, NEW x \in Lane
  PROVE  /\ newpow'[x] = newpow[v[x]] /\ newpow[v[x]] = v[newpow[x]]
         /\ newpow[x] \in Lane
         /\ res'[x] = IF newpow'[x] = x THEN newpow[x] ELSE res[x]
<1>1. v \in [Lane -> Lane] /\ newpow \in [Lane -> Lane]
      /\ newpow[v[x]] = v[newpow[x]]
  BY DEF IInv, TypeOK, IsPerm, PowersCommute
<1>2. newpow' = [y \in Lane |-> newpow[v[y]]]
  BY <1>1, PermutedLane DEF CyclStep
<1>3. res'[x] = IF newpow'[x] = x THEN newpow[x] ELSE res[x]
  BY DEF CyclStep, Blend
<1>4. QED
  BY <1>1, <1>2, <1>3

\* What the round of inverse_sort finds, and the part of the assumptions that
\* speaks of it.
LEMMA SortRoundsRight ==
  ASSUME IInv, SortStep
  PROVE  /\ Size <= 16 /\ i \in Nat /\ i + 1 \in 1 .. Len(Rounds)
         /\ i \in 0 .. Len(Rounds) - 1
         /\ Len(Rounds) \in Nat
         /\ Rounds[i + 1] \in [Lane -> Lane]
         /\ \A x \in Lane : Rounds[i + 1][Rounds[i + 1][x]] = x
         /\ {SortRound(TRUE, w, Rounds[i + 1]) : w \in Reach[i]} \subseteq Reach[i + 1]
         /\ \A w \in Reach[Len(Rounds)] : Ordered(w, TRUE, Lane)
         /\ TagsMoved
         /\ \A t \in Nat : Threshold(res, t) \in Reach[i]
<1>1. algo = "sort" /\ pc = "loop" /\ algo \in Algorithms
  BY DEF SortStep, IInv, TypeOK
<1>2. i \in 0 .. Len(Rounds) - 1 /\ TagsMoved
      /\ \A t \in Nat : Threshold(res, t) \in Reach[i]
  BY <1>1 DEF IInv, SortProgress
<1>3. Rounds \in Seq([Lane -> Lane]) /\ Len(Rounds) \in Nat
  BY <1>1, SortingAssumption
<1>4. i \in Nat /\ i + 1 \in 1 .. Len(Rounds) /\ (i + 1) - 1 = i
  BY <1>2, <1>3
<1>5. Rounds[i + 1] \in [Lane -> Lane]
  BY <1>3, <1>4
<1>6. {SortRound(TRUE, w, Rounds[i + 1]) : w \in Reach[(i + 1) - 1]} \subseteq Reach[i + 1]
  BY <1>1, <1>4, SortingAssumption
<1>7. QED
  BY <1>1, <1>2, <1>3, <1>4, <1>5, <1>6, SortingAssumption

LEMMA TypeStep ==
  ASSUME IInv, [Next]_vars
  PROVE  TypeOK'
<1>1. newpow' \in [Lane -> Lane] /\ v' = v /\ algo' = algo
  BY PowersStep
<1>2. /\ algo \in Algorithms /\ IsPerm(v) /\ v \in [Lane -> Lane]
      /\ newpow \in [Lane -> Lane] /\ newpow \in [Lane -> Nat]
      /\ res \in [Lane -> Nat] /\ i \in Nat /\ calls \in Seq(Nat)
      /\ pc \in {"call", "return", "loop", "done"}
  BY DEF IInv, TypeOK, IsPerm, Lane
<1>3. i' \in Nat
  <2>1. Size \div 2 + 1 \in Nat
    BY SizeAssumption
  <2>2. i' = i \/ i' = i + 1 \/ i' = Size \div 2 + 1
    BY DEF Next, PowCall, PowOne, PowStep, PowReturn, RefStep, CyclStep, SortStep, vars
  <2>3. QED
    BY <1>2, <2>1, <2>2
<1>4. calls' \in Seq(Nat)
  <2>1. CASE PowCall
    <3>1. Head(calls) \in Nat
      <4>1. Len(calls) > 0
        BY <2>1 DEF PowCall, IInv, CallsHalve
      <4>2. QED
        BY <1>2, <4>1
    <3>2. Head(calls) \div 2 \in Nat
      BY <3>1
    <3>3. <<Head(calls) \div 2>> \in Seq(Nat)
      BY <3>2
    <3>4. QED
      BY <1>2, <2>1, <3>3 DEF PowCall
  <2>2. CASE PowStep
    BY <1>2, <2>2 DEF PowStep
  <2>3. CASE PowReturn
    BY <2>3 DEF PowReturn
  <2>4. QED
    BY <1>2, <2>1, <2>2, <2>3 DEF Next, PowOne, RefStep, CyclStep, SortStep, vars
<1>5. res' \in [Lane -> Nat]
  <2>1. CASE RefStep
    BY <1>2, <2>1 DEF RefStep
  <2>2. CASE CyclStep
    BY <1>2, <2>2 DEF CyclStep, Blend
  <2>3. CASE SortStep
    <3> DEFINE sorted == SortRound(TRUE, res, Rounds[i + 1])
    <3>1. sorted \in [Lane -> Nat]
      BY <1>2, <2>3, SortRoundsRight, SortRoundType
    <3>2. res' = [x \in Lane |-> sorted[x] % 16] \/ res' = sorted
      BY <2>3 DEF SortStep
    <3> HIDE DEF sorted
    <3>3. \A x \in Lane : sorted[x] % 16 \in Nat
      BY <3>1
    <3>4. QED
      BY <3>1, <3>2, <3>3
  <2>4. CASE PowReturn
    BY <1>2, <2>4 DEF PowReturn
  <2>5. QED
    BY <1>2, <2>1, <2>2, <2>3, <2>4 DEF Next, PowCall, PowOne, PowStep, vars
<1>6. pc' \in {"call", "return", "loop", "done"}
  BY <1>2 DEF Next, PowCall, PowOne, PowStep, PowReturn, RefStep, CyclStep, SortStep, vars
<1>7. QED
  BY <1>1, <1>2, <1>3, <1>4, <1>5, <1>6 DEF TypeOK

-----------------------------------------------------------------------------
\* The recursion of pow, on its way down and on its way back.
LEMMA CallsStep ==
  ASSUME IInv, [Next]_vars
  PROVE  CallsHalve'
<1> SUFFICES ASSUME pc' \in {"call", "return"} PROVE CallsHalve'
  BY DEF CallsHalve
<1>1. algo' = algo /\ Exponent' = Exponent
  <2>1. algo' = algo
    BY PowersStep
  <2>2. QED
    BY <2>1 DEF Exponent
<1>2. calls \in Seq(Nat) /\ Len(calls) \in Nat
  BY DEF IInv, TypeOK
<1>3. PowCall \/ PowOne \/ PowStep \/ UNCHANGED vars
  BY DEF Next, PowReturn, RefStep, CyclStep, SortStep
<1>4. pc \in {"call", "return"}
  BY <1>3 DEF PowCall, PowOne, PowStep, vars
<1>5. /\ algo \in {"cycl", "pow"}
      /\ Len(calls) > 0
      /\ calls[Len(calls)] = Exponent
      /\ \A m \in 1 .. Len(calls) - 1 : calls[m] = calls[m + 1] \div 2
  BY <1>4 DEF IInv, CallsHalve
<1>6. CASE PowCall
  <2> DEFINE h == calls[1] \div 2
  <2>1. Head(calls) = calls[1] /\ calls[1] \in Nat /\ h \in Nat
    <3>1. Head(calls) = calls[1] /\ calls[1] \in Nat
      BY <1>2, <1>5
    <3>2. QED
      BY <3>1
  <2>2. calls' = <<h>> \o calls
    BY <1>6, <2>1 DEF PowCall
  <2> HIDE DEF h
  <2>3. /\ Len(calls') = Len(calls) + 1
        /\ calls'[1] = h
        /\ \A m \in 1 .. Len(calls) : calls'[m + 1] = calls[m]
    <3>1. <<h>> \in Seq(Nat) /\ Len(<<h>>) = 1 /\ <<h>>[1] = h
      BY <2>1
    <3>2. QED
      BY <1>2, <2>2, <3>1
  <2>4. calls'[Len(calls')] = Exponent
    BY <1>2, <1>5, <2>3
  <2>5. ASSUME NEW m \in 1 .. Len(calls') - 1
        PROVE  calls'[m] = calls'[m + 1] \div 2
    <3>1. CASE m = 1
      <4>1. calls'[1 + 1] = calls[1]
        BY <1>2, <1>5, <2>3
      <4>2. QED
        BY <2>3, <3>1, <4>1 DEF h
    <3>2. CASE m # 1
      <4>1. /\ m - 1 \in 1 .. Len(calls) - 1 /\ m - 1 \in 1 .. Len(calls)
            /\ m \in 1 .. Len(calls) /\ (m - 1) + 1 = m
        BY <1>2, <2>3, <3>2
      <4>2. calls'[m] = calls[m - 1] /\ calls'[m + 1] = calls[m]
        BY <2>3, <4>1
      <4>3. QED
        BY <1>5, <4>1, <4>2
    <3>3. QED
      BY <3>1, <3>2
  <2>6. Len(calls') > 0
    BY <1>2, <2>3
  <2>7. QED
    BY <1>1, <1>5, <2>4, <2>5, <2>6 DEF CallsHalve
<1>7. CASE PowStep
  <2>1. calls' = Tail(calls) /\ Len(calls) > 1
    BY <1>7 DEF PowStep
  <2>2. /\ Len(calls') = Len(calls) - 1
        /\ \A m \in 1 .. Len(calls) - 1 : calls'[m] = calls[m + 1]
    BY <1>2, <2>1
  <2>3. calls'[Len(calls')] = Exponent
    <3>1. Len(calls) - 1 \in 1 .. Len(calls) - 1 /\ (Len(calls) - 1) + 1 = Len(calls)
      BY <1>2, <2>1
    <3>2. QED
      BY <1>5, <2>2, <3>1
  <2>4. ASSUME NEW m \in 1 .. Len(calls') - 1
        PROVE  calls'[m] = calls'[m + 1] \div 2
    <3>1. m \in 1 .. Len(calls) - 1 /\ m + 1 \in 1 .. Len(calls) - 1
      BY <1>2, <2>2
    <3>2. calls'[m] = calls[m + 1] /\ calls'[m + 1] = calls[(m + 1) + 1]
      BY <2>2, <3>1
    <3>3. QED
      BY <1>5, <3>1, <3>2
  <2>5. Len(calls') > 0
    BY <1>2, <2>1, <2>2
  <2>6. QED
    BY <1>1, <1>5, <2>3, <2>4, <2>5 DEF CallsHalve
<1>8. CASE calls' = calls
  BY <1>1, <1>5, <1>8 DEF CallsHalve
<1>9. QED
  BY <1>3, <1>6, <1>7, <1>8 DEF PowOne, vars

\* Squaring doubles the steps, multiplying by v adds one.
LEMMA PowerStep ==
  ASSUME IInv, [Next]_vars
  PROVE  PowerReached'
<1>1. newpow' \in [Lane -> Lane] /\ v' = v /\ algo' = algo
  BY PowersStep
<1>2. Exponent' = Exponent
  BY <1>1 DEF Exponent
<1> SUFFICES ASSUME algo \in {"cycl", "pow"}
             PROVE  Power' \in Nat /\ \A x \in Lane : newpow'[x] = Steps(v, x)[Power']
  BY <1>1 DEF PowerReached
<1>3. /\ v \in [Lane -> Lane] /\ newpow \in [Lane -> Lane]
      /\ calls \in Seq(Nat) /\ Len(calls) \in Nat /\ algo \in Algorithms
  BY DEF IInv, TypeOK, IsPerm
<1>4. Power \in Nat /\ \A x \in Lane : newpow[x] = Steps(v, x)[Power]
  BY DEF IInv, PowerReached
<1>5. CASE PowCall
  BY <1>4, <1>5 DEF PowCall, Power
<1>6. CASE PowOne
  <2>1. Power' = 0
    BY <1>6 DEF PowOne, Power
  <2>2. newpow' = Id
    BY <1>6 DEF PowOne
  <2>3. \A x \in Lane : Steps(v, x)[0] = x
    BY <1>3, StepsFacts
  <2>4. QED
    BY <2>1, <2>2, <2>3 DEF Id
<1>7. CASE PowStep
  <2> DEFINE h == calls[1]
             e == calls[2]
  <2>1. pc = "return" /\ pc' = "return" /\ Len(calls) > 1 /\ calls' = Tail(calls)
    BY <1>7 DEF PowStep
  <2>2. Head(calls) = h /\ h \in Nat /\ e \in Nat
    BY <1>3, <2>1
  <2>3. Head(calls') = e
    BY <1>3, <2>1
  <2>4. h = e \div 2
    <3>1. 1 \in 1 .. Len(calls) - 1 /\ 1 + 1 = 2
      BY <1>3, <2>1
    <3>2. QED
      BY <2>1, <3>1 DEF IInv, CallsHalve
  <2>5. Power = h /\ Power' = e
    BY <2>1, <2>2, <2>3 DEF Power
  <2> DEFINE square == Permuted(newpow, newpow)
  <2>6. newpow' = IF e % 2 = 1 THEN Permuted(v, square) ELSE square
    BY <1>7 DEF PowStep
  <2> HIDE DEF h, e
  <2>7. square = [x \in Lane |-> newpow[newpow[x]]]
    BY <1>3, PermutedLane
  <2>8. square \in [Lane -> Lane]
    BY <1>3, <2>7
  <2>9. Permuted(v, square) = [x \in Lane |-> v[square[x]]]
    BY <2>8, PermutedLane
  <2> HIDE DEF square
  <2>10. ASSUME NEW x \in Lane
         PROVE  newpow'[x] = Steps(v, x)[e]
    <3>1. newpow[x] \in Lane /\ newpow[x] = Steps(v, x)[h]
      BY <1>3, <1>4, <2>5
    <3>2. square[x] = Steps(v, Steps(v, x)[h])[h]
      BY <1>4, <2>5, <2>7, <3>1
    <3>3. square[x] = Steps(v, x)[h + h]
      BY <1>3, <2>2, <3>2, StepsAdd
    <3>4. h + h \in Nat /\ Steps(v, x)[(h + h) + 1] = v[Steps(v, x)[h + h]]
      <4>1. h + h \in Nat
        BY <2>2
      <4>2. QED
        BY <1>3, <4>1, StepsFacts
    <3>5. CASE e % 2 = 1
      <4>1. e = (h + h) + 1
        BY <2>2, <2>4, <3>5
      <4>2. newpow'[x] = v[square[x]]
        BY <2>6, <2>9, <3>5
      <4>3. QED
        BY <3>3, <3>4, <4>1, <4>2
    <3>6. CASE e % 2 # 1
      <4>1. e = h + h
        BY <2>2, <2>4, <3>6
      <4>2. QED
        BY <2>6, <3>3, <3>6, <4>1
    <3>7. QED
      BY <3>5, <3>6
  <2>11. QED
    BY <2>2, <2>5, <2>10
<1>8. CASE PowReturn
  <2>1. pc = "return" /\ Len(calls) = 1 /\ newpow' = newpow
    BY <1>8 DEF PowReturn
  <2>2. Head(calls) = Exponent
    BY <1>3, <2>1 DEF IInv, CallsHalve
  <2>3. Power = Exponent
    BY <2>1, <2>2 DEF Power
  <2>4. CASE algo = "cycl"
    <3>1. Power' = (Size \div 2 + 1) - 1 /\ Exponent = Size \div 2
      BY <1>1, <1>8, <2>4 DEF PowReturn, Power, Exponent
    <3>2. Power' = Power
      BY <2>3, <3>1, SizeAssumption
    <3>3. QED
      BY <1>4, <2>1, <3>2
  <2>5. CASE algo = "pow"
    <3>1. Power' = Power
      BY <1>1, <1>2, <1>8, <2>3, <2>5 DEF PowReturn, Power
    <3>2. QED
      BY <1>4, <2>1, <3>1
  <2>6. QED
    BY <2>4, <2>5
<1>9. CASE CyclStep
  <2>1. pc = "loop" /\ algo = "cycl" /\ i' = i + 1 /\ pc' \in {"loop", "done"}
    BY <1>9 DEF CyclStep
  <2>2. Power = i - 1 /\ Power' = (i + 1) - 1
    BY <1>1, <2>1 DEF Power
  <2>3. i \in Nat
    BY DEF IInv, TypeOK
  <2>4. Power' = Power + 1
    BY <2>2, <2>3
  <2>5. ASSUME NEW x \in Lane
        PROVE  newpow'[x] = Steps(v, x)[Power + 1]
    <3>1. newpow'[x] = v[newpow[x]]
      BY <1>9, CyclLane
    <3>2. Steps(v, x)[Power + 1] = v[Steps(v, x)[Power]]
      BY <1>3, <1>4, StepsFacts
    <3>3. QED
      BY <1>4, <3>1, <3>2
  <2>6. QED
    BY <1>4, <2>4, <2>5
<1>10. CASE UNCHANGED vars
  BY <1>4, <1>10 DEF vars, Power, Exponent
<1>11. QED
  BY <1>5, <1>6, <1>7, <1>8, <1>9, <1>10 DEF Next, RefStep, SortStep

\* A lane whose cycle divides the new power is settled, and the lanes that were
\* settled stay so.
LEMMA SettledStep ==
  ASSUME IInv, [Next]_vars
  PROVE  CyclesSettled'
<1>1. v' = v /\ algo' = algo
  BY PowersStep
<1> SUFFICES ASSUME algo = "cycl", pc' \in {"loop", "done"}
             PROVE  /\ i' \in Size \div 2 + 1 .. Size + 1
                    /\ pc' = "loop" => i' <= Size
                    /\ pc' = "done" => i' = Size + 1
                    /\ \A n \in Size \div 2 + 1 .. i' - 1 : \A x \in Lane :
                         Steps(v, x)[n] = x => Right(x, res)'
  BY <1>1 DEF CyclesSettled, Right
<1>2. Size \div 2 \in Nat /\ Size \div 2 + 1 <= Size
  BY SizeAssumption
<1>3. CASE PowReturn
  <2>1. i' = Size \div 2 + 1 /\ pc' = "loop"
    BY <1>3 DEF PowReturn
  <2>2. \A n \in Size \div 2 + 1 .. i' - 1 : FALSE
    BY <1>2, <2>1
  <2>3. QED
    BY <1>2, <2>1, <2>2, SizeAssumption
<1>4. CASE CyclStep
  <2>1. /\ pc = "loop" /\ i' = i + 1
        /\ pc' = IF i + 1 <= Size THEN "loop" ELSE "done"
    BY <1>4 DEF CyclStep
  <2>2. /\ i \in Size \div 2 + 1 .. Size + 1 /\ i <= Size
        /\ \A n \in Size \div 2 + 1 .. i - 1 : \A x \in Lane :
             Steps(v, x)[n] = x => Right(x, res)
    BY <2>1 DEF IInv, CyclesSettled
  <2>3. i \in Nat /\ Power = i - 1 /\ \A x \in Lane : newpow'[x] = Steps(v, x)[i]
    <3>1. PowerReached' /\ Power' = (i + 1) - 1
      BY <1>1, <2>1, PowerStep DEF Power
    <3>2. i \in Nat
      BY DEF IInv, TypeOK
    <3>3. QED
      BY <1>1, <2>1, <3>1, <3>2 DEF PowerReached, Power
  <2>4. ASSUME NEW n \in Size \div 2 + 1 .. i, NEW x \in Lane, Steps(v, x)[n] = x
        PROVE  Right(x, res)'
    <3>1. /\ newpow'[x] = v[newpow[x]] /\ newpow[x] \in Lane
          /\ res'[x] = IF newpow'[x] = x THEN newpow[x] ELSE res[x]
      BY <1>4, CyclLane
    <3>2. CASE newpow'[x] = x
      BY <1>1, <3>1, <3>2 DEF Right
    <3>3. CASE newpow'[x] # x
      <4>1. n # i
        BY <2>3, <2>4, <3>3
      <4>2. n \in Size \div 2 + 1 .. i - 1
        BY <1>2, <2>3, <4>1
      <4>3. Right(x, res)
        BY <2>2, <2>4, <4>2
      <4>4. QED
        BY <1>1, <3>1, <3>3, <4>3 DEF Right
    <3>4. QED
      BY <3>2, <3>3
  <2>5. i' - 1 = i
    BY <2>1, <2>3
  <2>6. /\ i' \in Size \div 2 + 1 .. Size + 1
        /\ pc' = "loop" => i' <= Size
        /\ pc' = "done" => i' = Size + 1
    BY <1>2, <2>1, <2>2, <2>3, SizeAssumption
  <2>7. QED
    BY <2>4, <2>5, <2>6
<1>5. CASE UNCHANGED vars
  BY <1>5 DEF vars, IInv, CyclesSettled, Right
<1>6. QED
  BY <1>3, <1>4, <1>5 DEF Next, PowCall, PowOne, PowStep, RefStep, SortStep

LEMMA ResultStep ==
  ASSUME IInv, [Next]_vars
  PROVE  PowResult'
<1> SUFFICES ASSUME algo' = "pow"
             PROVE  pc' # "loop" /\ (pc' = "done" => res' = newpow')
  BY DEF PowResult
<1>1. algo = "pow"
  BY PowersStep
<1>2. pc # "loop" /\ (pc = "done" => res = newpow)
  BY <1>1 DEF IInv, PowResult
<1>3. QED
  BY <1>1, <1>2 DEF Next, PowCall, PowOne, PowStep, PowReturn, RefStep, CyclStep,
                    SortStep, vars

LEMMA RoundMoves ==
  ASSUME NEW up \in BOOLEAN, NEW x \in [Lane -> Nat],
         NEW round \in [Lane -> Lane], PairsOff(round, Lane)
  PROVE  \E f \in [Lane -> Lane] :
           LanesApart(f) /\ \A y \in Lane : SortRound(up, x, round)[y] = x[f[y]]
<1>1. Rearranged(SortRound(up, x, round), x, Lane)
  BY SortRoundMoves
<1>2. QED
  BY <1>1 DEF Rearranged, LanesApart

\* A round of inverse_sort moves the tagged lanes, and what it makes of every
\* threshold is in Reach.
LEMMA RoundMovesTags ==
  ASSUME IInv, SortStep
  PROVE  LET sorted == SortRound(TRUE, res, Rounds[i + 1])
         IN  /\ sorted \in [Lane -> Nat]
             /\ \E g \in [Lane -> Lane] :
                  LanesApart(g) /\ \A x \in Lane : sorted[x] = Tagged(v)[g[x]]
             /\ \A t \in Nat : Threshold(sorted, t) \in Reach[i + 1]
<1> DEFINE round  == Rounds[i + 1]
           sorted == SortRound(TRUE, res, round)
<1>1. /\ round \in [Lane -> Lane] /\ \A x \in Lane : round[round[x]] = x
      /\ {SortRound(TRUE, w, round) : w \in Reach[i]} \subseteq Reach[i + 1]
      /\ TagsMoved
      /\ \A t \in Nat : Threshold(res, t) \in Reach[i]
  BY SortRoundsRight
<1>2. res \in [Lane -> Nat]
  BY DEF IInv, TypeOK
<1> HIDE DEF round
<1>3. sorted \in [Lane -> Nat]
  BY <1>1, <1>2, SortRoundType
<1>4. PICK g \in [Lane -> Lane] : LanesApart(g) /\ \A x \in Lane : res[x] = Tagged(v)[g[x]]
  BY <1>1 DEF TagsMoved
<1>5. PairsOff(round, Lane)
  BY <1>1 DEF PairsOff
<1>6. PICK f \in [Lane -> Lane] :
        LanesApart(f) /\ \A x \in Lane : SortRound(TRUE, res, round)[x] = res[f[x]]
  BY <1>1, <1>2, <1>5, RoundMoves
<1> DEFINE gf == [x \in Lane |-> g[f[x]]]
<1>7. gf \in [Lane -> Lane] /\ LanesApart(gf)
  BY <1>4, <1>6 DEF LanesApart
<1>8. \A x \in Lane : sorted[x] = Tagged(v)[gf[x]]
  BY <1>4, <1>6
<1>9. ASSUME NEW t \in Nat
      PROVE  Threshold(sorted, t) \in Reach[i + 1]
  <2>1. Threshold(sorted, t) = SortRound(TRUE, Threshold(res, t), round)
    BY <1>1, <1>2, SortRoundThreshold
  <2>2. QED
    BY <1>1, <2>1
<1> HIDE DEF sorted, gf
<1>10. /\ sorted \in [Lane -> Nat]
       /\ \E h \in [Lane -> Lane] :
            LanesApart(h) /\ \A x \in Lane : sorted[x] = Tagged(v)[h[x]]
       /\ \A t \in Nat : Threshold(sorted, t) \in Reach[i + 1]
  BY <1>3, <1>7, <1>8, <1>9
<1>11. QED
  BY <1>10 DEF sorted, round

\* Sorted, the tagged lanes are in the order of v; their tags are the inverse.
LEMMA SortedTags ==
  ASSUME Size <= 16, IsPerm(v), NEW sorted \in [Lane -> Nat], Ordered(sorted, TRUE, Lane),
         NEW g \in [Lane -> Lane], LanesApart(g),
         \A x \in Lane : sorted[x] = Tagged(v)[g[x]],
         NEW x \in Lane
  PROVE  sorted[x] % 16 = g[x] /\ v[g[x]] = x
<1>1. v \in [Lane -> Lane] /\ \A y, z \in Lane : v[y] = v[z] => y = z
  BY DEF IsPerm
<1>2. \A y \in Lane : y \in Nat /\ y < 16
  BY SizeAssumption DEF Lane
<1> DEFINE f == [y \in Lane |-> v[g[y]]]
<1>3. ASSUME NEW y \in Lane
      PROVE  /\ sorted[y] = f[y] * 16 + g[y] /\ sorted[y] % 16 = g[y]
             /\ f[y] \in Nat /\ g[y] \in Nat /\ f[y] \in Lane /\ g[y] \in Lane /\ g[y] < 16
  <2>1. g[y] \in Lane /\ f[y] \in Lane /\ f[y] = v[g[y]]
    BY <1>1
  <2>2. sorted[y] = (v[g[y]] * 16 + g[y]) % 256
    BY <2>1 DEF Tagged
  <2> HIDE DEF f
  <2>3. f[y] \in Nat /\ g[y] \in Nat /\ f[y] < 16 /\ g[y] < 16
    BY <1>2, <2>1
  <2>4. \A a, b \in Nat : a < 16 /\ b < 16 =>
          (a * 16 + b) % 256 = a * 16 + b /\ (a * 16 + b) % 16 = b
    OBVIOUS
  <2>5. QED
    BY <2>1, <2>2, <2>3, <2>4
<1>4. ASSUME NEW y \in Lane, NEW z \in Lane, y < z
      PROVE  f[y] < f[z]
  <2>1. sorted[y] <= sorted[z]
    BY <1>4 DEF Ordered
  <2>2. f[y] # f[z]
    <3>1. y # z
      BY <1>2, <1>4
    <3>2. g[y] # g[z] /\ g[y] \in Lane /\ g[z] \in Lane
      BY <3>1 DEF LanesApart
    <3>3. QED
      BY <1>1, <3>2
  <2> HIDE DEF f
  <2>3. f[y] * 16 + g[y] <= f[z] * 16 + g[z]
    BY <1>3, <2>1
  <2>4. \A a, b, c, d \in Nat :
          c < 16 /\ d < 16 /\ a * 16 + c <= b * 16 + d /\ a # b => a < b
    OBVIOUS
  <2>5. QED
    BY <1>3, <2>2, <2>3, <2>4
<1>5. f \in [Lane -> Lane] /\ f[x] = v[g[x]]
  BY <1>1
<1> HIDE DEF f
<1>6. f[x] = x
  BY <1>4, <1>5, IncreasingIsId
<1>7. QED
  BY <1>3, <1>5, <1>6

LEMMA SortProgressStep ==
  ASSUME IInv, [Next]_vars
  PROVE  SortProgress'
<1>1. v' = v /\ algo' = algo
  BY PowersStep
<1> SUFFICES ASSUME algo = "sort"
             PROVE  SortProgress'
  BY <1>1 DEF SortProgress
<1>2. CASE SortStep
  <2> DEFINE sorted == SortRound(TRUE, res, Rounds[i + 1])
  <2>1. /\ sorted \in [Lane -> Nat]
        /\ \E g \in [Lane -> Lane] :
             LanesApart(g) /\ \A x \in Lane : sorted[x] = Tagged(v)[g[x]]
        /\ \A t \in Nat : Threshold(sorted, t) \in Reach[i + 1]
    BY <1>2, RoundMovesTags
  <2>2. /\ res' = IF i + 1 = Len(Rounds) THEN [x \in Lane |-> sorted[x] % 16] ELSE sorted
        /\ pc' = IF i + 1 = Len(Rounds) THEN "done" ELSE "loop"
        /\ i' = i + 1
    BY <1>2 DEF SortStep
  <2> HIDE DEF sorted
  <2>3. PICK g \in [Lane -> Lane] :
          LanesApart(g) /\ \A x \in Lane : sorted[x] = Tagged(v)[g[x]]
    BY <2>1
  <2>4. /\ Size <= 16 /\ i \in Nat /\ Len(Rounds) \in Nat /\ i + 1 \in 1 .. Len(Rounds)
        /\ \A w \in Reach[Len(Rounds)] : Ordered(w, TRUE, Lane)
    BY <1>2, SortRoundsRight
  <2>5. CASE i + 1 = Len(Rounds)
    <3>1. \A t \in Nat : Ordered(Threshold(sorted, t), TRUE, Lane)
      BY <2>1, <2>4, <2>5
    <3>2. Ordered(sorted, TRUE, Lane)
      BY <2>1, <3>1, ThresholdsOrder
    <3>3. IsPerm(v)
      BY DEF IInv, TypeOK
    <3>4. \A x \in Lane : sorted[x] % 16 = g[x] /\ v[g[x]] = x
      BY <2>1, <2>3, <2>4, <3>2, <3>3, SortedTags
    <3>5. \A x \in Lane : Right(x, res)'
      BY <1>1, <2>2, <2>5, <3>4 DEF Right
    <3>6. QED
      BY <2>2, <2>5, <3>5 DEF SortProgress
  <2>6. CASE i + 1 # Len(Rounds)
    <3>1. res' = sorted /\ pc' = "loop" /\ i' = i + 1
      BY <2>2, <2>6
    <3>2. i + 1 \in 0 .. Len(Rounds) - 1
      BY <2>4, <2>6
    <3>3. TagsMoved'
      BY <1>1, <2>3, <3>1 DEF TagsMoved, Tagged
    <3>4. \A t \in Nat : Threshold(res, t)' \in Reach[i']
      BY <2>1, <3>1 DEF Threshold
    <3>5. QED
      BY <3>1, <3>2, <3>3, <3>4 DEF SortProgress
  <2>7. QED
    BY <2>5, <2>6
<1>3. CASE UNCHANGED vars
  BY <1>3 DEF vars, IInv, SortProgress, TagsMoved, Tagged, Threshold, Right
<1>4. pc \in {"loop", "done"}
  BY DEF IInv, SortProgress
<1>5. QED
  BY <1>2, <1>3, <1>4 DEF Next, PowCall, PowOne, PowStep, PowReturn, RefStep, CyclStep

LEMMA CyclLanesStep ==
  ASSUME IInv, [Next]_vars
  PROVE  CyclLanesRight'
<1>1. v' = v /\ algo' = algo
  BY PowersStep
<1> SUFFICES ASSUME algo = "cycl", NEW x \in Lane
             PROVE  (res[x] = x \/ Right(x, res))'
  BY <1>1 DEF CyclLanesRight
<1>2. res[x] = x \/ Right(x, res)
  BY DEF IInv, CyclLanesRight
<1>3. CASE CyclStep
  BY <1>1, <1>2, <1>3, CyclLane DEF Right
<1>4. CASE res' = res
  BY <1>1, <1>2, <1>4 DEF Right
<1>5. QED
  BY <1>3, <1>4 DEF Next, PowCall, PowOne, PowStep, PowReturn, RefStep, SortStep, vars

LEMMA RefLanesStep ==
  ASSUME IInv, [Next]_vars
  PROVE  RefLanesRight'
<1>1. v' = v /\ algo' = algo
  BY PowersStep
<1> SUFFICES ASSUME algo = "ref"
             PROVE  RefLanesRight'
  BY <1>1 DEF RefLanesRight
<1>2. CASE RefStep
  <2>1. /\ i \in Lane /\ \A y \in 0 .. i - 1 : res[v[y]] = y
        /\ v \in [Lane -> Lane]
        /\ \A x, y \in Lane : v[x] = v[y] => x = y
        /\ DOMAIN res = Lane
    BY <1>2 DEF IInv, TypeOK, RefLanesRight, IsPerm, RefStep
  <2>2. res' = [res EXCEPT ![v[i]] = i] /\ i' = i + 1
        /\ pc' = IF i + 1 < Size THEN "loop" ELSE "done"
    BY <1>2 DEF RefStep
  <2>3. \A y \in 0 .. i : y \in Lane /\ (y = i \/ y \in 0 .. i - 1)
    BY <2>1, SizeAssumption DEF Lane
  <2>4. \A y \in 0 .. i : res'[v[y]] = y
    BY <2>1, <2>2, <2>3
  <2>5. CASE i + 1 < Size
    <3>1. i' \in Lane /\ 0 .. i' - 1 = 0 .. i
      BY <2>1, <2>2, <2>5, SizeAssumption DEF Lane
    <3>2. pc' = "loop"
      BY <2>2, <2>5
    <3>3. QED
      BY <1>1, <2>4, <3>1, <3>2 DEF RefLanesRight
  <2>6. CASE ~(i + 1 < Size)
    <3>1. Lane = 0 .. i
      BY <2>1, <2>6, SizeAssumption DEF Lane
    <3>2. pc' = "done"
      BY <2>2, <2>6
    <3>3. QED
      BY <1>1, <2>4, <3>1, <3>2 DEF RefLanesRight
  <2>7. QED
    BY <2>5, <2>6
<1>3. CASE UNCHANGED vars
  BY <1>3 DEF vars, IInv, RefLanesRight
<1>4. pc \in {"loop", "done"}
  BY DEF IInv, RefLanesRight
<1>5. QED
  BY <1>2, <1>3, <1>4 DEF Next, PowCall, PowOne, PowStep, PowReturn, CyclStep, SortStep

LEMMA IInvStep == IInv /\ [Next]_vars => IInv'
<1> SUFFICES ASSUME IInv, [Next]_vars PROVE IInv'
  OBVIOUS
<1>1. TypeOK'
  BY TypeStep
<1>2. PowersCommute'
  BY PowersStep
<1>3. CallsHalve' /\ PowerReached'
  BY CallsStep, PowerStep
<1>4. CyclLanesRight' /\ CyclesSettled'
  BY CyclLanesStep, SettledStep
<1>5. RefLanesRight' /\ PowResult' /\ SortProgress'
  BY RefLanesStep, ResultStep, SortProgressStep
<1>6. QED
  BY <1>1, <1>2, <1>3, <1>4, <1>5 DEF IInv

LEMMA IInvInvariant == Spec => []IInv
BY IInvInit, IInvStep, PTL DEF Spec

-----------------------------------------------------------------------------
\* The variables keep their types; in particular no step reads a lane, a call
\* or a round that is not there.
THEOREM TypeCorrect == Spec => []TypeOK
<1>1. IInv => TypeOK
  BY DEF IInv
<1>2. QED
  BY <1>1, IInvInvariant, PTL

\* newpow is the power of v that the code takes it for, whatever the exponent:
\* at every return of pow's recursion, and in the loop of inverse_cycl.
THEOREM PowersAreExact == Spec => []PowersExact
<1>1. IInv => PowersExact
  <2> SUFFICES ASSUME IInv, algo \in {"cycl", "pow"}, NEW x \in Lane
               PROVE  newpow[x] = Walk(x, Power)
    BY DEF PowersExact, Power
  <2>1. Power \in Nat /\ newpow[x] = Steps(v, x)[Power] /\ IsPerm(v)
    BY DEF IInv, PowerReached, TypeOK
  <2>2. QED
    BY <2>1, WalkIsSteps
<1>2. QED
  BY <1>1, IInvInvariant, PTL

\* inverse_cycl never blends a wrong value into a lane.
THEOREM CyclIsRight == Spec => []CyclLanesRight
<1>1. IInv => CyclLanesRight
  BY DEF IInv
<1>2. QED
  BY <1>1, IInvInvariant, PTL

\* inverse_ref writes every lane.
LEMMA RefReturns ==
  ASSUME IInv, algo = "ref", pc = "done", NEW x \in Lane
  PROVE  Right(x, res)
<1>1. PICK y \in Lane : v[y] = x
  BY DEF IInv, TypeOK, IsPerm
<1>2. res[v[y]] = y
  BY DEF IInv, RefLanesRight
<1>3. QED
  BY <1>1, <1>2 DEF Right

\* Among the powers inverse_cycl went through is a multiple of the length of the
\* lane's cycle.
LEMMA CyclReturns ==
  ASSUME IInv, algo = "cycl", pc = "done", NEW x \in Lane
  PROVE  Right(x, res)
<1>1. v \in [Lane -> Lane] /\ LanesApart(v)
  BY DEF IInv, TypeOK, IsPerm, LanesApart
<1>2. PICK l \in 1 .. Size : Steps(v, x)[l] = x
  BY <1>1, CycleLength
<1>3. PICK n \in Nat : n * l \in Size \div 2 + 1 .. Size
  BY MultipleInUpperHalf
<1>4. Steps(v, x)[n * l] = x
  <2>1. l \in Nat
    BY SizeAssumption
  <2>2. QED
    BY <1>1, <1>2, <2>1, CycleMultiples
<1>5. i = Size + 1
  BY DEF IInv, CyclesSettled
<1>6. n * l \in Size \div 2 + 1 .. i - 1
  BY <1>3, <1>5, SizeAssumption
<1>7. QED
  BY <1>4, <1>6 DEF IInv, CyclesSettled

\* The power lcm(1, ..., Size) takes every lane back to itself, so the power
\* before it is the inverse.
LEMMA PowReturns ==
  ASSUME IInv, algo = "pow", pc = "done", NEW x \in Lane
  PROVE  Right(x, res)
<1>1. v \in [Lane -> Lane] /\ LanesApart(v) /\ algo \in Algorithms /\ newpow \in [Lane -> Lane]
  BY DEF IInv, TypeOK, IsPerm, LanesApart
<1>2. lcm_range \in Nat \ {0} /\ \A l \in 1 .. Size : lcm_range % l = 0
  BY <1>1, LcmAssumption
<1>3. res[x] \in Lane /\ res[x] = Steps(v, x)[lcm_range - 1]
  BY <1>1 DEF IInv, PowResult, PowerReached, Power, Exponent
<1>4. v[res[x]] = Steps(v, x)[lcm_range]
  <2>1. lcm_range - 1 \in Nat /\ (lcm_range - 1) + 1 = lcm_range
    BY <1>2
  <2>2. Steps(v, x)[(lcm_range - 1) + 1] = v[Steps(v, x)[lcm_range - 1]]
    BY <1>1, <2>1, StepsFacts
  <2>3. QED
    BY <1>3, <2>1, <2>2
<1>5. Steps(v, x)[lcm_range] = x
  <2>1. PICK l \in 1 .. Size : Steps(v, x)[l] = x
    BY <1>1, CycleLength
  <2>2. l \in Nat \ {0} /\ lcm_range \in Nat /\ lcm_range % l = 0
    BY <1>2, SizeAssumption
  <2>3. Steps(v, x)[lcm_range] = Steps(v, x)[lcm_range % l]
    BY <1>1, <2>1, <2>2, CycleRest
  <2>4. QED
    BY <1>1, <2>2, <2>3, StepsFacts
<1>6. QED
  BY <1>3, <1>4, <1>5 DEF Right

\* Every algorithm returns the inverse of its argument.
THEOREM InverseIsReturned == Spec => []InverseAtReturn
<1>1. IInv => InverseAtReturn
  <2> SUFFICES ASSUME IInv, pc = "done", NEW x \in Lane
               PROVE  Right(x, res)
    BY DEF InverseAtReturn
  <2>1. CASE algo = "sort"
    BY <2>1 DEF IInv, SortProgress
  <2>2. algo \in {"ref", "cycl", "sort", "pow"}
    BY PermInverseAssumption DEF IInv, TypeOK
  <2>3. QED
    BY <2>1, <2>2, RefReturns, CyclReturns, PowReturns
<1>2. QED
  BY <1>1, IInvInvariant, PTL

\* A right lane stays right, however often inverse_ref or inverse_cycl writes
\* to it.
THEOREM RightLanesAreKept == Spec => RightLanesKept
<1>1. IInv /\ [Next]_vars => [KeepsRightLanes]_vars
  <2> SUFFICES ASSUME IInv, Next, algo \in {"ref", "cycl"},
                      NEW x \in Lane, Right(x, res)
               PROVE  Right(x, res')
    BY DEF KeepsRightLanes
  <2>1. /\ v \in [Lane -> Lane] /\ \A y, z \in Lane : v[y] = v[z] => y = z
        /\ DOMAIN res = Lane
    BY DEF IInv, TypeOK, IsPerm
  <2>2. CASE RefStep
    <3>1. i \in Lane /\ res' = [res EXCEPT ![v[i]] = i]
      BY <2>2 DEF RefStep, IInv, RefLanesRight
    <3>2. QED
      BY <2>1, <3>1 DEF Right
  <2>3. CASE CyclStep
    BY <2>3, CyclLane DEF Right
  <2>4. CASE res' = res
    BY <2>4
  <2>5. QED
    BY <2>2, <2>3, <2>4 DEF Next, PowCall, PowOne, PowStep, PowReturn, SortStep
<1>2. QED
  BY <1>1, IInvInvariant, PTL DEF Spec, RightLanesKept
=============================================================================
