----------------------------- MODULE Epu8Proofs -----------------------------
(***************************************************************************)
(* Lemmas about one round of a comparator network, for every number of     *)
(* lanes and every set of bytes.  They are the steps of the proofs about   *)
(* NetworkSort, NetworkSortPerm, Merge and inverse_sort.  At the end,      *)
(* lemmas about the powers of a map of lanes, for the proofs about         *)
(* PermInverse and the loops of LaneLoops.                                 *)
(***************************************************************************)
EXTENDS Epu8, FiniteSetTheorems, TLAPS

\* Induction over the natural numbers, for a set of them.
LEMMA NatSetInduction ==
  ASSUME NEW S, 0 \in S, \A n \in Nat : n \in S => n + 1 \in S
  PROVE  \A n \in Nat : n \in S
<1> SUFFICES ASSUME NEW n \in Nat, n \notin S PROVE FALSE
  OBVIOUS
<1> DEFINE Missing == {0 .. m : m \in {l \in Nat : l \notin S}}
<1>1. Missing \subseteq FiniteSubsetsOf(Nat)
  <2>1. \A m \in Nat : 0 .. m \subseteq Nat /\ IsFiniteSet(0 .. m)
    BY FS_Interval
  <2>2. QED
    BY <2>1 DEF FiniteSubsetsOf
<1>2. Missing # {}
  OBVIOUS
<1>3. IsWellFoundedOn(StrictSubsetOrdering(Nat), FiniteSubsetsOf(Nat))
  BY FS_StrictSubsetOrderingWellFounded
<1> HIDE DEF Missing
<1>4. PICK I \in Missing : \A J \in Missing : ~(<<J, I>> \in StrictSubsetOrdering(Nat))
  BY <1>1, <1>2, <1>3, WFMin
<1>5. PICK m \in Nat : m \notin S /\ I = 0 .. m
  BY DEF Missing
<1>6. m # 0 /\ m - 1 \in Nat /\ (m - 1) + 1 = m
  BY <1>5
<1>7. m - 1 \notin S
  BY <1>5, <1>6
<1>8. 0 .. m - 1 \in Missing
  BY <1>6, <1>7 DEF Missing
<1>9. 0 .. m - 1 \subseteq 0 .. m /\ 0 .. m - 1 # 0 .. m /\ 0 .. m \subseteq Nat
      /\ 0 .. m - 1 \subseteq Nat
  <2>1. m \in 0 .. m /\ m \notin 0 .. m - 1
    BY <1>6
  <2>2. QED
    BY <1>6, <2>1
<1>10. <<0 .. m - 1, I>> \in StrictSubsetOrdering(Nat)
  BY <1>5, <1>9 DEF StrictSubsetOrdering
<1>11. QED
  BY <1>4, <1>8, <1>10

\* A set of numbers that is not empty has a least one.
LEMMA LeastOfSome ==
  ASSUME NEW S, S \subseteq Nat, S # {}
  PROVE  \E m \in S : \A n \in S : m <= n
<1> SUFFICES ASSUME \A m \in S : \E n \in S : ~(m <= n) PROVE FALSE
  OBVIOUS
<1> DEFINE Below == {n \in Nat : \A m \in 0 .. n : m \notin S}
<1>1. 0 \in Below
  OBVIOUS
<1>2. ASSUME NEW n \in Nat, n \in Below
      PROVE  n + 1 \in Below
  <2>1. \A m \in 0 .. n + 1 : m \in 0 .. n \/ m = n + 1
    OBVIOUS
  <2>2. n + 1 \notin S
    <3>1. \A m \in S : n + 1 <= m
      BY <1>2
    <3>2. QED
      BY <3>1
  <2>3. QED
    BY <1>2, <2>1, <2>2
<1> HIDE DEF Below
<1>3. \A n \in Nat : n \in Below
  BY <1>1, <1>2, NatSetInduction
<1>4. PICK m : m \in S
  OBVIOUS
<1>5. m \in Nat /\ m \in 0 .. m
  BY <1>4
<1>6. QED
  BY <1>3, <1>4, <1>5 DEF Below

\* A round as the tables of the code have them: it pairs off the lanes of B.
PairsOff(round, B) ==
  \A i \in B : round[i] \in B /\ round[round[i]] = i

\* A shuffle whose selectors are lanes only moves bytes.
LEMMA PermutedLane ==
  ASSUME NEW a, NEW b \in [Lane -> Lane]
  PROVE  Permuted(a, b) = [i \in Lane |-> a[b[i]]]
BY DEF Permuted

\* What each lane holds after a round: the smaller byte of the pair on the
\* side the direction sends it to.
LEMMA SortRoundLane ==
  ASSUME NEW up \in BOOLEAN, NEW x \in [Lane -> Nat],
         NEW round \in [Lane -> Lane], NEW i \in Lane
  PROVE  SortRound(up, x, round)[i] =
           IF (IF up THEN round[i] < i ELSE i < round[i])
           THEN IF x[i] <= x[round[i]] THEN x[round[i]] ELSE x[i]
           ELSE IF x[i] <= x[round[i]] THEN x[i] ELSE x[round[i]]
<1>1. Permuted(x, round) = [j \in Lane |-> x[round[j]]]
  BY PermutedLane
<1>2. Permuted(x, round)[i] = x[round[i]]
  BY <1>1
<1>3. QED
  BY <1>2 DEF SortRound, Blend, VMin, VMax, RoundMask

\* A round keeps vectors vectors, whatever bytes they hold.
LEMMA SortRoundType ==
  ASSUME NEW up \in BOOLEAN, NEW S \in SUBSET Nat, NEW x \in [Lane -> S],
         NEW round \in [Lane -> Lane]
  PROVE  SortRound(up, x, round) \in [Lane -> S]
<1>1. x \in [Lane -> Nat]
  OBVIOUS
<1>2. \A i \in Lane : SortRound(up, x, round)[i] \in S
  BY <1>1, SortRoundLane
<1>3. SortRound(up, x, round)
        = [i \in Lane |-> SortRound(up, x, round)[i]]
  BY DEF SortRound, Blend
<1>4. QED
  BY <1>2, <1>3

\* Counting is not changed by a bijection of the positions that carries one
\* array to the other.
LEMMA CountBijection ==
  ASSUME NEW B, IsFiniteSet(B), NEW a, NEW b, NEW x,
         NEW f \in [B -> B],
         \A i, j \in B : f[i] = f[j] => i = j,
         \A j \in B : \E i \in B : f[i] = j,
         \A i \in B : a[i] = b[f[i]]
  PROVE  Count(a, B, x) = Count(b, B, x)
<1> DEFINE S == {i \in B : a[i] = x}
           T == {i \in B : b[i] = x}
           g == [i \in S |-> f[i]]
<1>1. S \subseteq B
  OBVIOUS
<1>2. IsFiniteSet(S)
  BY <1>1, FS_Subset
<1>3. g \in Injection(S, T)
  BY DEF Injection, IsInjective
<1>4. g \in Surjection(S, T)
  BY DEF Surjection
<1>5. g \in Bijection(S, T)
  BY <1>3, <1>4 DEF Bijection
<1>6. ExistsBijection(S, T)
  BY <1>5 DEF ExistsBijection
<1>7. Cardinality(T) = Cardinality(S)
  BY <1>2, <1>6, FS_Bijection
<1>8. QED
  BY <1>7 DEF Count

\* y holds what x holds, moved within the lanes of B.
Rearranged(y, x, B) ==
  \E f \in [B -> B] :
    /\ \A i, j \in B : f[i] = f[j] => i = j
    /\ \A j \in B : \E i \in B : f[i] = j
    /\ \A i \in B : y[i] = x[f[i]]

(***************************************************************************)
(* A round only moves bytes: the two lanes of a pair take the minimum and  *)
(* the maximum of the same two bytes, so either both keep what they have   *)
(* or both take what the other has.                                        *)
(***************************************************************************)
LEMMA SortRoundMoves ==
  ASSUME NEW up \in BOOLEAN, NEW x \in [Lane -> Nat],
         NEW round \in [Lane -> Lane],
         NEW B \in SUBSET Lane, PairsOff(round, B)
  PROVE  Rearranged(SortRound(up, x, round), x, B)
<1> DEFINE y == SortRound(up, x, round)
           f == [i \in B |-> IF y[i] = x[i] THEN i ELSE round[i]]
<1>1. \A i \in B :
        /\ round[i] \in B
        /\ round[round[i]] = i
        /\ x[i] \in Nat
        /\ i \in Int
        /\ y[i] = IF (IF up THEN round[i] < i ELSE i < round[i])
                  THEN IF x[i] <= x[round[i]] THEN x[round[i]] ELSE x[i]
                  ELSE IF x[i] <= x[round[i]] THEN x[i] ELSE x[round[i]]
  <2> SUFFICES ASSUME NEW i \in B
               PROVE  /\ round[i] \in B
                      /\ round[round[i]] = i
                      /\ x[i] \in Nat
                      /\ i \in Int
                      /\ y[i] = IF (IF up THEN round[i] < i ELSE i < round[i])
                                THEN IF x[i] <= x[round[i]] THEN x[round[i]] ELSE x[i]
                                ELSE IF x[i] <= x[round[i]] THEN x[i] ELSE x[round[i]]
    OBVIOUS
  <2>1. i \in Lane /\ i \in Int
    BY DEF Lane
  <2>2. round[i] \in B /\ round[round[i]] = i /\ x[i] \in Nat
    BY <2>1 DEF PairsOff
  <2>3. QED
    BY <2>1, <2>2, SortRoundLane
<1> HIDE DEF y
<1>2. \A i \in B : y[i] # x[i] => y[round[i]] # x[round[i]] /\ y[i] = x[round[i]]
  BY <1>1
<1>3. \A i \in B : f[i] \in B /\ y[i] = x[f[i]]
  BY <1>1, <1>2
<1>4. f \in [B -> B]
  BY <1>3
<1>5. ASSUME NEW i \in B, NEW j \in B, f[i] = f[j]
      PROVE  i = j
  BY <1>1, <1>2, <1>5
<1>6. ASSUME NEW j \in B
      PROVE  \E i \in B : f[i] = j
  <2>1. CASE y[j] = x[j]
    BY <2>1
  <2>2. CASE y[j] # x[j]
    <3>1. round[j] \in B /\ round[round[j]] = j
      BY <1>1
    <3>2. f[round[j]] = j
      BY <1>2, <2>2, <3>1
    <3>3. QED
      BY <3>1, <3>2
  <2>3. QED
    BY <2>1, <2>2
<1> HIDE DEF f
<1>7. QED
  BY <1>3, <1>4, <1>5, <1>6 DEF y, Rearranged

LEMMA RearrangedContent ==
  ASSUME NEW B, IsFiniteSet(B), NEW x, NEW y, Rearranged(y, x, B)
  PROVE  SameContent(y, x, B)
<1>1. PICK f \in [B -> B] :
        /\ \A i, j \in B : f[i] = f[j] => i = j
        /\ \A j \in B : \E i \in B : f[i] = j
        /\ \A i \in B : y[i] = x[f[i]]
  BY DEF Rearranged
<1>2. ASSUME NEW z \in Byte
      PROVE  Count(y, B, z) = Count(x, B, z)
  BY <1>1, CountBijection
<1>3. QED
  BY <1>2 DEF SameContent

\* So a round loses and duplicates nothing.
LEMMA SortRoundContent ==
  ASSUME NEW up \in BOOLEAN, NEW x \in [Lane -> Nat],
         NEW round \in [Lane -> Lane],
         NEW B \in SUBSET Lane, PairsOff(round, B)
  PROVE  SameContent(SortRound(up, x, round), x, B)
<1>1. IsFiniteSet(B)
  <2>1. IsFiniteSet(Lane) /\ B \subseteq Lane
    BY FS_Interval, SizeAssumption DEF Lane
  <2>2. QED
    BY <2>1, FS_Subset
<1>2. QED
  BY <1>1, SortRoundMoves, RearrangedContent

\* A round does not disturb a set of paired lanes that is in order.
LEMMA SortRoundIdle ==
  ASSUME NEW up \in BOOLEAN, NEW x \in [Lane -> Nat],
         NEW round \in [Lane -> Lane],
         NEW B \in SUBSET Lane, \A i \in B : round[i] \in B,
         Ordered(x, up, B), NEW i \in B
  PROVE  SortRound(up, x, round)[i] = x[i]
<1>1. i \in Lane /\ round[i] \in B /\ i \in Int /\ round[i] \in Int
  BY DEF Lane
<1>2. x[i] \in Nat /\ x[round[i]] \in Nat
  BY <1>1
<1>3. i < round[i] => IF up THEN x[i] <= x[round[i]] ELSE x[round[i]] <= x[i]
  BY <1>1 DEF Ordered
<1>4. round[i] < i => IF up THEN x[round[i]] <= x[i] ELSE x[i] <= x[round[i]]
  BY <1>1 DEF Ordered
<1>5. round[i] = i \/ i < round[i] \/ round[i] < i
  BY <1>1
<1>6. QED
  BY <1>1, <1>2, <1>3, <1>4, <1>5, SortRoundLane

-----------------------------------------------------------------------------
(***************************************************************************)
(* The two halves of the zero-one principle.  A round commutes with taking *)
(* thresholds, and a vector all of whose thresholds are in order is in     *)
(* order itself.                                                           *)
(***************************************************************************)
LEMMA SortRoundThreshold ==
  ASSUME NEW up \in BOOLEAN, NEW x \in [Lane -> Nat],
         NEW round \in [Lane -> Lane], NEW t \in Nat
  PROVE  Threshold(SortRound(up, x, round), t)
           = SortRound(up, Threshold(x, t), round)
<1> DEFINE w == Threshold(x, t)
           y == SortRound(up, x, round)
           z == SortRound(up, w, round)
<1>1. w \in [Lane -> Nat]
  BY DEF Threshold
<1>2. ASSUME NEW i \in Lane
      PROVE  (IF y[i] >= t THEN 1 ELSE 0) = z[i]
  <2>1. round[i] \in Lane /\ x[i] \in Nat /\ x[round[i]] \in Nat
    OBVIOUS
  <2>2. w[i] = (IF x[i] >= t THEN 1 ELSE 0)
    BY DEF Threshold
  <2>3. w[round[i]] = (IF x[round[i]] >= t THEN 1 ELSE 0)
    BY <2>1 DEF Threshold
  <2>4. y[i] = IF (IF up THEN round[i] < i ELSE i < round[i])
               THEN IF x[i] <= x[round[i]] THEN x[round[i]] ELSE x[i]
               ELSE IF x[i] <= x[round[i]] THEN x[i] ELSE x[round[i]]
    BY SortRoundLane
  <2>5. z[i] = IF (IF up THEN round[i] < i ELSE i < round[i])
               THEN IF w[i] <= w[round[i]] THEN w[round[i]] ELSE w[i]
               ELSE IF w[i] <= w[round[i]] THEN w[i] ELSE w[round[i]]
    BY <1>1, SortRoundLane
  <2> HIDE DEF w, y, z
  <2>6. QED
    BY <2>1, <2>2, <2>3, <2>4, <2>5
<1>3. z = [i \in Lane |-> z[i]]
  BY DEF SortRound, Blend
<1>4. QED
  BY <1>2, <1>3 DEF Threshold

LEMMA ThresholdsOrder ==
  ASSUME NEW up \in BOOLEAN, NEW S \in SUBSET Nat, NEW x \in [Lane -> S],
         NEW B \in SUBSET Lane,
         \A t \in S : Ordered(Threshold(x, t), up, B)
  PROVE  Ordered(x, up, B)
<1> SUFFICES ASSUME NEW i \in B, NEW j \in B, i < j
             PROVE  IF up THEN x[i] <= x[j] ELSE x[j] <= x[i]
  BY DEF Ordered
<1>1. x[i] \in S /\ x[j] \in S /\ x[i] \in Nat /\ x[j] \in Nat
  OBVIOUS
<1>2. \A t \in S : /\ Threshold(x, t)[i] = IF x[i] >= t THEN 1 ELSE 0
                   /\ Threshold(x, t)[j] = IF x[j] >= t THEN 1 ELSE 0
  BY DEF Threshold
<1>3. \A t \in S : IF up THEN Threshold(x, t)[i] <= Threshold(x, t)[j]
                         ELSE Threshold(x, t)[j] <= Threshold(x, t)[i]
  BY DEF Ordered
<1>4. CASE up
  BY <1>1, <1>2, <1>3, <1>4
<1>5. CASE ~up
  BY <1>1, <1>2, <1>3, <1>5
<1>6. QED
  BY <1>4, <1>5

-----------------------------------------------------------------------------
(***************************************************************************)
(* Following a map: Steps(f, x)[n] is where n steps along f lead from x.   *)
(***************************************************************************)
Steps(f, x) == CHOOSE w : w = [n \in Nat |-> IF n = 0 THEN x ELSE f[w[n - 1]]]

\* There is such a function: by induction there are walks of every length, and
\* two of them agree as far as both go.
LEMMA StepsExist ==
  ASSUME NEW f \in [Lane -> Lane], NEW x \in Lane
  PROVE  Steps(f, x) = [n \in Nat |-> IF n = 0 THEN x ELSE f[Steps(f, x)[n - 1]]]
<1> DEFINE IsWalk(h, n) == /\ h \in [0 .. n -> Lane]
                           /\ h[0] = x
                           /\ \A m \in 0 .. n - 1 : h[m + 1] = f[h[m]]
           Long == {n \in Nat : \E h \in [0 .. n -> Lane] : IsWalk(h, n)}
<1>1. \A n \in Nat : \E h : IsWalk(h, n)
  <2>1. 0 \in Long
    <3>1. IsWalk([m \in 0 .. 0 |-> x], 0)
      OBVIOUS
    <3>2. QED
      BY <3>1
  <2>2. ASSUME NEW n \in Nat, n \in Long
        PROVE  n + 1 \in Long
    <3>1. PICK h \in [0 .. n -> Lane] : IsWalk(h, n)
      BY <2>2
    <3> DEFINE g == [m \in 0 .. n + 1 |-> IF m = n + 1 THEN f[h[n]] ELSE h[m]]
    <3>2. n \in 0 .. n /\ h[n] \in Lane
      OBVIOUS
    <3>3. g \in [0 .. n + 1 -> Lane]
      BY <3>2
    <3>4. g[0] = x
      BY <3>1
    <3>5. ASSUME NEW m \in 0 .. (n + 1) - 1
          PROVE  g[m + 1] = f[g[m]]
      <4>1. CASE m = n
        BY <4>1
      <4>2. CASE m # n
        <5>1. m \in 0 .. n - 1 /\ m + 1 \in 0 .. n
          BY <4>2
        <5>2. QED
          BY <3>1, <5>1
      <4>3. QED
        BY <4>1, <4>2
    <3> HIDE DEF g
    <3>6. IsWalk(g, n + 1)
      BY <3>3, <3>4, <3>5
    <3>7. QED
      BY <3>3, <3>6
  <2> HIDE DEF Long
  <2>3. \A n \in Nat : n \in Long
    BY <2>1, <2>2, NatSetInduction
  <2>4. QED
    BY <2>3 DEF Long
<1>2. ASSUME NEW n \in Nat, NEW p \in Nat, n <= p, NEW g, NEW h, IsWalk(g, n), IsWalk(h, p),
             NEW m \in 0 .. n
      PROVE  g[m] = h[m]
  <2> DEFINE Agree == {l \in Nat : l <= n => g[l] = h[l]}
  <2>1. 0 \in Agree
    BY <1>2
  <2>2. ASSUME NEW l \in Nat, l \in Agree
        PROVE  l + 1 \in Agree
    <3>1. SUFFICES ASSUME l + 1 <= n PROVE g[l + 1] = h[l + 1]
      OBVIOUS
    <3>2. l \in 0 .. n - 1 /\ l \in 0 .. p - 1
      BY <1>2, <3>1
    <3>3. QED
      BY <1>2, <2>2, <3>2
  <2> HIDE DEF Agree
  <2>3. \A l \in Nat : l \in Agree
    BY <2>1, <2>2, NatSetInduction
  <2>4. QED
    BY <2>3 DEF Agree
<1> DEFINE H(n) == CHOOSE h : IsWalk(h, n)
           w    == [n \in Nat |-> H(n)[n]]
<1>3. \A n \in Nat : IsWalk(H(n), n)
  BY <1>1
<1> HIDE DEF H, IsWalk
<1>4. w[0] = x
  BY <1>3 DEF IsWalk
<1>5. ASSUME NEW n \in Nat, n # 0
      PROVE  w[n] = f[w[n - 1]]
  <2>1. n - 1 \in Nat /\ n - 1 \in 0 .. n - 1 /\ (n - 1) + 1 = n /\ n - 1 <= n
    BY <1>5
  <2>2. H(n)[n] = f[H(n)[n - 1]]
    BY <1>3, <2>1 DEF IsWalk
  <2>3. H(n - 1)[n - 1] = H(n)[n - 1]
    BY <1>2, <1>3, <2>1
  <2>4. QED
    BY <2>1, <2>2, <2>3
<1>6. w = [n \in Nat |-> IF n = 0 THEN x ELSE f[w[n - 1]]]
  BY <1>4, <1>5
<1> HIDE DEF w
<1>7. QED
  BY <1>6 DEF Steps

LEMMA StepsFacts ==
  ASSUME NEW f \in [Lane -> Lane], NEW x \in Lane
  PROVE  /\ Steps(f, x) \in [Nat -> Lane]
         /\ Steps(f, x)[0] = x
         /\ \A n \in Nat : Steps(f, x)[n + 1] = f[Steps(f, x)[n]]
<1>1. DOMAIN Steps(f, x) = Nat /\ Steps(f, x)[0] = x
  BY StepsExist
<1>2. \A n \in Nat : Steps(f, x)[n + 1] = f[Steps(f, x)[n]]
  <2>1. \A n \in Nat : n + 1 \in Nat /\ n + 1 # 0 /\ (n + 1) - 1 = n
    OBVIOUS
  <2>2. QED
    BY <2>1, StepsExist
<1> DEFINE In == {n \in Nat : Steps(f, x)[n] \in Lane}
<1>3. 0 \in In
  BY <1>1
<1>4. \A n \in Nat : n \in In => n + 1 \in In
  BY <1>2
<1>5. \A n \in Nat : n \in In
  <2> HIDE DEF In
  <2> QED BY <1>3, <1>4, NatSetInduction
<1>6. Steps(f, x) = [n \in Nat |-> Steps(f, x)[n]]
  BY StepsExist
<1>7. QED
  BY <1>1, <1>2, <1>5, <1>6

\* Steps are added by walking on from where the first ones lead.
LEMMA StepsAdd ==
  ASSUME NEW f \in [Lane -> Lane], NEW x \in Lane, NEW m \in Nat, NEW n \in Nat
  PROVE  Steps(f, x)[m + n] = Steps(f, Steps(f, x)[m])[n]
<1> DEFINE y == Steps(f, x)[m]
           Added == {l \in Nat : Steps(f, x)[m + l] = Steps(f, y)[l]}
<1>1. y \in Lane
  BY StepsFacts
<1>2. 0 \in Added
  <2>1. Steps(f, y)[0] = y
    BY <1>1, StepsFacts
  <2>2. m + 0 = m
    OBVIOUS
  <2>3. QED
    BY <2>1, <2>2
<1>3. ASSUME NEW l \in Nat, l \in Added
      PROVE  l + 1 \in Added
  <2>1. Steps(f, y)[l + 1] = f[Steps(f, y)[l]]
    BY <1>1, StepsFacts
  <2>2. Steps(f, x)[(m + l) + 1] = f[Steps(f, x)[m + l]]
    <3>1. m + l \in Nat
      OBVIOUS
    <3>2. QED
      BY <3>1, StepsFacts
  <2>3. m + (l + 1) = (m + l) + 1
    OBVIOUS
  <2> HIDE DEF y
  <2>4. QED
    BY <1>3, <2>1, <2>2, <2>3
<1> HIDE DEF Added
<1>4. \A l \in Nat : l \in Added
  BY <1>2, <1>3, NatSetInduction
<1>5. QED
  BY <1>4 DEF Added

LanesApart(f) == \A a, b \in Lane : f[a] = f[b] => a = b

\* Different lanes never meet on their way along a permutation.
LEMMA StepsInjective ==
  ASSUME NEW f \in [Lane -> Lane], LanesApart(f),
         NEW x \in Lane, NEW y \in Lane, NEW n \in Nat, Steps(f, x)[n] = Steps(f, y)[n]
  PROVE  x = y
<1>1. /\ Steps(f, x) \in [Nat -> Lane] /\ Steps(f, x)[0] = x
      /\ \A l \in Nat : Steps(f, x)[l + 1] = f[Steps(f, x)[l]]
  BY StepsFacts
<1>2. /\ Steps(f, y) \in [Nat -> Lane] /\ Steps(f, y)[0] = y
      /\ \A l \in Nat : Steps(f, y)[l + 1] = f[Steps(f, y)[l]]
  BY StepsFacts
<1> DEFINE Apart == {l \in Nat : Steps(f, x)[l] = Steps(f, y)[l] => x = y}
<1>3. 0 \in Apart
  BY <1>1, <1>2
<1>4. ASSUME NEW l \in Nat, l \in Apart
      PROVE  l + 1 \in Apart
  BY <1>1, <1>2, <1>4 DEF LanesApart
<1> HIDE DEF Apart
<1>5. \A l \in Nat : l \in Apart
  BY <1>3, <1>4, NatSetInduction
<1>6. QED
  BY <1>5 DEF Apart

-----------------------------------------------------------------------------
(***************************************************************************)
(* Cycles.  A permutation leads from a lane back to it within Size steps,  *)
(* because two of the first Size + 1 lanes on the way are equal, and then  *)
(* the way between them leads from the first lane to itself.               *)
(***************************************************************************)
LEMMA CycleLength ==
  ASSUME NEW f \in [Lane -> Lane], LanesApart(f), NEW x \in Lane
  PROVE  \E l \in 1 .. Size : Steps(f, x)[l] = x
<1> DEFINE way == [n \in 0 .. Size |-> Steps(f, x)[n]]
<1>1. way \in [0 .. Size -> Lane]
  BY StepsFacts, SizeAssumption
<1>2. IsFiniteSet(0 .. Size) /\ Cardinality(0 .. Size) = Size + 1
  BY FS_Interval, SizeAssumption
<1>3. IsFiniteSet(Lane) /\ Cardinality(Lane) = Size
  <2>1. 0 \in Int /\ Size - 1 \in Int /\ ~(0 > Size - 1) /\ Size - 1 - 0 + 1 = Size
    BY SizeAssumption
  <2>2. QED
    BY <2>1, FS_Interval DEF Lane
<1>4. Cardinality(Lane) < Cardinality(0 .. Size)
  BY <1>2, <1>3, SizeAssumption
<1>5. PICK a, b \in 0 .. Size : a # b /\ way[a] = way[b]
  <2> HIDE DEF way
  <2> QED BY <1>1, <1>2, <1>3, <1>4, FS_PigeonHole
<1>6. ASSUME NEW p \in 0 .. Size, NEW q \in 0 .. Size, p < q, way[p] = way[q]
      PROVE  \E l \in 1 .. Size : Steps(f, x)[l] = x
  <2> DEFINE y == Steps(f, x)[q - p]
  <2>1. q - p \in Nat /\ p \in Nat /\ (q - p) + p = q /\ q - p \in 1 .. Size
    BY <1>6, SizeAssumption
  <2>2. y \in Lane
    BY <2>1, StepsFacts
  <2>3. Steps(f, x)[(q - p) + p] = Steps(f, y)[p]
    BY <2>1, StepsAdd
  <2>4. Steps(f, x)[p] = Steps(f, y)[p]
    BY <1>6, <2>1, <2>3
  <2> HIDE DEF y
  <2>5. x = y
    BY <2>1, <2>2, <2>4, StepsInjective
  <2>6. QED
    BY <2>1, <2>5 DEF y
<1>7. a < b \/ b < a
  BY <1>5, SizeAssumption
<1>8. QED
  BY <1>5, <1>6, <1>7

LEMMA CycleMultiples ==
  ASSUME NEW f \in [Lane -> Lane], NEW x \in Lane, NEW l \in Nat, Steps(f, x)[l] = x,
         NEW n \in Nat
  PROVE  Steps(f, x)[n * l] = x
<1> DEFINE Back == {k \in Nat : Steps(f, x)[k * l] = x}
<1>1. 0 \in Back
  <2>1. 0 * l = 0
    OBVIOUS
  <2>2. QED
    BY <2>1, StepsFacts
<1>2. ASSUME NEW k \in Nat, k \in Back
      PROVE  k + 1 \in Back
  <2>1. (k + 1) * l = l + k * l /\ k * l \in Nat
    OBVIOUS
  <2>2. Steps(f, x)[l + k * l] = Steps(f, Steps(f, x)[l])[k * l]
    BY <2>1, StepsAdd
  <2>3. QED
    BY <1>2, <2>1, <2>2
<1> HIDE DEF Back
<1>3. \A k \in Nat : k \in Back
  BY <1>1, <1>2, NatSetInduction
<1>4. QED
  BY <1>3 DEF Back

LEMMA CycleRest ==
  ASSUME NEW f \in [Lane -> Lane], NEW x \in Lane, NEW l \in Nat \ {0},
         Steps(f, x)[l] = x, NEW n \in Nat
  PROVE  Steps(f, x)[n] = Steps(f, x)[n % l]
<1> DEFINE d == n \div l
           r == n % l
<1>1. d \in Nat /\ r \in Nat /\ n = l * d + r
  BY Z3
<1> HIDE DEF d, r
<1>2. d * l \in Nat /\ n = d * l + r
  BY <1>1
<1>3. Steps(f, x)[d * l + r] = Steps(f, Steps(f, x)[d * l])[r]
  BY <1>1, <1>2, StepsAdd
<1>4. Steps(f, x)[d * l] = x
  BY <1>1, CycleMultiples
<1>5. QED
  BY <1>2, <1>3, <1>4 DEF r
=============================================================================
