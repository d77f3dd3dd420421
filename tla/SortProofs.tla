----------------------------- MODULE SortProofs -----------------------------
(***************************************************************************)
(* Proofs about network_sort and network_sort_perm, for every number of    *)
(* lanes, every set of bytes and every table that satisfies                *)
(* RoundsAssumption (the order of the result also needs the certificate of *)
(* ZeroOne), and about merge and merge_rev, for every table with a         *)
(* certificate.                                                            *)
(***************************************************************************)
EXTENDS ZeroOne, NetworkSortPerm, Merge, Epu8Proofs


\* What the table the function is called with satisfies.
LEMMA TableFacts ==
  ASSUME net \in Networks
  PROVE  /\ Rounds \in Seq([Lane -> Lane])
         /\ Len(Rounds) > 0
         /\ \A r \in 1 .. Len(Rounds) : \A i \in Lane : Rounds[r][Rounds[r][i]] = i
         /\ Blocks \subseteq SUBSET Lane
         /\ \A r \in 1 .. Len(Rounds), B \in Blocks : \A i \in B : Rounds[r][i] \in B
BY RoundsAssumption DEF Rounds, Blocks

\* No step changes the table.
LEMMA TableKept == [Next]_vars => net' = net /\ Rounds' = Rounds /\ Blocks' = Blocks
BY DEF Next, ApplyRound, vars, Rounds, Blocks

\* What a step of the loop finds in the table.
LEMMA RoundFacts ==
  ASSUME TypeOK, k < Len(Rounds)
  PROVE  /\ k + 1 \in 1 .. Len(Rounds)
         /\ Rounds[k + 1] \in [Lane -> Lane]
         /\ v \in [Lane -> Nat]
         /\ up \in BOOLEAN
         /\ \A i \in Lane : Rounds[k + 1][Rounds[k + 1][i]] = i
         /\ \A B \in Blocks : B \in SUBSET Lane /\ PairsOff(Rounds[k + 1], B)
<1>1. Len(Rounds) \in Nat /\ k \in Nat
  BY TableFacts DEF TypeOK
<1>2. k + 1 \in 1 .. Len(Rounds)
  BY <1>1
<1>3. Rounds[k + 1] \in [Lane -> Lane]
  BY <1>2, TableFacts DEF TypeOK
<1>4. v \in [Lane -> Nat]
  BY ByteAssumption DEF TypeOK, Vec
<1>5. up \in BOOLEAN
  BY InputsAssumption DEF TypeOK
<1>6. \A i \in Lane : Rounds[k + 1][Rounds[k + 1][i]] = i
  BY <1>2, TableFacts DEF TypeOK
<1>7. ASSUME NEW B \in Blocks
      PROVE  B \in SUBSET Lane /\ PairsOff(Rounds[k + 1], B)
  <2>1. B \in SUBSET Lane
    BY TableFacts DEF TypeOK
  <2>2. \A i \in B : Rounds[k + 1][i] \in B
    BY <1>2, TableFacts DEF TypeOK
  <2>3. QED
    BY <1>6, <2>1, <2>2 DEF PairsOff
<1>8. QED
  BY <1>2, <1>3, <1>4, <1>5, <1>6, <1>7

-----------------------------------------------------------------------------
LEMMA TypeInit == Init => TypeOK
<1> SUFFICES ASSUME Init PROVE TypeOK
  OBVIOUS
<1>1. Len(Rounds) \in Nat
  BY TableFacts DEF Init
<1>2. 0 \in 0 .. Len(Rounds)
  BY <1>1
<1>3. QED
  BY <1>2, InputsAssumption DEF Init, TypeOK

LEMMA TypeStep == TypeOK /\ [Next]_vars => TypeOK'
<1> SUFFICES ASSUME TypeOK, [Next]_vars PROVE TypeOK'
  OBVIOUS
<1>1. CASE ApplyRound
  <2>1. k < Len(Rounds)
    BY <1>1 DEF ApplyRound
  <2>2. v' \in Vec
    <3>1. v \in [Lane -> Byte] /\ Byte \in SUBSET Nat
      BY ByteAssumption DEF TypeOK, Vec
    <3>2. SortRound(up, v, Rounds[k + 1]) \in [Lane -> Byte]
      BY <2>1, <3>1, RoundFacts, SortRoundType
    <3>3. QED
      BY <1>1, <3>2 DEF ApplyRound, Vec
  <2>3. k' \in 0 .. Len(Rounds)
    <3>1. k + 1 \in 1 .. Len(Rounds) /\ Len(Rounds) \in Nat
      BY <2>1, RoundFacts, TableFacts DEF TypeOK
    <3>2. QED
      BY <1>1, <3>1 DEF ApplyRound
  <2>4. QED
    BY <1>1, <2>2, <2>3, TableKept DEF ApplyRound, TypeOK
<1>2. CASE UNCHANGED vars
  BY <1>2, TableKept DEF vars, TypeOK
<1>3. QED
  BY <1>1, <1>2 DEF Next

\* Every state of the loop is well typed: rounds of the table only ever read
\* lanes of the vector, and the result is a vector of bytes again.
THEOREM TypeCorrect == Spec => []TypeOK
BY TypeInit, TypeStep, PTL DEF Spec

-----------------------------------------------------------------------------
LEMMA ContentStep ==
  TypeOK /\ [Next]_vars => \A B \in Blocks : SameContent(v', v, B)
<1> SUFFICES ASSUME TypeOK, [Next]_vars, NEW B \in Blocks
             PROVE  SameContent(v', v, B)
  OBVIOUS
<1>1. CASE ApplyRound
  <2>1. k < Len(Rounds) /\ v' = SortRound(up, v, Rounds[k + 1])
    BY <1>1 DEF ApplyRound
  <2>2. QED
    BY <2>1, RoundFacts, SortRoundContent
<1>2. CASE UNCHANGED vars
  BY <1>2 DEF vars, SameContent
<1>3. QED
  BY <1>1, <1>2 DEF Next

\* No round loses a byte, duplicates one or moves it to another block.
THEOREM ContentIsKept == Spec => []ContentKept
<1>1. Init => ContentKept
  BY DEF Init, ContentKept, SameContent
<1>2. TypeOK /\ ContentKept /\ [Next]_vars => ContentKept'
  <2> SUFFICES ASSUME TypeOK, ContentKept, [Next]_vars,
                      NEW B \in Blocks, NEW x \in Byte
               PROVE  Count(v', B, x) = Count(input', B, x)
    BY TableKept DEF ContentKept, SameContent
  <2>1. Count(v', B, x) = Count(v, B, x)
    BY ContentStep DEF SameContent
  <2>2. Count(v, B, x) = Count(input, B, x)
    BY DEF ContentKept, SameContent
  <2>3. input' = input
    BY DEF Next, ApplyRound, vars
  <2>4. QED
    BY <2>1, <2>2, <2>3
<1>3. QED
  BY <1>1, <1>2, TypeCorrect, PTL DEF Spec

\* A block in order is left alone by the rounds that remain.
THEOREM OrderIsKept == Spec => OrderKept
<1>1. TypeOK /\ [Next]_vars => [Undisturbed(v, v')]_vars
  <2> SUFFICES ASSUME TypeOK, ApplyRound PROVE Undisturbed(v, v')
    BY DEF Next
  <2>1. k < Len(Rounds) /\ v' = SortRound(up, v, Rounds[k + 1])
    BY DEF ApplyRound
  <2> SUFFICES ASSUME NEW B \in Blocks, Ordered(v, up, B), NEW i \in B
               PROVE  v'[i] = v[i]
    BY DEF Undisturbed
  <2>2. B \in SUBSET Lane /\ \A j \in B : Rounds[k + 1][j] \in B
    BY <2>1, RoundFacts DEF PairsOff
  <2>3. QED
    BY <2>1, <2>2, RoundFacts, SortRoundIdle
<1>2. QED
  BY <1>1, TypeCorrect, PTL DEF Spec, OrderKept

-----------------------------------------------------------------------------
LEMMA ThresholdsInit == Init => ThresholdsReached
<1> SUFFICES ASSUME Init, NEW t \in Byte
             PROVE  Threshold(v, t) \in Reach[net][up][k]
  BY DEF ThresholdsReached
<1>1. Threshold(v, t) \in [Lane -> {0, 1}]
  BY DEF Threshold
<1>2. QED
  BY <1>1, ReachAssumption DEF Init

LEMMA ThresholdsStep ==
  TypeOK /\ ThresholdsReached /\ [Next]_vars => ThresholdsReached'
<1> SUFFICES ASSUME TypeOK, ThresholdsReached, [Next]_vars, NEW t \in Byte
             PROVE  Threshold(v', t) \in Reach[net'][up'][k']
  BY DEF ThresholdsReached
<1>1. CASE ApplyRound
  <2>1. k < Len(Rounds) /\ v' = SortRound(up, v, Rounds[k + 1])
        /\ k' = k + 1 /\ up' = up
    BY <1>1 DEF ApplyRound
  <2>2. t \in Nat
    BY ByteAssumption
  <2>3. Threshold(v', t) = SortRound(up, Threshold(v, t), Rounds[k + 1])
    BY <2>1, <2>2, RoundFacts, SortRoundThreshold
  <2>4. Threshold(v, t) \in Reach[net][up][(k + 1) - 1]
    <3>1. (k + 1) - 1 = k
      BY TableFacts DEF TypeOK
    <3>2. QED
      BY <3>1 DEF ThresholdsReached
  <2>5. net \in Networks /\ up \in Directions /\ k + 1 \in 1 .. Len(Rounds)
    BY <2>1, RoundFacts DEF TypeOK
  <2>6. SortRound(up, Threshold(v, t), Rounds[k + 1]) \in Reach[net][up][k + 1]
    BY <2>4, <2>5, ReachAssumption DEF Rounds
  <2>7. QED
    BY <2>1, <2>3, <2>6, TableKept
<1>2. CASE UNCHANGED vars
  BY <1>2 DEF vars, ThresholdsReached
<1>3. QED
  BY <1>1, <1>2 DEF Next

\* The inductive invariant of the zero-one principle.
THEOREM ThresholdsAreReached == Spec => []ThresholdsReached
BY ThresholdsInit, ThresholdsStep, TypeCorrect, PTL DEF Spec

LEMMA OrderAtReturn == TypeOK /\ ThresholdsReached => SortedAtReturn
<1> SUFFICES ASSUME TypeOK, ThresholdsReached, Returned, NEW B \in Blocks
             PROVE  Ordered(v, up, B)
  BY DEF SortedAtReturn
<1>1. \A t \in Byte : Ordered(Threshold(v, t), up, B)
  BY ReachAssumption DEF ThresholdsReached, Returned, TypeOK, Rounds, Blocks
<1>2. v \in [Lane -> Byte] /\ Byte \in SUBSET Nat /\ up \in BOOLEAN
      /\ B \in SUBSET Lane
  BY ByteAssumption, InputsAssumption, TableFacts DEF TypeOK, Vec
<1>3. QED
  BY <1>1, <1>2, ThresholdsOrder

\* A table with a certificate sorts every vector of bytes, not only those of
\* zeros and ones.
THEOREM SortsAllBytes == Spec => []SortedAtReturn
BY OrderAtReturn, TypeCorrect, ThresholdsAreReached, PTL

-----------------------------------------------------------------------------
\* The loop implements the promise of the sorting functions: every round is a
\* rearrangement within the blocks, and the last one leaves them in order.
THEOREM MeetsPromise == Spec => ImplementsPromise
<1>1. Init => Promise!Init
  BY TableFacts DEF Init, Promise!Init, Returned
<1>2. /\ TypeOK /\ TypeOK' /\ SortedAtReturn'
      /\ [Next]_vars
      => [Promise!Next]_(Promise!vars)
  <2> SUFFICES ASSUME TypeOK, TypeOK', SortedAtReturn', [Next]_vars
               PROVE  [Promise!Next]_(Promise!vars)
    OBVIOUS
  <2>1. CASE ApplyRound
    <3>1. ~Returned /\ input' = input /\ up' = up
      BY <2>1, TableFacts DEF ApplyRound, Returned, TypeOK
    <3>2. Promise!Rearranged
      <4>1. DOMAIN v' = DOMAIN v
        BY DEF TypeOK, Vec
      <4>2. \A B \in Blocks : SameContent(v', v, B)
        BY <2>1, ContentStep
      <4>3. QED
        BY <4>1, <4>2 DEF Promise!Rearranged, Promise!SameContent, Promise!Count,
                          SameContent, Count, Promise!Cardinality, Cardinality
    <3>3. CASE Returned'
      <4>1. \A B \in Blocks : Ordered(v', up, B)
        BY <3>1, <3>3, TableKept DEF SortedAtReturn
      <4>2. QED
        BY <3>1, <3>2, <3>3, <4>1, TableKept
           DEF Promise!Finish, Promise!Next, Promise!Ordered, Ordered, Returned
    <3>4. CASE ~Returned'
      BY <3>1, <3>2, <3>4, TableKept DEF Promise!Rearrange, Promise!Next, Returned
    <3>5. QED
      BY <3>3, <3>4
  <2>2. CASE UNCHANGED vars
    BY <2>2, TableKept DEF vars, Promise!vars, Returned
  <2>3. QED
    BY <2>1, <2>2 DEF Next
<1>3. QED
  BY <1>1, <1>2, TypeCorrect, SortsAllBytes, PTL
     DEF Spec, ImplementsPromise, Promise!Spec
-----------------------------------------------------------------------------

-----------------------------------------------------------------------------
(***************************************************************************)
(* network_sort_perm.  It does to v what network_sort does, so that all of *)
(* the above holds of it; what remains is the permutation.                 *)
(***************************************************************************)

\* A lane exchanges exactly if its entry and its partner's are in the wrong
\* order; so both lanes of a pair take the same decision, and equal entries
\* stay where they are.
LEMMA ExchangeLane ==
  ASSUME NEW x \in [Lane -> Nat], NEW round \in [Lane -> Lane], NEW i \in Lane,
         up \in BOOLEAN
  PROVE  Exchange(round, x)[i] <=>
           IF (IF up THEN round[i] < i ELSE i < round[i])
           THEN x[i] < x[round[i]] ELSE x[round[i]] < x[i]
<1>1. Permuted(x, round)[i] = x[round[i]]
  BY PermutedLane
<1>2. QED
  BY <1>1 DEF Exchange, RoundMask

LEMMA ExchangeAgrees ==
  ASSUME NEW x \in [Lane -> Nat], NEW round \in [Lane -> Lane], NEW i \in Lane,
         up \in BOOLEAN, round[round[i]] = i
  PROVE  Exchange(round, x)[round[i]] <=> Exchange(round, x)[i]
<1>1. round[i] \in Lane /\ x[i] \in Nat /\ x[round[i]] \in Nat
      /\ i \in Int /\ round[i] \in Int
  BY DEF Lane
<1>2. Exchange(round, x)[round[i]] <=>
        IF (IF up THEN i < round[i] ELSE round[i] < i)
        THEN x[round[i]] < x[i] ELSE x[i] < x[round[i]]
  BY <1>1, ExchangeLane
<1>3. CASE round[i] = i
  BY <1>3
<1>4. CASE round[i] # i
  BY <1>1, <1>2, <1>4, ExchangeLane
<1>5. QED
  BY <1>3, <1>4

\* What PermRound does to a lane of v and of res.
LEMMA StepLanes ==
  ASSUME PermTypeOK, PermRound, NEW i \in Lane
  PROVE  LET j == IF Exchange(Rounds[k + 1], v)[i] THEN Rounds[k + 1][i] ELSE i
         IN  j \in Lane /\ v'[i] = v[j] /\ res'[i] = res[j]
<1>1. k < Len(Rounds)
  BY DEF PermRound
<1>2. Rounds[k + 1] \in [Lane -> Lane]
  BY <1>1, RoundFacts DEF PermTypeOK
<1>3. Permuted(v, Rounds[k + 1])[i] = v[Rounds[k + 1][i]]
      /\ Permuted(res, Rounds[k + 1])[i] = res[Rounds[k + 1][i]]
  BY <1>2, PermutedLane
<1>4. QED
  BY <1>2, <1>3 DEF PermRound, Blend

\* A round of exchanges is a round of minima and maxima.
LEMMA ExchangeIsMinMax ==
  ASSUME PermTypeOK, PermRound
  PROVE  v' = SortRound(up, v, Rounds[k + 1])
<1> DEFINE round == Rounds[k + 1]
           y == SortRound(up, v, round)
<1>1. k < Len(Rounds)
  BY DEF PermRound
<1>2. round \in [Lane -> Lane] /\ v \in [Lane -> Nat] /\ up \in BOOLEAN
  BY <1>1, RoundFacts DEF PermTypeOK
<1>3. ASSUME NEW i \in Lane
      PROVE  v'[i] = y[i]
  <2>1. y[i] = IF (IF up THEN round[i] < i ELSE i < round[i])
               THEN IF v[i] <= v[round[i]] THEN v[round[i]] ELSE v[i]
               ELSE IF v[i] <= v[round[i]] THEN v[i] ELSE v[round[i]]
    BY <1>2, SortRoundLane
  <2>2. Exchange(round, v)[i] <=>
           IF (IF up THEN round[i] < i ELSE i < round[i])
           THEN v[i] < v[round[i]] ELSE v[round[i]] < v[i]
    BY <1>2, ExchangeLane
  <2>3. v'[i] = v[IF Exchange(round, v)[i] THEN round[i] ELSE i]
    BY StepLanes
  <2>4. v[i] \in Nat /\ v[round[i]] \in Nat
    BY <1>2
  <2> HIDE DEF y, round
  <2>5. QED
    BY <2>1, <2>2, <2>3, <2>4
<1>4. y = [i \in Lane |-> y[i]] /\ v' = [i \in Lane |-> v'[i]]
  BY DEF SortRound, Blend, PermRound
<1>5. QED
  BY <1>3, <1>4

LEMMA PermStep ==
  PermTypeOK /\ [PermRound]_permVars => PermTypeOK' /\ [Next]_vars
<1> SUFFICES ASSUME PermTypeOK, [PermRound]_permVars PROVE PermTypeOK' /\ [Next]_vars
  OBVIOUS
<1>1. CASE PermRound
  <2>1. v' = SortRound(up, v, Rounds[k + 1])
    BY <1>1, ExchangeIsMinMax
  <2>2. Next
    BY <1>1, <2>1 DEF PermRound, ApplyRound, Next
  <2>3. TypeOK'
    BY <2>2, TypeStep DEF PermTypeOK
  <2>4. res' = [i \in Lane |-> res'[i]]
    BY <1>1 DEF PermRound, Blend
  <2>5. \A i \in Lane : res'[i] \in Lane
    BY <1>1, StepLanes DEF PermTypeOK
  <2>6. QED
    BY <2>2, <2>3, <2>4, <2>5 DEF PermTypeOK
<1>2. CASE UNCHANGED permVars
  <2>1. UNCHANGED vars
    BY <1>2 DEF permVars, vars
  <2>2. TypeOK'
    BY <2>1, TypeStep DEF PermTypeOK
  <2>3. QED
    BY <1>2, <2>1, <2>2 DEF permVars, PermTypeOK
<1>3. QED
  BY <1>1, <1>2

\* Every state of the loop is well typed; in particular res only ever holds
\* lanes.
THEOREM PermTypeCorrect == PermSpec => []PermTypeOK
<1>1. PermInit => PermTypeOK
  <2>1. Id \in [Lane -> Lane]
    BY DEF Id
  <2>2. QED
    BY <2>1, TypeInit DEF PermInit, PermTypeOK
<1>2. QED
  BY <1>1, PermStep, PTL DEF PermSpec

\* network_sort_perm goes through the vectors that network_sort goes through.
THEOREM IsNetworkSort == PermSpec => ImplementsNetworkSort
<1>1. PermInit => Init
  BY DEF PermInit
<1>2. QED
  BY <1>1, PermStep, PermTypeCorrect, PTL DEF PermSpec, Spec, ImplementsNetworkSort

\* So it sorts every vector of bytes for which network_sort has a certificate.
THEOREM PermSorts == PermSpec => []SortedAtReturn
BY IsNetworkSort, SortsAllBytes, PTL DEF ImplementsNetworkSort

LEMMA ResInit == PermInit => ResSortsInput
<1> SUFFICES ASSUME PermInit PROVE ResSortsInput
  OBVIOUS
<1>1. Id \in [Lane -> Lane] /\ \A i \in Lane : Id[i] = i
  BY DEF Id
<1>2. Permuted(input, Id) = [i \in Lane |-> input[i]]
  BY <1>1, PermutedLane
<1>3. input \in [Lane -> Byte]
  BY InputsAssumption DEF PermInit, Init, Vec
<1>4. QED
  BY <1>1, <1>2, <1>3 DEF PermInit, Init, ResSortsInput

LEMMA ResStep == PermTypeOK /\ ResSortsInput /\ [PermRound]_permVars => ResSortsInput'
<1> SUFFICES ASSUME PermTypeOK, ResSortsInput, [PermRound]_permVars PROVE ResSortsInput'
  OBVIOUS
<1>1. CASE PermRound
  <2> DEFINE round == Rounds[k + 1]
             moved == Exchange(round, v)
             from(i) == IF moved[i] THEN round[i] ELSE i
  <2>1. k < Len(Rounds)
    BY <1>1 DEF PermRound
  <2>2. /\ round \in [Lane -> Lane]
        /\ \A i \in Lane : round[round[i]] = i
        /\ \A i \in Lane : moved[round[i]] <=> moved[i]
    BY <2>1, RoundFacts, ExchangeAgrees DEF PermTypeOK
  <2>3. \A i \in Lane : from(i) \in Lane /\ v'[i] = v[from(i)] /\ res'[i] = res[from(i)]
    BY <1>1, StepLanes
  <2>4. \A i, j \in Lane : res[i] = res[j] => i = j
    BY DEF ResSortsInput
  <2>5. \A i \in Lane : v[i] = input[res[i]]
    BY PermutedLane DEF ResSortsInput, PermTypeOK
  <2> HIDE DEF round, moved
  <2>6. ASSUME NEW i \in Lane, NEW j \in Lane, res'[i] = res'[j]
        PROVE  i = j
    <3>1. from(i) = from(j)
      BY <2>3, <2>4, <2>6
    <3>2. QED
      BY <2>2, <3>1
  <2>7. \A i \in Lane : v'[i] = input[res'[i]]
    BY <2>3, <2>5
  <2>8. v' \in [Lane -> Byte] /\ res' \in [Lane -> Lane] /\ input' = input
    BY <1>1, PermStep DEF PermTypeOK, TypeOK, Vec, PermRound
  <2>9. v' = Permuted(input', res')
    <3>1. Permuted(input, res') = [i \in Lane |-> input[res'[i]]]
      BY <2>8, PermutedLane
    <3>2. QED
      BY <2>7, <2>8, <3>1
  <2>10. QED
    BY <2>6, <2>9 DEF ResSortsInput
<1>2. CASE UNCHANGED permVars
  BY <1>2 DEF permVars, ResSortsInput, Permuted, Lane
<1>3. QED
  BY <1>1, <1>2

\* After every round res is a permutation and sends the argument to the
\* current vector, whatever ties the argument has.
THEOREM ResAlwaysSortsInput == PermSpec => []ResSortsInput
BY ResInit, ResStep, PermTypeCorrect, PTL DEF PermSpec

\* The permutation never leads out of a block of lanes.
THEOREM ResAlwaysKeepsBlocks == PermSpec => []ResKeepsBlocks
<1>1. PermInit => ResKeepsBlocks
  BY TableFacts DEF PermInit, Init, ResKeepsBlocks, Id
<1>2. PermTypeOK /\ ResKeepsBlocks /\ [PermRound]_permVars => ResKeepsBlocks'
  <2> SUFFICES ASSUME PermTypeOK, ResKeepsBlocks, [PermRound]_permVars,
                      NEW B \in Blocks, NEW i \in B
               PROVE  res'[i] \in B
    BY PermStep, TableKept DEF ResKeepsBlocks
  <2>1. CASE PermRound
    <3>1. i \in Lane /\ Rounds[k + 1][i] \in B
      BY <2>1, RoundFacts, TableFacts DEF PermRound, PermTypeOK, TypeOK
    <3>2. res'[i] = res[i] \/ res'[i] = res[Rounds[k + 1][i]]
      BY <2>1, <3>1, StepLanes
    <3>3. QED
      BY <3>1, <3>2 DEF ResKeepsBlocks
  <2>2. CASE UNCHANGED permVars
    BY <2>2 DEF permVars, ResKeepsBlocks
  <2>3. QED
    BY <2>1, <2>2
<1>3. QED
  BY <1>1, <1>2, PermTypeCorrect, PTL DEF PermSpec

-----------------------------------------------------------------------------
\* Nothing is exchanged any more in a block that is in order.
THEOREM SortedStaysPut == PermSpec => InOrderStaysPut
<1>1. PermTypeOK /\ [PermRound]_permVars
      => [\A B \in Blocks : Ordered(v, up, B) => \A i \in B : Stays(i)]_permVars
  <2> SUFFICES ASSUME PermTypeOK, PermRound,
                      NEW B \in Blocks, Ordered(v, up, B), NEW i \in B
               PROVE  Stays(i)
    OBVIOUS
  <2> DEFINE j == Rounds[k + 1][i]
  <2>1. k < Len(Rounds) /\ B \in SUBSET Lane /\ i \in Lane /\ i \in Int
    BY TableFacts DEF PermRound, PermTypeOK, TypeOK, Lane
  <2>2. j \in B /\ j \in Int
    BY <2>1, RoundFacts, TableFacts DEF PermTypeOK, TypeOK, Lane
  <2>3. v[i] \in Nat /\ v[j] \in Nat
    BY <2>1, <2>2, RoundFacts DEF PermTypeOK
  <2>4. i < j => IF up THEN v[i] <= v[j] ELSE v[j] <= v[i]
    BY <2>2 DEF Ordered
  <2>5. j < i => IF up THEN v[j] <= v[i] ELSE v[i] <= v[j]
    BY <2>2 DEF Ordered
  <2>6. Exchange(Rounds[k + 1], v)[i] <=>
          IF (IF up THEN j < i ELSE i < j) THEN v[i] < v[j] ELSE v[j] < v[i]
    BY <2>1, RoundFacts, ExchangeLane DEF PermTypeOK
  <2>7. v'[i] = v[IF Exchange(Rounds[k + 1], v)[i] THEN j ELSE i]
        /\ res'[i] = res[IF Exchange(Rounds[k + 1], v)[i] THEN j ELSE i]
    BY <2>1, StepLanes
  <2> HIDE DEF j
  <2>8. ~Exchange(Rounds[k + 1], v)[i] \/ i = j
    BY <2>1, <2>2, <2>3, <2>4, <2>5, <2>6
  <2>9. QED
    BY <2>7, <2>8 DEF Stays
<1>2. QED
  BY <1>1, PermTypeCorrect, PTL DEF PermSpec, InOrderStaysPut

-----------------------------------------------------------------------------
(***************************************************************************)
(* merge and merge_rev.  Two arguments make them work: one lanewise        *)
(* minimum and maximum of a falling and a rising vector separates the      *)
(* halves, and what it leaves in each half is, threshold by threshold, one *)
(* of the few 0/1 vectors that MergeReach starts from.                     *)
(***************************************************************************)


\* is_sorted compares neighbours; any two lanes are then in order.
LEMMA SortedIsOrdered ==
  ASSUME NEW x \in [Lane -> Nat], IsSorted(x)
  PROVE  Ordered(x, TRUE, Lane)
<1>1. ASSUME NEW n \in Nat, n + 1 \in Lane
      PROVE  x[n] <= x[n + 1]
  <2>1. n \in Lane /\ n + 1 # 0 /\ (n + 1) - 1 = n
    BY <1>1, SizeAssumption DEF Lane
  <2>2. ShiftedRight(x)[n + 1] = x[n]
    BY <1>1, <2>1 DEF ShiftedRight
  <2>3. ~(ShiftedRight(x)[n + 1] > x[n + 1])
    BY <1>1 DEF IsSorted
  <2>4. x[n] \in Nat /\ x[n + 1] \in Nat
    BY <1>1, <2>1
  <2>5. QED
    BY <2>2, <2>3, <2>4
<1>2. ASSUME NEW i \in Lane, NEW j \in Lane, i < j
      PROVE  x[i] <= x[j]
  <2> DEFINE Above == {n \in Nat : i + n \in Lane => x[i] <= x[i + n]}
  <2>1. i \in Nat /\ x[i] \in Nat
    BY DEF Lane
  <2>2. 0 \in Above
    BY <2>1
  <2>3. ASSUME NEW n \in Nat, n \in Above
        PROVE  n + 1 \in Above
    <3>1. SUFFICES ASSUME i + (n + 1) \in Lane PROVE x[i] <= x[i + (n + 1)]
      OBVIOUS
    <3>2. i + n \in Lane /\ i + n \in Nat /\ i + (n + 1) = (i + n) + 1
      BY <2>1, <3>1, SizeAssumption DEF Lane
    <3>3. x[i] <= x[i + n] /\ x[i + n] <= x[(i + n) + 1]
      BY <1>1, <2>3, <3>1, <3>2
    <3>4. x[i + n] \in Nat /\ x[(i + n) + 1] \in Nat
      BY <3>1, <3>2
    <3>5. QED
      BY <2>1, <3>2, <3>3, <3>4
  <2> HIDE DEF Above
  <2>4. \A n \in Nat : n \in Above
    BY <2>2, <2>3, NatSetInduction
  <2>5. j - i \in Nat /\ i + (j - i) = j
    BY <1>2 DEF Lane
  <2>6. QED
    BY <2>4, <2>5 DEF Above
<1>3. QED
  BY <1>2 DEF Ordered

\* The threshold of a rising vector is a rising vector of zeros and ones, that
\* of a falling one a falling one.
LEMMA RisingThreshold ==
  ASSUME NEW x \in [Lane -> Nat], Ordered(x, TRUE, Lane), NEW s \in Nat
  PROVE  Threshold(x, s) \in Rising
<1> DEFINE High == {i \in Lane : x[i] >= s} \cup {Size}
<1>1. High \subseteq Nat /\ High # {}
  BY SizeAssumption DEF Lane
<1>2. PICK t \in High : \A i \in High : t <= i
  <2> HIDE DEF High
  <2> QED BY <1>1, LeastOfSome
<1>3. t \in 0 .. Size
  BY <1>2, SizeAssumption DEF Lane
<1>4. ASSUME NEW i \in Lane
      PROVE  x[i] >= s <=> i >= t
  <2>1. i \in Nat /\ i < Size /\ x[i] \in Nat /\ t \in Nat
    BY <1>3, SizeAssumption DEF Lane
  <2>2. x[i] >= s => i >= t
    BY <1>2, <2>1
  <2>3. ASSUME i >= t PROVE x[i] >= s
    <3>1. t \in Lane /\ x[t] >= s /\ x[t] \in Nat
      BY <1>2, <2>1, <2>3, SizeAssumption DEF Lane
    <3>2. t < i \/ t = i
      BY <2>1, <2>3
    <3>3. x[t] <= x[i]
      BY <2>1, <3>1, <3>2 DEF Ordered
    <3>4. QED
      BY <2>1, <3>1, <3>3
  <2>4. QED
    BY <2>2, <2>3
<1>5. Threshold(x, s) = Threshold(Id, t)
  BY <1>4 DEF Threshold, Id
<1>6. QED
  BY <1>3, <1>5 DEF Rising

LEMMA FallingThreshold ==
  ASSUME NEW x \in [Lane -> Nat], Ordered(x, FALSE, Lane), NEW s \in Nat
  PROVE  Threshold(x, s) \in Falling
<1> DEFINE Low == {i \in Lane : ~(x[i] >= s)} \cup {Size}
<1>1. Low \subseteq Nat /\ Low # {}
  BY SizeAssumption DEF Lane
<1>2. PICK c \in Low : \A i \in Low : c <= i
  <2> HIDE DEF Low
  <2> QED BY <1>1, LeastOfSome
<1> DEFINE t == Size - c
<1>3. c \in Nat /\ c <= Size /\ t \in 0 .. Size
  BY <1>2, SizeAssumption DEF Lane
<1>4. ASSUME NEW i \in Lane
      PROVE  x[i] >= s <=> Size - 1 - i >= t
  <2>1. i \in Nat /\ i < Size /\ x[i] \in Nat
    BY SizeAssumption DEF Lane
  <2>2. ~(x[i] >= s) => i >= c
    BY <1>2, <2>1
  <2>3. ASSUME i >= c PROVE ~(x[i] >= s)
    <3>1. c \in Lane /\ ~(x[c] >= s) /\ x[c] \in Nat
      BY <1>2, <1>3, <2>1, <2>3, SizeAssumption DEF Lane
    <3>2. c < i \/ c = i
      BY <1>3, <2>1, <2>3
    <3>3. x[i] <= x[c]
      BY <2>1, <3>1, <3>2 DEF Ordered
    <3>4. QED
      BY <2>1, <3>1, <3>3
  <2>4. i >= c <=> ~(Size - 1 - i >= t)
    BY <1>3, <2>1, SizeAssumption
  <2>5. QED
    BY <2>2, <2>3, <2>4
<1>5. Threshold(x, s) = Threshold(Rev, t)
  BY <1>4 DEF Threshold, Rev
<1> HIDE DEF t
<1>6. QED
  BY <1>3, <1>5 DEF Falling

\* Thresholds commute with minima and maxima.
LEMMA MinMaxThreshold ==
  ASSUME NEW x \in [Lane -> Nat], NEW y \in [Lane -> Nat], NEW s \in Nat
  PROVE  /\ Threshold(VMin(x, y), s) = VMin(Threshold(x, s), Threshold(y, s))
         /\ Threshold(VMax(x, y), s) = VMax(Threshold(x, s), Threshold(y, s))
<1>1. ASSUME NEW i \in Lane
      PROVE  /\ Threshold(VMin(x, y), s)[i] = VMin(Threshold(x, s), Threshold(y, s))[i]
             /\ Threshold(VMax(x, y), s)[i] = VMax(Threshold(x, s), Threshold(y, s))[i]
  <2>1. x[i] \in Nat /\ y[i] \in Nat
    OBVIOUS
  <2>2. QED
    BY <2>1 DEF Threshold, VMin, VMax
<1>2. QED
  BY <1>1 DEF Threshold, VMin, VMax

LEMMA ReverseFalls ==
  ASSUME NEW x \in [Lane -> Nat], Ordered(x, TRUE, Lane)
  PROVE  Ordered(Permuted(x, Rev), FALSE, Lane)
<1>1. Rev \in [Lane -> Lane] /\ \A i \in Lane : Rev[i] = Size - 1 - i
  BY SizeAssumption DEF Rev, Lane
<1>2. Permuted(x, Rev) = [i \in Lane |-> x[Rev[i]]]
  BY <1>1, PermutedLane
<1>3. ASSUME NEW i \in Lane, NEW j \in Lane, i < j
      PROVE  x[Rev[j]] <= x[Rev[i]]
  <2>1. Rev[i] \in Lane /\ Rev[j] \in Lane
    BY <1>1
  <2>2. Rev[j] < Rev[i]
    BY <1>1, <1>3, SizeAssumption DEF Lane
  <2>3. QED
    BY <2>1, <2>2 DEF Ordered
<1>4. QED
  BY <1>2, <1>3 DEF Ordered

\* A round leaves in a lane what was in one of the lanes.
LEMMA SortRoundTakes ==
  ASSUME NEW x \in [Lane -> Nat], NEW round \in [Lane -> Lane], NEW i \in Lane
  PROVE  \E j \in Lane : SortRound(TRUE, x, round)[i] = x[j]
<1>1. \/ SortRound(TRUE, x, round)[i] = x[i]
      \/ SortRound(TRUE, x, round)[i] = x[round[i]]
  BY SortRoundLane
<1>2. round[i] \in Lane
  OBVIOUS
<1>3. QED
  BY <1>1, <1>2

-----------------------------------------------------------------------------
(***************************************************************************)
(* The inductive invariant: what is known of the order of each half at     *)
(* each place of the function.                                             *)
(***************************************************************************)
Certified(x, r) == \A s \in Nat : Threshold(x, s) \in MergeReach[r]

HalvesInOrder ==
  /\ pc \in {"reverse", "split"} => Ordered(a, pc = "reverse", Lane) /\ Ordered(b, TRUE, Lane)
  /\ pc = "lower" => Certified(a, applied) /\ Certified(b, 0)
  /\ pc = "upper" => Ordered(a, TRUE, Lane) /\ Certified(b, applied)
  /\ pc = "done" => Ordered(a, TRUE, Lane) /\ Ordered(b, TRUE, Lane)

IInv == MergeTypeOK /\ HalvesInOrder /\ HalvesSeparated /\ (pc \in {"reverse", "split"} => applied = 0)

\* What the type invariant says of the two vectors and of the table.
LEMMA Facts ==
  ASSUME MergeTypeOK
  PROVE  /\ a \in [Lane -> Byte] /\ b \in [Lane -> Byte]
         /\ a \in [Lane -> Nat] /\ b \in [Lane -> Nat]
         /\ Byte \in SUBSET Nat
         /\ Len(MergeRounds) \in Nat /\ applied \in Nat /\ applied + 1 \in 1 .. Len(MergeRounds) /\ (applied + 1) - 1 = applied
         /\ MergeRounds[applied + 1] \in [Lane -> Lane]
<1>1. MergeRounds \in Seq([Lane -> Lane]) /\ Len(MergeRounds) \in Nat
  BY MergeAssumption
<1>2. applied \in Nat /\ applied + 1 \in 1 .. Len(MergeRounds) /\ (applied + 1) - 1 = applied
  BY <1>1 DEF MergeTypeOK
<1>3. MergeRounds[applied + 1] \in [Lane -> Lane]
  BY <1>1, <1>2
<1>4. a \in [Lane -> Byte] /\ b \in [Lane -> Byte] /\ Byte \in SUBSET Nat
  BY ByteAssumption DEF MergeTypeOK, Vec
<1>5. QED
  BY <1>1, <1>2, <1>3, <1>4

\* A round takes a certified vector to a certified one; the last round leaves
\* it in order.
LEMMA CertifiedRound ==
  ASSUME MergeTypeOK, NEW x \in [Lane -> Nat], Certified(x, applied)
  PROVE  /\ Certified(SortRound(TRUE, x, MergeRounds[applied + 1]), applied + 1)
         /\ Padding(MergeRounds[applied + 1]) => Ordered(x, TRUE, Lane)
<1>1. /\ applied + 1 \in 1 .. Len(MergeRounds) /\ (applied + 1) - 1 = applied
      /\ MergeRounds[applied + 1] \in [Lane -> Lane]
  BY Facts
<1>2. /\ {SortRound(TRUE, w, MergeRounds[applied + 1]) : w \in MergeReach[applied]} \subseteq MergeReach[applied + 1]
      /\ Padding(MergeRounds[applied + 1]) => \A w \in MergeReach[applied] : Ordered(w, TRUE, Lane)
  BY <1>1, MergeReachAssumption
<1>3. ASSUME NEW s \in Nat
      PROVE  Threshold(SortRound(TRUE, x, MergeRounds[applied + 1]), s) \in MergeReach[applied + 1]
  <2>1. Threshold(SortRound(TRUE, x, MergeRounds[applied + 1]), s)
          = SortRound(TRUE, Threshold(x, s), MergeRounds[applied + 1])
    BY <1>1, SortRoundThreshold
  <2>2. Threshold(x, s) \in MergeReach[applied]
    BY DEF Certified
  <2>3. QED
    BY <1>2, <2>1, <2>2
<1>4. Padding(MergeRounds[applied + 1]) => Ordered(x, TRUE, Lane)
  <2> SUFFICES ASSUME Padding(MergeRounds[applied + 1]) PROVE Ordered(x, TRUE, Lane)
    OBVIOUS
  <2>1. \A s \in Nat : Ordered(Threshold(x, s), TRUE, Lane)
    BY <1>2 DEF Certified
  <2>2. QED
    BY <2>1, ThresholdsOrder
<1>5. QED
  BY <1>3, <1>4 DEF Certified

LEMMA CertifiedEnd ==
  ASSUME NEW x \in [Lane -> Nat], Certified(x, Len(MergeRounds))
  PROVE  Ordered(x, TRUE, Lane)
<1>1. \A s \in Nat : Ordered(Threshold(x, s), TRUE, Lane)
  BY MergeReachAssumption DEF Certified
<1>2. QED
  BY <1>1, ThresholdsOrder

\* A padding round finds the vector in order and leaves it so.
LEMMA PaddingRound ==
  ASSUME MergeTypeOK, NEW x \in [Lane -> Nat], Certified(x, applied), Padding(MergeRounds[applied + 1])
  PROVE  SortRound(TRUE, x, MergeRounds[applied + 1]) = x
<1>1. MergeRounds[applied + 1] \in [Lane -> Lane]
  BY Facts
<1>2. Ordered(x, TRUE, Lane)
  BY CertifiedRound
<1>3. PICK B \in SUBSET Lane : B = Lane
  OBVIOUS
<1>4. \A i \in B : MergeRounds[applied + 1][i] \in B
  BY <1>1, <1>3
<1>5. \A i \in B : SortRound(TRUE, x, MergeRounds[applied + 1])[i] = x[i]
  BY <1>1, <1>2, <1>3, <1>4, SortRoundIdle
<1>6. SortRound(TRUE, x, MergeRounds[applied + 1])
        = [i \in Lane |-> SortRound(TRUE, x, MergeRounds[applied + 1])[i]]
  BY DEF SortRound, Blend
<1>7. QED
  BY <1>3, <1>5, <1>6

\* The bitonic argument: to the right of i the rising vector only grows, to the
\* left of i the falling one does.
LEMMA SplitSeparates ==
  ASSUME NEW x \in [Lane -> Nat], NEW y \in [Lane -> Nat],
         Ordered(x, FALSE, Lane), Ordered(y, TRUE, Lane), NEW i \in Lane, NEW j \in Lane
  PROVE  VMin(x, y)[i] <= VMax(x, y)[j]
<1>1. x[i] \in Nat /\ x[j] \in Nat /\ y[i] \in Nat /\ y[j] \in Nat /\ i \in Int /\ j \in Int
  BY DEF Lane
<1>2. /\ VMin(x, y)[i] = IF x[i] <= y[i] THEN x[i] ELSE y[i]
      /\ VMax(x, y)[j] = IF x[j] <= y[j] THEN y[j] ELSE x[j]
  BY DEF VMin, VMax
<1>3. CASE i < j
  <2>1. y[i] <= y[j]
    BY <1>3 DEF Ordered
  <2>2. QED
    BY <1>1, <1>2, <2>1
<1>4. CASE j < i
  <2>1. x[i] <= x[j]
    BY <1>4 DEF Ordered
  <2>2. QED
    BY <1>1, <1>2, <2>1
<1>5. CASE i = j
  BY <1>1, <1>2, <1>5
<1>6. QED
  BY <1>1, <1>3, <1>4, <1>5

LEMMA SplitCertified ==
  ASSUME NEW x \in [Lane -> Nat], NEW y \in [Lane -> Nat],
         Ordered(x, FALSE, Lane), Ordered(y, TRUE, Lane)
  PROVE  Certified(VMin(x, y), 0) /\ Certified(VMax(x, y), 0)
<1>1. ASSUME NEW s \in Nat
      PROVE  Threshold(VMin(x, y), s) \in MergeReach[0] /\ Threshold(VMax(x, y), s) \in MergeReach[0]
  <2>1. Threshold(x, s) \in Falling /\ Threshold(y, s) \in Rising
    BY FallingThreshold, RisingThreshold
  <2>2. /\ VMin(Threshold(x, s), Threshold(y, s)) \in MergeReach[0]
        /\ VMax(Threshold(x, s), Threshold(y, s)) \in MergeReach[0]
    BY <2>1, MergeReachAssumption
  <2>3. QED
    BY <2>2, MinMaxThreshold
<1>2. QED
  BY <1>1 DEF Certified

-----------------------------------------------------------------------------
LEMMA RevType == Rev \in [Lane -> Lane]
BY SizeAssumption DEF Rev, Lane

LEMMA IInvInit == MergeInit => IInv
<1> SUFFICES ASSUME MergeInit PROVE IInv
  OBVIOUS
<1>1. \A x \in Arguments : x \in [Lane -> Byte] /\ x \in [Lane -> Nat] /\ IsSorted(x)
  BY MergeAssumption, ByteAssumption DEF Vec
<1>2. b \in [Lane -> Byte] /\ Ordered(b, TRUE, Lane)
  BY <1>1, SortedIsOrdered DEF MergeInit
<1>3. a \in [Lane -> Byte] /\ Ordered(a, pc = "reverse", Lane)
  <2>1. CASE pc = "reverse"
    BY <1>1, <2>1, SortedIsOrdered DEF MergeInit
  <2>2. CASE pc # "reverse"
    <3>1. PICK x \in Arguments : a = Permuted(x, Rev)
      BY <2>2 DEF MergeInit
    <3>2. a = [i \in Lane |-> x[Rev[i]]]
      BY <3>1, RevType, PermutedLane
    <3>3. a \in [Lane -> Byte]
      BY <1>1, <3>2, RevType
    <3>4. Ordered(a, FALSE, Lane)
      BY <1>1, <3>1, SortedIsOrdered, ReverseFalls
    <3>5. QED
      BY <2>2, <3>3, <3>4 DEF Ordered
  <2>3. QED
    BY <2>1, <2>2
<1>4. applied = 0 /\ 0 \in 0 .. Len(MergeRounds) - 1
  BY MergeAssumption DEF MergeInit
<1>5. MergeTypeOK
  BY <1>2, <1>3, <1>4 DEF MergeInit, MergeTypeOK, Vec
<1>6. HalvesInOrder /\ HalvesSeparated
  BY <1>2, <1>3 DEF MergeInit, HalvesInOrder, HalvesSeparated
<1>7. QED
  BY <1>4, <1>5, <1>6 DEF IInv

LEMMA ReverseStep == IInv /\ Reverse => IInv'
<1> SUFFICES ASSUME IInv, Reverse PROVE IInv'
  OBVIOUS
<1>1. /\ a \in [Lane -> Byte] /\ a \in [Lane -> Nat] /\ pc = "reverse" /\ applied = 0
      /\ Ordered(a, TRUE, Lane) /\ Ordered(b, TRUE, Lane)
  BY Facts DEF IInv, HalvesInOrder, Reverse, Ordered
<1>2. pc' = "split" /\ a' = Permuted(a, Rev) /\ b' = b /\ args' = args /\ applied' = applied
  BY DEF Reverse
<1>3. a' \in [Lane -> Byte]
  <2>1. a' = [i \in Lane |-> a[Rev[i]]]
    BY <1>2, RevType, PermutedLane
  <2>2. QED
    BY <1>1, <2>1, RevType
<1>4. Ordered(a', FALSE, Lane)
  BY <1>1, <1>2, ReverseFalls
<1>5. MergeTypeOK'
  BY <1>2, <1>3 DEF IInv, MergeTypeOK, Vec
<1>6. HalvesInOrder' /\ HalvesSeparated'
  BY <1>1, <1>2, <1>4 DEF HalvesInOrder, HalvesSeparated, Ordered
<1>7. QED
  BY <1>1, <1>2, <1>5, <1>6 DEF IInv

LEMMA SplitStep == IInv /\ Split => IInv'
<1> SUFFICES ASSUME IInv, Split PROVE IInv'
  OBVIOUS
<1>1. /\ a \in [Lane -> Byte] /\ b \in [Lane -> Byte]
      /\ a \in [Lane -> Nat] /\ b \in [Lane -> Nat] /\ pc = "split" /\ applied = 0
      /\ Ordered(a, FALSE, Lane) /\ Ordered(b, TRUE, Lane)
  BY Facts DEF IInv, HalvesInOrder, Split, Ordered
<1>2. pc' = "lower" /\ a' = VMin(a, b) /\ b' = VMax(a, b) /\ args' = args /\ applied' = applied
  BY DEF Split
<1>3. a' \in [Lane -> Byte] /\ b' \in [Lane -> Byte]
  BY <1>1, <1>2 DEF VMin, VMax
<1>4. MergeTypeOK'
  BY <1>2, <1>3 DEF IInv, MergeTypeOK, Vec
<1>5. HalvesSeparated'
  BY <1>1, <1>2, SplitSeparates DEF HalvesSeparated
<1>6. Certified(a, applied)' /\ Certified(b, 0)'
  BY <1>1, <1>2, SplitCertified DEF Certified
<1>7. HalvesInOrder'
  BY <1>2, <1>6 DEF HalvesInOrder, Certified
<1>8. QED
  BY <1>2, <1>4, <1>5, <1>7 DEF IInv

LEMMA SortStep == IInv /\ (SortLower \/ SortUpper) => IInv'
<1> SUFFICES ASSUME IInv, SortLower \/ SortUpper PROVE IInv'
  OBVIOUS
<1> DEFINE round == MergeRounds[applied + 1]
<1>1. /\ a \in [Lane -> Byte] /\ b \in [Lane -> Byte]
      /\ a \in [Lane -> Nat] /\ b \in [Lane -> Nat]
      /\ round \in [Lane -> Lane] /\ Byte \in SUBSET Nat
      /\ MergeTypeOK /\ applied \in Nat /\ Len(MergeRounds) \in Nat /\ applied + 1 \in 1 .. Len(MergeRounds)
  BY Facts DEF IInv
<1>2. \A i, j \in Lane : a[i] <= b[j]
  BY DEF IInv, HalvesSeparated, SortLower, SortUpper
<1>3. CASE SortLower
  <2>1. /\ pc = "lower" /\ a' = SortRound(TRUE, a, round) /\ b' = b /\ args' = args
        /\ Certified(a, applied) /\ Certified(b, 0)
    BY <1>3 DEF SortLower, IInv, HalvesInOrder
  <2>2. \/ applied + 1 < Len(MergeRounds) /\ applied' = applied + 1 /\ pc' = "lower"
        \/ applied + 1 = Len(MergeRounds) /\ applied' = 0 /\ pc' = "upper"
    BY <1>1, <1>3, <2>1 DEF SortLower, Advance
  <2>3. a' \in [Lane -> Byte] /\ a' \in [Lane -> Nat]
    BY <1>1, <2>1, SortRoundType
  <2>4. applied' \in 0 .. Len(MergeRounds) - 1
    BY <1>1, <2>2
  <2>5. MergeTypeOK'
    BY <1>1, <2>1, <2>2, <2>3, <2>4 DEF MergeTypeOK, Vec
  <2>6. HalvesSeparated'
    <3>1. \A i \in Lane : \E j \in Lane : a'[i] = a[j]
      BY <1>1, <2>1, SortRoundTakes
    <3>2. QED
      BY <1>2, <2>1, <3>1 DEF HalvesSeparated
  <2>7. Certified(a', applied + 1)
    BY <1>1, <2>1, CertifiedRound
  <2>8. applied + 1 = Len(MergeRounds) => Ordered(a', TRUE, Lane)
    BY <2>3, <2>7, CertifiedEnd
  <2>9. HalvesInOrder'
    BY <2>1, <2>2, <2>7, <2>8 DEF HalvesInOrder, Certified
  <2>10. QED
    BY <2>2, <2>5, <2>6, <2>9 DEF IInv
<1>4. CASE SortUpper
  <2>1. /\ pc = "upper" /\ b' = SortRound(TRUE, b, round) /\ a' = a /\ args' = args
        /\ Ordered(a, TRUE, Lane) /\ Certified(b, applied)
    BY <1>4 DEF SortUpper, IInv, HalvesInOrder
  <2>2. \/ applied + 1 < Len(MergeRounds) /\ applied' = applied + 1 /\ pc' = "upper"
        \/ applied + 1 = Len(MergeRounds) /\ applied' = 0 /\ pc' = "done"
    BY <1>1, <1>4, <2>1 DEF SortUpper, Advance
  <2>3. b' \in [Lane -> Byte] /\ b' \in [Lane -> Nat]
    BY <1>1, <2>1, SortRoundType
  <2>4. applied' \in 0 .. Len(MergeRounds) - 1
    BY <1>1, <2>2
  <2>5. MergeTypeOK'
    BY <1>1, <2>1, <2>2, <2>3, <2>4 DEF MergeTypeOK, Vec
  <2>6. HalvesSeparated'
    <3>1. \A i \in Lane : \E j \in Lane : b'[i] = b[j]
      BY <1>1, <2>1, SortRoundTakes
    <3>2. QED
      BY <1>2, <2>1, <3>1 DEF HalvesSeparated
  <2>7. Certified(b', applied + 1)
    BY <1>1, <2>1, CertifiedRound
  <2>8. applied + 1 = Len(MergeRounds) => Ordered(b', TRUE, Lane)
    BY <2>3, <2>7, CertifiedEnd
  <2>9. HalvesInOrder'
    BY <2>1, <2>2, <2>7, <2>8 DEF HalvesInOrder, Certified
  <2>10. QED
    BY <2>2, <2>5, <2>6, <2>9 DEF IInv
<1>5. QED
  BY <1>3, <1>4

LEMMA IInvStep == IInv /\ [MergeNext]_mergeVars => IInv'
<1> SUFFICES ASSUME IInv, UNCHANGED mergeVars PROVE IInv'
  BY ReverseStep, SplitStep, SortStep DEF MergeNext
<1>1. QED
  BY DEF mergeVars, IInv, MergeTypeOK, HalvesInOrder, HalvesSeparated, Certified

LEMMA IInvInvariant == MergeSpec => []IInv
BY IInvInit, IInvStep, PTL DEF MergeSpec

-----------------------------------------------------------------------------
\* The variables keep their types; no round is read beyond the table.
THEOREM MergeTypeCorrect == MergeSpec => []MergeTypeOK
<1>1. IInv => MergeTypeOK
  BY DEF IInv
<1>2. QED
  BY <1>1, IInvInvariant, PTL

\* Once the minima and maxima are taken, no byte of the lower half ever exceeds
\* one of the upper half.
THEOREM HalvesAreSeparated == MergeSpec => []HalvesSeparated
<1>1. IInv => HalvesSeparated
  BY DEF IInv
<1>2. QED
  BY <1>1, IInvInvariant, PTL

\* The zero vectors at the end of the table never change a byte.
THEOREM PaddingIsIdle == MergeSpec => PaddingIdle
<1>1. IInv /\ [MergeNext]_mergeVars => [InPadding => UNCHANGED <<a, b>>]_mergeVars
  <2> SUFFICES ASSUME IInv, MergeNext, pc \in {"lower", "upper"}, Padding(MergeRounds[applied + 1])
               PROVE  a' = a /\ b' = b
    BY DEF InPadding
  <2>1. MergeTypeOK /\ a \in [Lane -> Nat] /\ b \in [Lane -> Nat]
    BY Facts DEF IInv
  <2>2. CASE SortLower
    BY <2>1, <2>2, PaddingRound DEF SortLower, IInv, HalvesInOrder
  <2>3. CASE SortUpper
    BY <2>1, <2>3, PaddingRound DEF SortUpper, IInv, HalvesInOrder
  <2>4. QED
    BY <2>2, <2>3 DEF MergeNext, Reverse, Split
<1>2. QED
  BY <1>1, IInvInvariant, PTL DEF MergeSpec, PaddingIdle

-----------------------------------------------------------------------------
(***************************************************************************)
(* The two vectors as one of twice the size: what happens to each of them  *)
(* happens to their join.                                                  *)
(***************************************************************************)
Both == 0 .. 2 * Size - 1

\* A position of the join is a lane of one of the vectors.
LEMMA Positions ==
  /\ \A p \in Both : IF p < Size THEN p \in Lane ELSE p - Size \in Lane
  /\ \A i \in Lane : i \in Both /\ i + Size \in Both /\ i < Size /\ ~(i + Size < Size)
                     /\ (i + Size) - Size = i
BY SizeAssumption DEF Both, Lane

LEMMA JoinType ==
  ASSUME NEW x \in [Lane -> Byte], NEW y \in [Lane -> Byte]
  PROVE  Join(x, y) \in [Both -> Byte]
BY Positions DEF Join, Both

LEMMA JoinOrdered ==
  ASSUME NEW x \in [Lane -> Byte], NEW y \in [Lane -> Byte],
         Ordered(x, TRUE, Lane), Ordered(y, TRUE, Lane), \A i, j \in Lane : x[i] <= y[j]
  PROVE  Ordered(Join(x, y), TRUE, Both)
<1>1. ASSUME NEW p \in Both, NEW q \in Both, p < q
      PROVE  Join(x, y)[p] <= Join(x, y)[q]
  <2>1. /\ Join(x, y)[p] = IF p < Size THEN x[p] ELSE y[p - Size]
        /\ Join(x, y)[q] = IF q < Size THEN x[q] ELSE y[q - Size]
    BY DEF Join, Both
  <2>2. /\ IF p < Size THEN p \in Lane ELSE p - Size \in Lane
        /\ IF q < Size THEN q \in Lane ELSE q - Size \in Lane
    BY Positions
  <2>3. p \in Int /\ q \in Int /\ Size \in Int
    BY SizeAssumption DEF Both
  <2>4. CASE q < Size
    <3>1. p < Size
      BY <1>1, <2>3, <2>4
    <3>2. QED
      BY <1>1, <2>1, <2>2, <2>4, <3>1 DEF Ordered
  <2>5. CASE ~(p < Size)
    <3>1. ~(q < Size) /\ p - Size < q - Size
      BY <1>1, <2>3, <2>5
    <3>2. QED
      BY <2>1, <2>2, <2>5, <3>1 DEF Ordered
  <2>6. CASE p < Size /\ ~(q < Size)
    BY <2>1, <2>2, <2>6
  <2>7. QED
    BY <2>4, <2>5, <2>6
<1>2. QED
  BY <1>1 DEF Ordered

LEMMA SameRearranged ==
  ASSUME NEW x, NEW B
  PROVE  Rearranged(x, x, B)
<1> DEFINE f == [i \in B |-> i]
<1>1. f \in [B -> B] /\ \A i \in B : f[i] = i
  OBVIOUS
<1> HIDE DEF f
<1>2. QED
  BY <1>1 DEF Rearranged

LEMMA JoinRearranged ==
  ASSUME NEW x, NEW y, NEW u, NEW w, Rearranged(u, x, Lane), Rearranged(w, y, Lane)
  PROVE  Rearranged(Join(u, w), Join(x, y), Both)
<1>1. PICK f \in [Lane -> Lane] :
        /\ \A i, j \in Lane : f[i] = f[j] => i = j
        /\ \A j \in Lane : \E i \in Lane : f[i] = j
        /\ \A i \in Lane : u[i] = x[f[i]]
  BY DEF Rearranged
<1>2. PICK g \in [Lane -> Lane] :
        /\ \A i, j \in Lane : g[i] = g[j] => i = j
        /\ \A j \in Lane : \E i \in Lane : g[i] = j
        /\ \A i \in Lane : w[i] = y[g[i]]
  BY DEF Rearranged
<1> DEFINE h == [p \in Both |-> IF p < Size THEN f[p] ELSE g[p - Size] + Size]
<1>3. \A p \in Both : /\ Join(x, y)[p] = IF p < Size THEN x[p] ELSE y[p - Size]
                      /\ Join(u, w)[p] = IF p < Size THEN u[p] ELSE w[p - Size]
  BY DEF Join, Both
<1>4. \A i \in Lane : f[i] \in Lane /\ g[i] \in Lane /\ i \in Int
  BY DEF Lane
<1>5. Size \in Int /\ \A p \in Both : p \in Int
  BY SizeAssumption DEF Both
<1>6. ASSUME NEW p \in Both
      PROVE  h[p] \in Both /\ (h[p] < Size <=> p < Size)
             /\ Join(u, w)[p] = Join(x, y)[h[p]]
  <2>1. CASE p < Size
    <3>1. p \in Lane
      BY <2>1, Positions
    <3>2. h[p] = f[p] /\ f[p] \in Lane
      BY <1>4, <2>1, <3>1
    <3> HIDE DEF h
    <3>3. h[p] \in Both /\ h[p] < Size
      BY <3>2, Positions
    <3>4. QED
      BY <1>1, <1>3, <2>1, <3>1, <3>2, <3>3
  <2>2. CASE ~(p < Size)
    <3>1. p - Size \in Lane
      BY <2>2, Positions
    <3>2. h[p] = g[p - Size] + Size /\ g[p - Size] \in Lane
      BY <1>4, <2>2, <3>1
    <3> HIDE DEF h
    <3>3. h[p] \in Both /\ ~(h[p] < Size) /\ h[p] - Size = g[p - Size]
      BY <3>2, Positions
    <3>4. QED
      BY <1>2, <1>3, <2>2, <3>1, <3>2, <3>3
  <2>3. QED
    BY <2>1, <2>2
<1>7. ASSUME NEW p \in Both, NEW q \in Both, h[p] = h[q]
      PROVE  p = q
  <2>1. CASE p < Size
    <3>1. q < Size /\ p \in Lane /\ q \in Lane
      BY <1>6, <1>7, <2>1, Positions
    <3>2. f[p] = f[q]
      BY <1>7, <2>1, <3>1
    <3>3. QED
      BY <1>1, <3>1, <3>2
  <2>2. CASE ~(p < Size)
    <3>1. ~(q < Size) /\ p - Size \in Lane /\ q - Size \in Lane
      BY <1>6, <1>7, <2>2, Positions
    <3>2. g[p - Size] + Size = g[q - Size] + Size
      BY <1>7, <2>2, <3>1
    <3>3. g[p - Size] = g[q - Size]
      <4>1. g[p - Size] \in Lane /\ g[q - Size] \in Lane
        BY <1>4, <3>1
      <4>2. g[p - Size] \in Int /\ g[q - Size] \in Int
        BY <1>4, <4>1
      <4>3. QED
        BY <1>5, <3>2, <4>2
    <3>4. p - Size = q - Size
      BY <1>2, <3>1, <3>3
    <3>5. QED
      BY <1>5, <3>4
  <2>3. QED
    BY <2>1, <2>2
<1>8. ASSUME NEW q \in Both
      PROVE  \E p \in Both : h[p] = q
  <2>1. CASE q < Size
    <3>1. PICK i \in Lane : f[i] = q
      BY <1>1, <2>1, Positions
    <3>2. i \in Both /\ h[i] = q
      BY <3>1, Positions
    <3>3. QED
      BY <3>2
  <2>2. CASE ~(q < Size)
    <3>1. PICK i \in Lane : g[i] = q - Size
      BY <1>2, <2>2, Positions
    <3>2. i + Size \in Both /\ h[i + Size] = g[i] + Size
      BY Positions
    <3>3. h[i + Size] = q
      BY <1>5, <3>1, <3>2
    <3>4. QED
      BY <3>2, <3>3
  <2>3. QED
    BY <2>1, <2>2
<1>9. h \in [Both -> Both]
  BY <1>6
<1> HIDE DEF h
<1>10. QED
  BY <1>6, <1>7, <1>8, <1>9 DEF Rearranged

\* The minima and maxima exchange bytes between a lane and the same lane of the
\* other vector.
LEMMA SplitRearranged ==
  ASSUME NEW x \in [Lane -> Nat], NEW y \in [Lane -> Nat]
  PROVE  Rearranged(Join(VMin(x, y), VMax(x, y)), Join(x, y), Both)
<1> DEFINE old == Join(x, y)
           new == Join(VMin(x, y), VMax(x, y))
           across(p) == IF p < Size THEN p + Size ELSE p - Size
           h == [p \in Both |-> IF new[p] = old[p] THEN p ELSE across(p)]
<1>1. ASSUME NEW p \in Both
      PROVE  /\ across(p) \in Both /\ across(across(p)) = p
             /\ new[p] # old[p] => new[across(p)] # old[across(p)] /\ new[p] = old[across(p)]
  <2>1. Size \in Nat \ {0} /\ p \in Int
    BY SizeAssumption DEF Both
  <2>2. CASE p < Size
    <3>1. p \in Lane /\ p + Size \in Both /\ ~(p + Size < Size) /\ (p + Size) - Size = p
      BY <2>2, Positions
    <3>2. x[p] \in Nat /\ y[p] \in Nat
      BY <3>1
    <3>3. /\ old[p] = x[p] /\ new[p] = IF x[p] <= y[p] THEN x[p] ELSE y[p]
          /\ old[p + Size] = y[p] /\ new[p + Size] = IF x[p] <= y[p] THEN y[p] ELSE x[p]
      BY <2>2, <3>1 DEF Join, Both, VMin, VMax
    <3> HIDE DEF old, new
    <3>4. QED
      BY <2>2, <3>1, <3>2, <3>3
  <2>3. CASE ~(p < Size)
    <3>1. PICK i \in Lane : i = p - Size
      BY <2>3, Positions
    <3>2. i \in Both /\ i < Size /\ p = i + Size
      BY <2>1, <3>1, Positions
    <3>3. x[i] \in Nat /\ y[i] \in Nat
      BY <3>1
    <3>4. /\ old[i] = x[i] /\ new[i] = IF x[i] <= y[i] THEN x[i] ELSE y[i]
          /\ old[p] = y[i] /\ new[p] = IF x[i] <= y[i] THEN y[i] ELSE x[i]
      BY <2>3, <3>1, <3>2 DEF Join, Both, VMin, VMax
    <3> HIDE DEF old, new
    <3>5. QED
      BY <2>3, <3>1, <3>2, <3>3, <3>4
  <2>4. QED
    BY <2>2, <2>3
<1> HIDE DEF old, new, across
<1>2. \A p \in Both : h[p] \in Both /\ new[p] = old[h[p]]
  BY <1>1
<1>3. ASSUME NEW p \in Both, NEW q \in Both, h[p] = h[q]
      PROVE  p = q
  BY <1>1, <1>3
<1>4. ASSUME NEW q \in Both
      PROVE  \E p \in Both : h[p] = q
  <2>1. CASE new[q] = old[q]
    BY <2>1
  <2>2. CASE new[q] # old[q]
    <3>1. across(q) \in Both /\ h[across(q)] = q
      BY <1>1, <2>2
    <3>2. QED
      BY <3>1
  <2>3. QED
    BY <2>1, <2>2
<1>5. h \in [Both -> Both]
  BY <1>2
<1> HIDE DEF h
<1>6. Rearranged(new, old, Both)
  BY <1>2, <1>3, <1>4, <1>5 DEF Rearranged
<1>7. QED
  BY <1>6 DEF old, new

LEMMA ReverseRearranged ==
  ASSUME NEW x
  PROVE  Rearranged(Permuted(x, Rev), x, Lane)
<1>1. Permuted(x, Rev) = [i \in Lane |-> x[Rev[i]]]
  BY RevType, PermutedLane
<1>2. \A i \in Lane : Rev[i] \in Lane /\ Rev[Rev[i]] = i
  BY SizeAssumption DEF Rev, Lane
<1>3. QED
  BY <1>1, <1>2, RevType DEF Rearranged

\* No step loses, duplicates or invents a byte.
LEMMA StepRearranges ==
  ASSUME IInv, MergeNext
  PROVE  SameContent(Join(a', b'), Join(a, b), Both)
<1>1. MergeTypeOK /\ a \in [Lane -> Nat] /\ b \in [Lane -> Nat] /\ MergeRounds[applied + 1] \in [Lane -> Lane]
  BY Facts DEF IInv
<1>2. ASSUME NEW x \in [Lane -> Nat], Certified(x, applied)
      PROVE  Rearranged(SortRound(TRUE, x, MergeRounds[applied + 1]), x, Lane)
  <2>1. CASE Padding(MergeRounds[applied + 1])
    <3>1. SortRound(TRUE, x, MergeRounds[applied + 1]) = x
      BY <1>1, <1>2, <2>1, PaddingRound
    <3>2. QED
      BY <3>1, SameRearranged
  <2>2. CASE ~Padding(MergeRounds[applied + 1])
    <3>1. PairsOff(MergeRounds[applied + 1], Lane)
      BY <1>1, <2>2 DEF PairsOff, Padding
    <3>2. QED
      BY <1>1, <3>1, SortRoundMoves
  <2>3. QED
    BY <2>1, <2>2
<1>3. Rearranged(Join(a', b'), Join(a, b), Both)
  <2>1. Rearranged(a, a, Lane) /\ Rearranged(b, b, Lane)
    BY SameRearranged
  <2>2. CASE Reverse
    <3>1. Rearranged(a', a, Lane) /\ b' = b
      BY <2>2, ReverseRearranged DEF Reverse
    <3>2. QED
      BY <2>1, <3>1, JoinRearranged
  <2>3. CASE Split
    BY <1>1, <2>3, SplitRearranged DEF Split
  <2>4. CASE SortLower
    <3>1. Rearranged(a', a, Lane) /\ b' = b
      BY <1>1, <1>2, <2>4 DEF SortLower, IInv, HalvesInOrder
    <3>2. QED
      BY <2>1, <3>1, JoinRearranged
  <2>5. CASE SortUpper
    <3>1. Rearranged(b', b, Lane) /\ a' = a
      BY <1>1, <1>2, <2>5 DEF SortUpper, IInv, HalvesInOrder
    <3>2. QED
      BY <2>1, <3>1, JoinRearranged
  <2>6. QED
    BY <2>2, <2>3, <2>4, <2>5 DEF MergeNext
<1>4. IsFiniteSet(Both)
  BY FS_Interval, SizeAssumption DEF Both
<1>5. QED
  BY <1>3, <1>4, RearrangedContent

\* Merging implements the promise of sorting for the two vectors side by side:
\* every step rearranges them, and the last one leaves them sorted.
THEOREM MergeMeetsPromise == MergeSpec => MergesAsPromised
<1>1. MergeInit => MergePromise!Init
  <2> SUFFICES ASSUME MergeInit PROVE MergePromise!Init
    OBVIOUS
  <2>1. a \in [Lane -> Byte] /\ b \in [Lane -> Byte] /\ args = <<a, b>> /\ pc # "done"
    BY IInvInit, Facts DEF MergeInit, IInv
  <2>2. Join(a, b) \in [0 .. 2 * Size - 1 -> Byte]
    BY <2>1, JoinType DEF Both
  <2>3. args[1] = a /\ args[2] = b
    BY <2>1
  <2>4. QED
    BY <2>1, <2>2, <2>3 DEF MergePromise!Init
<1>2. IInv /\ IInv' /\ [MergeNext]_mergeVars => [MergePromise!Next]_(MergePromise!vars)
  <2> SUFFICES ASSUME IInv, IInv', [MergeNext]_mergeVars
               PROVE  [MergePromise!Next]_(MergePromise!vars)
    OBVIOUS
  <2>1. CASE MergeNext
    <3>1. pc # "done" /\ args' = args
      BY <2>1 DEF MergeNext, Reverse, Split, SortLower, SortUpper
    <3>2. SameContent(Join(a', b'), Join(a, b), Both)
      BY <2>1, StepRearranges
    <3>3. MergePromise!Rearranged
      <4>1. DOMAIN Join(a', b') = DOMAIN Join(a, b)
        BY DEF Join
      <4>2. \A x \in Byte : Cardinality({p \in Both : Join(a', b')[p] = x})
                            = Cardinality({p \in Both : Join(a, b)[p] = x})
        BY <3>2 DEF SameContent, Count
      <4>3. MergePromise!SameContent(Join(a', b'), Join(a, b), Both)
        BY <4>2 DEF MergePromise!SameContent, MergePromise!Count, MergePromise!Cardinality, Cardinality
      <4>4. DOMAIN Join(a, b)' = DOMAIN Join(a, b)
        BY <4>1
      <4>5. QED
        BY <4>4, <4>3 DEF MergePromise!Rearranged, Both
    <3>4. CASE pc' = "done"
      <4>1. /\ a' \in [Lane -> Byte] /\ b' \in [Lane -> Byte]
            /\ Ordered(a', TRUE, Lane) /\ Ordered(b', TRUE, Lane)
            /\ \A i, j \in Lane : a'[i] <= b'[j]
        BY <3>4 DEF IInv, MergeTypeOK, Vec, HalvesInOrder, HalvesSeparated, Ordered
      <4>2. Ordered(Join(a', b'), TRUE, Both)
        BY <4>1, JoinOrdered
      <4>3. QED
        BY <3>1, <3>3, <3>4, <4>2
           DEF MergePromise!Finish, MergePromise!Next, MergePromise!Ordered, Ordered, Both
    <3>5. CASE pc' # "done"
      BY <3>1, <3>3, <3>5 DEF MergePromise!Rearrange, MergePromise!Next
    <3>6. QED
      BY <3>4, <3>5
  <2>2. CASE UNCHANGED mergeVars
    BY <2>2 DEF mergeVars, MergePromise!vars
  <2>3. QED
    BY <2>1, <2>2
<1>3. QED
  BY <1>1, <1>2, IInvInvariant, PTL DEF MergeSpec, MergesAsPromised, MergePromise!Spec

=============================================================================
