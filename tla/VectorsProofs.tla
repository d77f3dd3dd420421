---------------------------- MODULE VectorsProofs ----------------------------
(***************************************************************************)
(* Proofs about the vector functions, for every vector they can be called  *)
(* with: what the loops of LaneLoops have computed after each round, that  *)
(* they return what their reference loops return, that every search,       *)
(* comparison, shuffle and reduction agrees with the others, what the      *)
(* recognisers accept, and how partial maps compose, invert and compress.  *)
(***************************************************************************)
EXTENDS Vectors, Epu8Proofs

LEMMA SixteenLanes ==
  /\ Size = 16
  /\ Lane = 0 .. 15
  /\ Byte = 0 .. 255
  /\ Vec = [0 .. 15 -> 0 .. 255]
BY ProgramsAssumption DEF Lane, Vec

LEMMA LaneRange == Size = 16 /\ Lane = 0 .. 15
BY SixteenLanes

LEMMA LanesFinite == IsFiniteSet(Lane) /\ Cardinality(Lane) = 16
<1>1. 0 \in Int /\ 15 \in Int /\ ~(0 > 15) /\ 15 - 0 + 1 = 16
  OBVIOUS
<1> QED BY <1>1, SixteenLanes, FS_Interval

LEMMA BytesType == \A n \in Int : AsByte(n) \in 0 .. 255
BY DEF AsByte

LEMMA BelowSixteen == \A n \in 0 .. 16 : n # 0 => n \in 1 .. 16 /\ n - 1 \in 0 .. 16
OBVIOUS

LEMMA BytesSum == \A m, n \in 0 .. 255 : AsByte(m + n) \in 0 .. 255
BY DEF AsByte

\* A vector is what gives every lane a byte.
LEMMA FormsVec ==
  ASSUME NEW t, t = [i \in Lane |-> t[i]], \A i \in Lane : t[i] \in 0 .. 255
  PROVE  t \in Vec
<1>1. t \in [Lane -> 0 .. 255]
  OBVIOUS
<1> QED BY <1>1, SixteenLanes

LEMMA ByteOfLane ==
  ASSUME NEW v \in Vec, NEW i \in 0 .. 15
  PROVE  v[i] \in 0 .. 255 /\ v[i] \in Int
BY SixteenLanes

LEMMA VecsEqual ==
  ASSUME NEW v, NEW w, v = [i \in Lane |-> v[i]], w = [i \in Lane |-> w[i]],
         \A i \in Lane : v[i] = w[i]
  PROVE  v = w
OBVIOUS

(***************************************************************************)
(* The least and the greatest number of a set.                             *)
(***************************************************************************)
LEMMA MinIs ==
  ASSUME NEW S \in SUBSET Int, NEW m \in S, \A n \in S : m <= n
  PROVE  Min(S) = m
<1>1. Min(S) \in S /\ \A n \in S : Min(S) <= n
  BY DEF Min
<1>2. Min(S) \in Int /\ m \in Int /\ m <= Min(S) /\ Min(S) <= m
  BY <1>1
<1> QED BY <1>2

LEMMA MaxIs ==
  ASSUME NEW S \in SUBSET Int, NEW m \in S, \A n \in S : n <= m
  PROVE  Max(S) = m
<1>1. Max(S) \in S /\ \A n \in S : n <= Max(S)
  BY DEF Max
<1>2. Max(S) \in Int /\ m \in Int /\ m <= Max(S) /\ Max(S) <= m
  BY <1>1
<1> QED BY <1>2

-----------------------------------------------------------------------------
(***************************************************************************)
(* A recursion over 0 .. n whose step is given as a function has a         *)
(* solution.                                                               *)
(***************************************************************************)
IsRun(h, step, z, n) ==
  h = [m \in 0 .. n |-> IF m = 0 THEN z ELSE step[m][h[m - 1]]]
RunOf(step, z, n) == \E h : IsRun(h, step, z, n)

LEMMA RunExists ==
  ASSUME NEW step, NEW z, NEW n \in Nat
  PROVE  RunOf(step, z, n)
<1> DEFINE Long == {m \in Nat : RunOf(step, z, m)}
<1>1. 0 \in Long
  <2> DEFINE h == [m \in 0 .. 0 |-> z]
  <2>1. IsRun(h, step, z, 0)
    BY DEF IsRun
  <2> QED BY <2>1 DEF RunOf
<1>2. ASSUME NEW m \in Nat, m \in Long
      PROVE  m + 1 \in Long
  <2>1. PICK h : IsRun(h, step, z, m)
    BY <1>2 DEF RunOf
  <2> DEFINE g == [l \in 0 .. m + 1 |-> IF l = m + 1 THEN step[m + 1][h[m]] ELSE h[l]]
  <2>2. ASSUME NEW l \in 0 .. m + 1
        PROVE  g[l] = IF l = 0 THEN z ELSE step[l][g[l - 1]]
    <3>1. CASE l = m + 1
      <4>1. l - 1 = m /\ m \in 0 .. m + 1 /\ m # m + 1 /\ l # 0
        BY <3>1
      <4> QED BY <3>1, <4>1
    <3>2. CASE l # m + 1
      <4>1. l \in 0 .. m /\ (l # 0 => l - 1 \in 0 .. m + 1 /\ l - 1 # m + 1)
        BY <3>2
      <4>2. h[l] = IF l = 0 THEN z ELSE step[l][h[l - 1]]
        BY <2>1, <4>1 DEF IsRun
      <4> QED BY <3>2, <4>1, <4>2
    <3> QED BY <3>1, <3>2
  <2>3. g = [l \in 0 .. m + 1 |-> g[l]]
    OBVIOUS
  <2> HIDE DEF g
  <2>4. IsRun(g, step, z, m + 1)
    BY <2>2, <2>3 DEF IsRun
  <2> QED BY <2>4 DEF RunOf
<1> HIDE DEF Long
<1>3. \A m \in Nat : m \in Long
  BY <1>1, <1>2, NatSetInduction
<1> QED BY <1>3 DEF Long

\* The search loops: there is a run, and it stops at the first hit.
IsSearch(f, H, n) ==
  f = [i \in 0 .. n |-> IF i = n THEN Size ELSE IF i \in H THEN i ELSE f[i + 1]]
SearchOf(H, n) == \E f : IsSearch(f, H, n)

LEMMA SearchExists ==
  ASSUME NEW H, NEW n \in Nat
  PROVE  SearchOf(H, n)
<1> DEFINE Hits(i) == {l \in i .. n - 1 : l \in H}
           f == [i \in 0 .. n |-> IF Hits(i) = {} THEN Size ELSE Min(Hits(i))]
<1>1. ASSUME NEW i \in 0 .. n
      PROVE  f[i] = IF i = n THEN Size ELSE IF i \in H THEN i ELSE f[i + 1]
  <2>1. CASE i = n
    BY <2>1
  <2>2. CASE i # n /\ i \in H
    <3>1. i \in Hits(i) /\ Hits(i) \in SUBSET Int /\ \A l \in Hits(i) : i <= l
      BY <2>2
    <3> HIDE DEF Hits
    <3>2. Min(Hits(i)) = i
      BY <3>1, MinIs
    <3> QED BY <2>2, <3>1, <3>2
  <2>3. CASE i # n /\ i \notin H
    <3>1. Hits(i) = Hits(i + 1) /\ i + 1 \in 0 .. n
      BY <2>3
    <3> HIDE DEF Hits
    <3> QED BY <2>3, <3>1
  <2> QED BY <2>1, <2>2, <2>3
<1>2. f = [i \in 0 .. n |-> f[i]]
  OBVIOUS
<1> HIDE DEF f
<1>3. IsSearch(f, H, n)
  BY <1>1, <1>2 DEF IsSearch
<1> QED BY <1>3 DEF SearchOf

LEMMA SearchFinds ==
  ASSUME NEW H, NEW n \in Nat, NEW f, IsSearch(f, H, n),
         NEW m \in 0 .. n, \A i \in 0 .. m - 1 : i \notin H, m = n \/ m \in H
  PROVE  f[0] = IF m = n THEN Size ELSE m
<1> DEFINE Passed == {i \in Nat : i <= m => f[0] = f[i]}
<1>1. 0 \in Passed
  OBVIOUS
<1>2. ASSUME NEW i \in Nat, i \in Passed
      PROVE  i + 1 \in Passed
  <2>1. SUFFICES ASSUME i + 1 <= m PROVE f[0] = f[i + 1]
    OBVIOUS
  <2>2. i \in 0 .. n /\ i # n /\ i \notin H /\ i <= m
    BY <2>1
  <2>3. f[i] = f[i + 1]
    BY <2>2 DEF IsSearch
  <2> QED BY <1>2, <2>2, <2>3
<1> HIDE DEF Passed
<1>3. \A i \in Nat : i \in Passed
  BY <1>1, <1>2, NatSetInduction
<1>4. f[0] = f[m]
  BY <1>3 DEF Passed
<1>5. f[m] = IF m = n THEN Size ELSE m
  BY DEF IsSearch
<1> QED BY <1>4, <1>5

-----------------------------------------------------------------------------
(***************************************************************************)
(* permutation_of_cmpestrm.  Gathered(n) names the lane from which each    *)
(* lane has come after n rounds: in front are those whose number has bit   *)
(* 3 - n clear.                                                            *)
(***************************************************************************)
Gathered(n) ==
  CASE n = 0 -> [i \in Lane |-> i]
    [] n = 1 -> inverting_rounds[1]
    [] n = 2 -> [i \in Lane |-> inverting_rounds[1][inverting_rounds[2][i]]]
    [] n = 3 -> [i \in Lane |->
                   inverting_rounds[1][inverting_rounds[2][inverting_rounds[3][i]]]]

LEMMA InvertingRounds ==
  \A n \in 1 .. 3 : inverting_rounds[n] \in [Lane -> Lane]
BY SixteenLanes DEF inverting_rounds, Epu8Of

LEMMA GatheredType ==
  ASSUME NEW n \in 0 .. 3
  PROVE  Gathered(n) \in [Lane -> Lane]
<1>1. \A i \in Lane, m \in 1 .. 3 : inverting_rounds[m][i] \in Lane
  BY InvertingRounds
<1>2. CASE n = 0
  BY <1>2 DEF Gathered
<1>3. CASE n = 1
  BY <1>3, InvertingRounds DEF Gathered
<1>4. CASE n = 2
  BY <1>1, <1>4 DEF Gathered
<1>5. CASE n = 3
  BY <1>1, <1>5 DEF Gathered
<1> QED BY <1>2, <1>3, <1>4, <1>5

LEMMA GatheredNext ==
  ASSUME NEW n \in 0 .. 2
  PROVE  Gathered(n + 1) = [i \in Lane |-> Gathered(n)[inverting_rounds[n + 1][i]]]
<1>1. \A i \in Lane, m \in 1 .. 3 : inverting_rounds[m][i] \in Lane
  BY InvertingRounds
<1>2. CASE n = 0
  <2>1. inverting_rounds[1] = [i \in Lane |-> inverting_rounds[1][i]]
    BY InvertingRounds
  <2> QED BY <1>1, <1>2, <2>1 DEF Gathered
<1>3. CASE n = 1
  BY <1>1, <1>3 DEF Gathered
<1>4. CASE n = 2
  BY <1>1, <1>4 DEF Gathered
<1> QED BY <1>2, <1>3, <1>4

\* The lanes in front, as numbers.
LEMMA GatheredFront ==
  ASSUME NEW n \in 0 .. 3, NEW i \in Lane
  PROVE  (\E l \in 0 .. 7 : Gathered(n)[l] = i) <=> (i \div 2^(3 - n)) % 2 = 0
<1>1. /\ i \in 0 .. 15
      /\ \A l \in 0 .. 7 : l = 0 \/ l = 1 \/ l = 2 \/ l = 3 \/ l = 4 \/ l = 5 \/ l = 6 \/ l = 7
      /\ \A l \in 0 .. 7 : l \in Lane
  BY SixteenLanes
<1> DEFINE h1 == inverting_rounds[1]
           h2 == inverting_rounds[2]
           h3 == inverting_rounds[3]
<1>2. /\ h1[0] = 0 /\ h1[1] = 1 /\ h1[2] = 2 /\ h1[3] = 3 /\ h1[4] = 8 /\ h1[5] = 9
      /\ h1[6] = 10 /\ h1[7] = 11 /\ h1[8] = 4 /\ h1[9] = 5
      /\ h1[10] = 6 /\ h1[12] = 12 /\ h1[13] = 13 /\ h1[14] = 14
  BY DEF inverting_rounds, Epu8Of
<1>3. /\ h2[0] = 0 /\ h2[1] = 1 /\ h2[2] = 4 /\ h2[3] = 5 /\ h2[4] = 8 /\ h2[5] = 9
      /\ h2[6] = 12 /\ h2[7] = 13 /\ h2[8] = 2 /\ h2[10] = 6 /\ h2[12] = 10 /\ h2[14] = 14
  BY DEF inverting_rounds, Epu8Of
<1>4. /\ h3[0] = 0 /\ h3[1] = 2 /\ h3[2] = 4 /\ h3[3] = 6 /\ h3[4] = 8 /\ h3[5] = 10
      /\ h3[6] = 12 /\ h3[7] = 14
  BY DEF inverting_rounds, Epu8Of
<1>5. CASE n = 0
  <2>1. 2^(3 - n) = 8 /\ \A l \in 0 .. 7 : Gathered(n)[l] = l
    BY <1>1, <1>5 DEF Gathered
  <2> QED BY <1>1, <2>1
<1>6. CASE n = 1
  <2>1. 2^(3 - n) = 4 /\ Gathered(n) = h1
    BY <1>6 DEF Gathered
  <2> HIDE DEF h1
  <2> QED BY <1>1, <1>2, <2>1
<1>7. CASE n = 2
  <2>1. 2^(3 - n) = 2 /\ \A l \in 0 .. 7 : Gathered(n)[l] = h1[h2[l]]
    BY <1>1, <1>7 DEF Gathered
  <2> HIDE DEF h1, h2
  <2>2. /\ Gathered(n)[0] = 0 /\ Gathered(n)[1] = 1 /\ Gathered(n)[2] = 8 /\ Gathered(n)[3] = 9
        /\ Gathered(n)[4] = 4 /\ Gathered(n)[5] = 5 /\ Gathered(n)[6] = 12 /\ Gathered(n)[7] = 13
    BY <1>2, <1>3, <2>1
  <2> QED BY <1>1, <2>1, <2>2
<1>8. CASE n = 3
  <2>1. 2^(3 - n) = 1 /\ \A l \in 0 .. 7 : Gathered(n)[l] = h1[h2[h3[l]]]
    BY <1>1, <1>8 DEF Gathered
  <2> HIDE DEF h1, h2, h3
  <2>2. /\ Gathered(n)[0] = 0 /\ Gathered(n)[1] = 8 /\ Gathered(n)[2] = 4 /\ Gathered(n)[3] = 12
        /\ Gathered(n)[4] = 2 /\ Gathered(n)[5] = 10 /\ Gathered(n)[6] = 6 /\ Gathered(n)[7] = 14
    BY <1>2, <1>3, <1>4, <2>1
  <2> QED BY <1>1, <2>1, <2>2
<1> QED BY <1>5, <1>6, <1>7, <1>8

\* A byte that occurs once is in front after n rounds if the bit is clear.
LEMMA ByteInFront ==
  ASSUME NEW v \in Vec, NEW w \in Vec, NEW n \in 0 .. 3, NEW i \in Lane, NEW j \in Lane,
         v[i] = w[j], \A l \in Lane \ {i} : v[l] # v[i]
  PROVE  j \in NotInFront([l \in Lane |-> v[Gathered(n)[l]]], w)
           <=> (i \div 2^(3 - n)) % 2 # 0
<1> DEFINE t == [l \in Lane |-> v[Gathered(n)[l]]]
<1>1. Gathered(n) \in [Lane -> Lane]
  BY GatheredType
<1>2. \A l \in Lane : t[l] = w[j] <=> Gathered(n)[l] = i
  BY <1>1
<1>3. j \in NotInFront(t, w) <=> ~(\E l \in Lane : l < 8 /\ t[l] = w[j])
  <2> HIDE DEF t
  <2>1. j < Size
    BY LaneRange
  <2> QED BY <2>1 DEF NotInFront, EqualAny
<1>4. \A l \in 0 .. 15 : l < 8 <=> l \in 0 .. 7
  OBVIOUS
<1>5. \A l \in 0 .. 7 : l \in 0 .. 15
  OBVIOUS
<1>6. (\E l \in Lane : l < 8 /\ t[l] = w[j]) <=> \E l \in 0 .. 7 : Gathered(n)[l] = i
  <2> HIDE DEF t
  <2> QED BY <1>2, <1>4, <1>5, LaneRange
<1> HIDE DEF t
<1> QED BY <1>3, <1>6, GatheredFront DEF t

\* What permutation_of knows after n rounds.
PositionsKnown(v, w, t, r, n) ==
  /\ t = [l \in Lane |-> v[Gathered(n)[l]]]
  /\ r \in [Lane -> 0 .. 255]
  /\ \A i, j \in Lane : v[i] = w[j] /\ (\A l \in Lane \ {i} : v[l] # v[i]) =>
       r[j] = i \div 2^(3 - n)

\* The vector with one more in the lanes of a set.
Raised(r, H) == [i \in Lane |-> AsByte(r[i] + IF i \in H THEN 1 ELSE 0)]

LEMMA RaisedType ==
  ASSUME NEW r \in [Lane -> 0 .. 255], NEW H
  PROVE  Raised(r, H) \in [Lane -> 0 .. 255]
<1>1. \A i \in Lane : r[i] \in 0 .. 255
  OBVIOUS
<1>2. \A n \in 0 .. 255 : n + 1 \in Int /\ n + 0 \in Int
  OBVIOUS
<1>3. \A i \in Lane : r[i] + (IF i \in H THEN 1 ELSE 0) \in Int
  BY <1>1, <1>2
<1> QED BY <1>3, BytesType DEF Raised

LEMMA VAddType ==
  ASSUME NEW v \in [Lane -> 0 .. 255], NEW w \in [Lane -> 0 .. 255]
  PROVE  VAdd(v, w) \in [Lane -> 0 .. 255]
<1>1. \A i \in Lane : v[i] \in 0 .. 255 /\ w[i] \in 0 .. 255
  BY Zenon
<1>2. \A i \in Lane : AsByte(v[i] + w[i]) \in 0 .. 255
  BY <1>1, BytesSum, Zenon
<1> QED BY <1>2, Zenon DEF VAdd

LEMMA PositionsStart ==
  ASSUME NEW v \in Vec, NEW w \in Vec
  PROVE  PositionsKnown(v, w, v, Raised(Zero, NotInFront(v, w)), 0)
<1> DEFINE t == [l \in Lane |-> v[Gathered(0)[l]]]
           r == Raised(Zero, NotInFront(v, w))
<1>1. v = t
  BY SixteenLanes DEF Gathered
<1>2. Zero \in [Lane -> 0 .. 255]
  BY DEF Zero
<1>3. r \in [Lane -> 0 .. 255]
  BY <1>2, RaisedType
<1>4. ASSUME NEW i \in Lane, NEW j \in Lane, v[i] = w[j], \A l \in Lane \ {i} : v[l] # v[i]
      PROVE  r[j] = i \div 2^(3 - 0)
  <2>1. j \in NotInFront(t, w) <=> (i \div 2^(3 - 0)) % 2 # 0
    BY <1>4, ByteInFront
  <2>2. 2^(3 - 0) = 8 /\ i \in 0 .. 15
    BY SixteenLanes
  <2>3. r[j] = IF j \in NotInFront(v, w) THEN 1 ELSE 0
    BY DEF Raised, Zero, AsByte
  <2> HIDE DEF t, r
  <2> QED BY <1>1, <2>1, <2>2, <2>3
<1> HIDE DEF r
<1>5. PositionsKnown(v, w, v, r, 0)
  BY <1>1, <1>3, <1>4 DEF PositionsKnown
<1> QED BY <1>5 DEF r

LEMMA PositionsNext ==
  ASSUME NEW v \in Vec, NEW w \in Vec, NEW t, NEW r, NEW n \in 0 .. 2,
         PositionsKnown(v, w, t, r, n)
  PROVE  LET u == Permuted(t, inverting_rounds[n + 1])
         IN  PositionsKnown(v, w, u, Raised(VAdd(r, r), NotInFront(u, w)), n + 1)
<1> DEFINE u == Permuted(t, inverting_rounds[n + 1])
           s == Raised(VAdd(r, r), NotInFront(u, w))
<1>1. /\ t = [l \in Lane |-> v[Gathered(n)[l]]]
      /\ r \in [Lane -> 0 .. 255]
      /\ \A i, j \in Lane : v[i] = w[j] /\ (\A l \in Lane \ {i} : v[l] # v[i]) =>
           r[j] = i \div 2^(3 - n)
  BY DEF PositionsKnown
<1>2. n + 1 \in 1 .. 3 /\ n + 1 \in 0 .. 3 /\ n \in 0 .. 3
  OBVIOUS
<1>3. u = [l \in Lane |-> v[Gathered(n + 1)[l]]]
  <2>1. inverting_rounds[n + 1] \in [Lane -> Lane]
    BY <1>2, InvertingRounds
  <2>2. u = [l \in Lane |-> t[inverting_rounds[n + 1][l]]]
    BY <2>1, PermutedLane
  <2>3. Gathered(n + 1) = [i \in Lane |-> Gathered(n)[inverting_rounds[n + 1][i]]]
    BY GatheredNext
  <2> HIDE DEF u
  <2> QED BY <1>1, <2>1, <2>2, <2>3
<1>4. VAdd(r, r) \in [Lane -> 0 .. 255]
  BY <1>1, VAddType
<1>5. s \in [Lane -> 0 .. 255]
  BY <1>4, RaisedType
<1>6. ASSUME NEW i \in Lane, NEW j \in Lane, v[i] = w[j], \A l \in Lane \ {i} : v[l] # v[i]
      PROVE  s[j] = i \div 2^(3 - (n + 1))
  <2>1. j \in NotInFront(u, w) <=> (i \div 2^(3 - (n + 1))) % 2 # 0
    BY <1>2, <1>3, <1>6, ByteInFront
  <2>2. r[j] = i \div 2^(3 - n) /\ r[j] \in 0 .. 255
    BY <1>1, <1>6
  <2>3. s[j] = AsByte(AsByte(r[j] + r[j]) + IF j \in NotInFront(u, w) THEN 1 ELSE 0)
    BY DEF Raised, VAdd
  <2>4. i \in 0 .. 15
    BY SixteenLanes
  <2> HIDE DEF u, s
  <2>8. \A m \in 0 .. 15 :
          /\ 2 * (m \div 8) + ((m \div 4) % 2) = m \div 4 /\ m \div 8 \in 0 .. 1 /\ (m \div 4) % 2 \in 0 .. 1
          /\ 2 * (m \div 4) + ((m \div 2) % 2) = m \div 2 /\ m \div 4 \in 0 .. 3 /\ (m \div 2) % 2 \in 0 .. 1
          /\ 2 * (m \div 2) + ((m \div 1) % 2) = m \div 1 /\ m \div 2 \in 0 .. 7 /\ (m \div 1) % 2 \in 0 .. 1
    OBVIOUS
  <2>5. CASE n = 0
    <3>1. 2^(3 - n) = 8 /\ 2^(3 - (n + 1)) = 4
      BY <2>5
    <3>2. r[j] = i \div 8 /\ (j \in NotInFront(u, w) <=> (i \div 4) % 2 # 0)
      BY <2>1, <2>2, <3>1
    <3>3. s[j] = 2 * (i \div 8) + ((i \div 4) % 2)
      BY <2>3, <2>4, <2>8, <3>2 DEF AsByte
    <3> QED BY <2>4, <2>8, <3>1, <3>3
  <2>6. CASE n = 1
    <3>1. 2^(3 - n) = 4 /\ 2^(3 - (n + 1)) = 2
      BY <2>6
    <3>2. r[j] = i \div 4 /\ (j \in NotInFront(u, w) <=> (i \div 2) % 2 # 0)
      BY <2>1, <2>2, <3>1
    <3>3. s[j] = 2 * (i \div 4) + ((i \div 2) % 2)
      BY <2>3, <2>4, <2>8, <3>2 DEF AsByte
    <3> QED BY <2>4, <2>8, <3>1, <3>3
  <2>7. CASE n = 2
    <3>1. 2^(3 - n) = 2 /\ 2^(3 - (n + 1)) = 1
      BY <2>7
    <3>2. r[j] = i \div 2 /\ (j \in NotInFront(u, w) <=> (i \div 1) % 2 # 0)
      BY <2>1, <2>2, <3>1
    <3>3. s[j] = 2 * (i \div 2) + ((i \div 1) % 2)
      BY <2>3, <2>4, <2>8, <3>2 DEF AsByte
    <3> QED BY <2>4, <2>8, <3>1, <3>3
  <2> QED BY <2>5, <2>6, <2>7
<1> HIDE DEF u, s
<1>7. PositionsKnown(v, w, u, s, n + 1)
  BY <1>3, <1>5, <1>6 DEF PositionsKnown
<1> QED BY <1>7 DEF u, s

\* The reference loop stops at the only lane that holds the byte.
LEMMA PositionOfRef ==
  ASSUME NEW v \in Vec, NEW w \in Vec, NEW i \in Lane, NEW j \in Lane,
         v[i] = w[j], \A l \in Lane \ {i} : v[l] # v[i]
  PROVE  permutation_of_ref(v, w)[j] = i
<1>0. i \in 0 .. 15 /\ Size = 16 /\ \A l \in 0 .. i - 1 : l \in Lane \ {i}
  BY LaneRange
<1> DEFINE H == {l \in 0 .. Size - 1 : v[l] = w[j]}
           Body(f) == [l \in 0 .. Size |-> IF l = Size THEN Size
                                          ELSE IF v[l] = w[j] THEN l ELSE f[l + 1]]
           F == CHOOSE f : f = Body(f)
<1>1. \A f : IsSearch(f, H, Size) <=> f = Body(f)
  <2> TAKE f
  <2>1. \A l \in 0 .. Size : l # Size => (l \in H <=> v[l] = w[j])
    BY LaneRange
  <2>2. [l \in 0 .. Size |-> IF l = Size THEN Size ELSE IF l \in H THEN l ELSE f[l + 1]] = Body(f)
    <3> HIDE DEF H
    <3> QED BY <2>1
  <2> QED BY <2>2 DEF IsSearch
<1>2. PICK f : IsSearch(f, H, Size)
  <2>1. SearchOf(H, Size)
    BY LaneRange, SearchExists
  <2> QED BY <2>1 DEF SearchOf
<1>3. F = Body(F)
  BY <1>1, <1>2
<1>4. permutation_of_ref(v, w)[j] = F[0]
  BY DEF permutation_of_ref, Upwards
<1>5. i \in 0 .. Size /\ i # Size /\ i \in H /\ \A l \in 0 .. i - 1 : l \notin H
  <2> HIDE DEF Body, F
  <2>1. i \in 0 .. Size /\ i # Size /\ i \in H
    BY <1>0
  <2>2. \A l \in 0 .. i - 1 : v[l] # w[j]
    BY <1>0
  <2> QED BY <2>1, <2>2
<1> HIDE DEF F, H
<1>6. F[0] = i
  <2>1. IsSearch(F, H, Size)
    BY <1>1, <1>3
  <2> QED BY <1>5, <2>1, SearchFinds, SixteenLanes
<1> QED BY <1>4, <1>6
-----------------------------------------------------------------------------
(***************************************************************************)
(* The prefix networks.  A lane in the upper half of its block of          *)
(* 2^(n + 1) takes what is left of its block of 2^n, the others nothing.   *)
(***************************************************************************)
Origin(n, i) == i - (i % (2^n))
Lower(n, i)  == i % (2^(n + 1)) < 2^n

LEMMA OriginNext ==
  ASSUME NEW n \in 0 .. 3, NEW i \in Lane
  PROVE  /\ Origin(n, i) \in 0 .. i
         /\ Lower(n, i) => Origin(n + 1, i) = Origin(n, i)
         /\ ~Lower(n, i) => /\ Origin(n, i) - 1 \in 0 .. i - 1
                            /\ Origin(n + 1, i) = Origin(n, Origin(n, i) - 1)
                            /\ Origin(n + 1, i) <= Origin(n, i) - 1
<1>1. i \in 0 .. 15
  BY SixteenLanes
<1>2. CASE n = 0
  <2>1. 2^n = 1 /\ 2^(n + 1) = 2
    BY <1>2
  <2> QED BY <1>1, <2>1 DEF Origin, Lower
<1>3. CASE n = 1
  <2>1. 2^n = 2 /\ 2^(n + 1) = 4
    BY <1>3
  <2> QED BY <1>1, <2>1 DEF Origin, Lower
<1>4. CASE n = 2
  <2>1. 2^n = 4 /\ 2^(n + 1) = 8
    BY <1>4
  <2> QED BY <1>1, <2>1 DEF Origin, Lower
<1>5. CASE n = 3
  <2>1. 2^n = 8 /\ 2^(n + 1) = 16
    BY <1>5
  <2> QED BY <1>1, <2>1 DEF Origin, Lower
<1> QED BY <1>2, <1>3, <1>4, <1>5

LEMMA OriginEnds ==
  ASSUME NEW i \in Lane
  PROVE  Origin(0, i) = i /\ Origin(4, i) = 0
<1>1. 2^0 = 1 /\ 2^4 = 16 /\ i \in 0 .. 15
  BY SixteenLanes
<1> QED BY <1>1 DEF Origin

\* What the tables say.
LEMMA PrefixTables ==
  ASSUME NEW n \in 0 .. 3, NEW i \in Lane
  PROVE  /\ summing_rounds[n + 1][i] = IF Lower(n, i) THEN 255 ELSE Origin(n, i) - 1
         /\ mining_rounds[n + 1][i] = IF Lower(n, i) THEN i ELSE Origin(n, i) - 1
<1>1. i \in 0 .. 15
  BY SixteenLanes
<1>2. CASE n = 0
  <2>1. 2^n = 1 /\ 2^(n + 1) = 2 /\ n + 1 = 1
    BY <1>2
  <2>2. \A m \in 0 .. 15 :
          /\ summing_rounds[1][m] = IF m % 2 < 1 THEN 255 ELSE m - (m % 1) - 1
          /\ mining_rounds[1][m] = IF m % 2 < 1 THEN m ELSE m - (m % 1) - 1
    BY DEF summing_rounds, mining_rounds, Epu8Of, FF
  <2>3. (Lower(n, i) <=> i % 2 < 1) /\ Origin(n, i) = i - (i % 1)
    BY <2>1 DEF Origin, Lower
  <2>4. /\ summing_rounds[1][i] = IF i % 2 < 1 THEN 255 ELSE i - (i % 1) - 1
        /\ mining_rounds[1][i] = IF i % 2 < 1 THEN i ELSE i - (i % 1) - 1
    BY <1>1, <2>2
  <2> QED BY <2>1, <2>3, <2>4
<1>3. CASE n = 1
  <2>1. 2^n = 2 /\ 2^(n + 1) = 4 /\ n + 1 = 2
    BY <1>3
  <2>2. \A m \in 0 .. 15 :
          /\ summing_rounds[2][m] = IF m % 4 < 2 THEN 255 ELSE m - (m % 2) - 1
          /\ mining_rounds[2][m] = IF m % 4 < 2 THEN m ELSE m - (m % 2) - 1
    BY DEF summing_rounds, mining_rounds, Epu8Of, FF
  <2>3. (Lower(n, i) <=> i % 4 < 2) /\ Origin(n, i) = i - (i % 2)
    BY <2>1 DEF Origin, Lower
  <2>4. /\ summing_rounds[2][i] = IF i % 4 < 2 THEN 255 ELSE i - (i % 2) - 1
        /\ mining_rounds[2][i] = IF i % 4 < 2 THEN i ELSE i - (i % 2) - 1
    BY <1>1, <2>2
  <2> QED BY <2>1, <2>3, <2>4
<1>4. CASE n = 2
  <2>1. 2^n = 4 /\ 2^(n + 1) = 8 /\ n + 1 = 3
    BY <1>4
  <2>2. \A m \in 0 .. 15 :
          /\ summing_rounds[3][m] = IF m % 8 < 4 THEN 255 ELSE m - (m % 4) - 1
          /\ mining_rounds[3][m] = IF m % 8 < 4 THEN m ELSE m - (m % 4) - 1
    BY DEF summing_rounds, mining_rounds, Epu8Of, FF
  <2>3. (Lower(n, i) <=> i % 8 < 4) /\ Origin(n, i) = i - (i % 4)
    BY <2>1 DEF Origin, Lower
  <2>4. /\ summing_rounds[3][i] = IF i % 8 < 4 THEN 255 ELSE i - (i % 4) - 1
        /\ mining_rounds[3][i] = IF i % 8 < 4 THEN i ELSE i - (i % 4) - 1
    BY <1>1, <2>2
  <2> QED BY <2>1, <2>3, <2>4
<1>5. CASE n = 3
  <2>1. 2^n = 8 /\ 2^(n + 1) = 16 /\ n + 1 = 4
    BY <1>5
  <2>2. \A m \in 0 .. 15 :
          /\ summing_rounds[4][m] = IF m % 16 < 8 THEN 255 ELSE m - (m % 8) - 1
          /\ mining_rounds[4][m] = IF m % 16 < 8 THEN m ELSE m - (m % 8) - 1
    BY DEF summing_rounds, mining_rounds, Epu8Of, FF
  <2>3. (Lower(n, i) <=> i % 16 < 8) /\ Origin(n, i) = i - (i % 8)
    BY <2>1 DEF Origin, Lower
  <2>4. /\ summing_rounds[4][i] = IF i % 16 < 8 THEN 255 ELSE i - (i % 8) - 1
        /\ mining_rounds[4][i] = IF i % 16 < 8 THEN i ELSE i - (i % 8) - 1
    BY <1>1, <2>2
  <2> QED BY <2>1, <2>3, <2>4
<1> QED BY <1>2, <1>3, <1>4, <1>5

LEMMA PrefixTaken ==
  ASSUME NEW n \in 0 .. 3, NEW i \in Lane, NEW t \in Vec
  PROVE  /\ Permuted(t, summing_rounds[n + 1])[i]
              = IF Lower(n, i) THEN 0 ELSE t[Origin(n, i) - 1]
         /\ Permuted(t, mining_rounds[n + 1])[i]
              = IF Lower(n, i) THEN t[i] ELSE t[Origin(n, i) - 1]
<1>1. ~Lower(n, i) => Origin(n, i) - 1 \in Lane
  BY OriginNext, SixteenLanes
<1>2. ~(255 \in Lane)
  BY SixteenLanes
<1> QED BY <1>1, <1>2, PrefixTables DEF Permuted

LEMMA BlockNext ==
  ASSUME NEW n \in 0 .. 3, NEW i \in Lane
  PROVE  /\ Block(n, i) \subseteq Lane
         /\ Lower(n, i) => Block(n + 1, i) = Block(n, i)
         /\ ~Lower(n, i) => /\ Origin(n, i) - 1 \in Lane
                            /\ Block(n + 1, i) = Block(n, Origin(n, i) - 1) \cup Block(n, i)
<1>1. \A m, j : Block(m, j) = Origin(m, j) .. j
  BY DEF Block, Origin
<1>2. i \in 0 .. 15
  BY SixteenLanes
<1>3. Lower(n, i) => Block(n + 1, i) = Block(n, i)
  BY <1>1, OriginNext
<1>4. ASSUME ~Lower(n, i)
      PROVE  Block(n + 1, i) = Block(n, Origin(n, i) - 1) \cup Block(n, i)
  <2> DEFINE o == Origin(n, i)
             q == Origin(n + 1, i)
  <2>1. o \in 0 .. i /\ o - 1 \in 0 .. i - 1 /\ q = Origin(n, o - 1) /\ q <= o - 1 /\ q \in Int
    <3>1. Origin(n, o - 1) \in Int
      <4>1. o - 1 \in Lane
        BY <1>2, <1>4, OriginNext, SixteenLanes
      <4> QED BY <4>1, OriginNext
    <3> QED BY <1>4, <3>1, OriginNext
  <2>2. Block(n + 1, i) = q .. i /\ Block(n, o - 1) = q .. o - 1 /\ Block(n, i) = o .. i
    BY <1>1, <2>1
  <2> HIDE DEF o, q
  <2>3. q .. i = (q .. o - 1) \cup (o .. i)
    BY <1>2, <2>1
  <2> QED BY <2>2, <2>3 DEF o
<1>5. ~Lower(n, i) => Origin(n, i) - 1 \in Lane
  BY <1>2, OriginNext, SixteenLanes
<1>6. Block(n, i) \subseteq Lane
  <2>1. Origin(n, i) \in 0 .. i /\ Block(n, i) = Origin(n, i) .. i
    BY <1>1, OriginNext
  <2> QED BY <1>2, <2>1, LaneRange
<1> QED BY <1>3, <1>4, <1>5, <1>6

LEMMA BlockEnds ==
  ASSUME NEW i \in Lane
  PROVE  Block(0, i) = {i} /\ Block(4, i) = 0 .. i
<1>1. Origin(0, i) = i /\ Origin(4, i) = 0 /\ i \in 0 .. 15
  BY OriginEnds, SixteenLanes
<1>2. Block(0, i) = Origin(0, i) .. i /\ Block(4, i) = Origin(4, i) .. i
  BY DEF Block, Origin
<1> QED BY <1>1, <1>2
(***************************************************************************)
(* Maxima and minima: after n rounds a lane holds one of the bytes of its  *)
(* block, and none of them is larger (smaller).                            *)
(***************************************************************************)
BlockMax(v, t, n) ==
  /\ t \in Vec
  /\ \A i \in Lane : /\ \E j \in Block(n, i) : t[i] = v[j]
                     /\ \A j \in Block(n, i) : v[j] <= t[i]
BlockMin(v, t, n) ==
  /\ t \in Vec
  /\ \A i \in Lane : /\ \E j \in Block(n, i) : t[i] = v[j]
                     /\ \A j \in Block(n, i) : t[i] <= v[j]

LEMMA BlockExtremaStart ==
  ASSUME NEW v \in Vec
  PROVE  BlockMax(v, v, 0) /\ BlockMin(v, v, 0)
<1>1. \A i \in Lane : Block(0, i) = {i} /\ v[i] \in 0 .. 255
  BY BlockEnds, SixteenLanes
<1> QED BY <1>1 DEF BlockMax, BlockMin

LEMMA BlockMaxNext ==
  ASSUME NEW v \in Vec, NEW n \in 0 .. 3, NEW t, BlockMax(v, t, n)
  PROVE  BlockMax(v, VMax(t, Permuted(t, summing_rounds[n + 1])), n + 1)
<1> DEFINE w == Permuted(t, summing_rounds[n + 1])
           u == VMax(t, w)
<1>1. t \in Vec
  BY DEF BlockMax
<1>2. ASSUME NEW i \in Lane
      PROVE  /\ u[i] \in 0 .. 255
             /\ \E j \in Block(n + 1, i) : u[i] = v[j]
             /\ \A j \in Block(n + 1, i) : v[j] <= u[i]
  <2> DEFINE o == Origin(n, i) - 1
  <2>1. t[i] \in 0 .. 255 /\ \A j \in Lane : v[j] \in 0 .. 255 /\ t[j] \in 0 .. 255
    BY <1>1, SixteenLanes
  <2>2. u[i] = IF t[i] <= w[i] THEN w[i] ELSE t[i]
    BY DEF VMax
  <2>3. w[i] = IF Lower(n, i) THEN 0 ELSE t[o]
    BY <1>1, PrefixTaken
  <2>4. /\ Block(n, i) \subseteq Lane
        /\ \E j \in Block(n, i) : t[i] = v[j]
        /\ \A j \in Block(n, i) : v[j] <= t[i]
    BY BlockNext DEF BlockMax
  <2>5. CASE Lower(n, i)
    <3>1. Block(n + 1, i) = Block(n, i) /\ u[i] = t[i]
      <4>1. Block(n + 1, i) = Block(n, i)
        BY <2>5, BlockNext
      <4> QED BY <2>1, <2>2, <2>3, <2>5, <4>1
    <3> QED BY <2>1, <2>4, <3>1
  <2>6. CASE ~Lower(n, i)
    <3>1. o \in Lane /\ Block(n + 1, i) = Block(n, o) \cup Block(n, i)
      BY <2>6, BlockNext
    <3> HIDE DEF o, u, w
    <3>2. /\ Block(n, o) \subseteq Lane
          /\ \E j \in Block(n, o) : t[o] = v[j]
          /\ \A j \in Block(n, o) : v[j] <= t[o]
      BY <3>1, BlockNext DEF BlockMax
    <3>3. u[i] = (IF t[i] <= t[o] THEN t[o] ELSE t[i]) /\ t[i] <= u[i] /\ t[o] <= u[i]
          /\ u[i] \in 0 .. 255
      <4>1. t[o] \in 0 .. 255 /\ w[i] = t[o]
        BY <2>1, <2>3, <2>6, <3>1, Zenon
      <4>2. t[i] \in 0 .. 255
        BY <2>1
      <4>3. u[i] = (IF t[i] <= t[o] THEN t[o] ELSE t[i])
        BY <2>2, <4>1
      <4>4. \A p, q \in 0 .. 255 : LET r == IF p <= q THEN q ELSE p IN p <= r /\ q <= r /\ r \in 0 .. 255
        OBVIOUS
      <4> QED BY <4>1, <4>2, <4>3, <4>4
    <3>4. \E j \in Block(n + 1, i) : u[i] = v[j]
      BY <2>4, <3>1, <3>2, <3>3
    <3>5. ASSUME NEW j \in Block(n + 1, i)
          PROVE  v[j] <= u[i]
      <4>1. j \in Lane /\ v[j] \in Int /\ t[i] \in Int /\ t[o] \in Int /\ u[i] \in Int
        BY <2>1, <2>4, <3>1, <3>2, <3>3
      <4> QED BY <2>4, <3>1, <3>2, <3>3, <4>1
    <3> QED BY <3>3, <3>4, <3>5
  <2> QED BY <2>5, <2>6
<1>3. u = [i \in Lane |-> u[i]]
  BY DEF VMax
<1> HIDE DEF u
<1>4. u \in Vec
  BY <1>2, <1>3, FormsVec
<1>5. BlockMax(v, u, n + 1)
  BY <1>2, <1>4 DEF BlockMax
<1> QED BY <1>5 DEF u

LEMMA BlockMinNext ==
  ASSUME NEW v \in Vec, NEW n \in 0 .. 3, NEW t, BlockMin(v, t, n)
  PROVE  BlockMin(v, VMin(t, Permuted(t, mining_rounds[n + 1])), n + 1)
<1> DEFINE w == Permuted(t, mining_rounds[n + 1])
           u == VMin(t, w)
<1>1. t \in Vec
  BY DEF BlockMin
<1>2. ASSUME NEW i \in Lane
      PROVE  /\ u[i] \in 0 .. 255
             /\ \E j \in Block(n + 1, i) : u[i] = v[j]
             /\ \A j \in Block(n + 1, i) : u[i] <= v[j]
  <2> DEFINE o == Origin(n, i) - 1
  <2>1. t[i] \in 0 .. 255 /\ \A j \in Lane : v[j] \in 0 .. 255 /\ t[j] \in 0 .. 255
    BY <1>1, SixteenLanes
  <2>2. u[i] = IF t[i] <= w[i] THEN t[i] ELSE w[i]
    BY DEF VMin
  <2>3. w[i] = IF Lower(n, i) THEN t[i] ELSE t[o]
    BY <1>1, PrefixTaken
  <2>4. /\ Block(n, i) \subseteq Lane
        /\ \E j \in Block(n, i) : t[i] = v[j]
        /\ \A j \in Block(n, i) : t[i] <= v[j]
    BY BlockNext DEF BlockMin
  <2>5. CASE Lower(n, i)
    <3>1. Block(n + 1, i) = Block(n, i) /\ u[i] = t[i]
      <4>1. Block(n + 1, i) = Block(n, i)
        BY <2>5, BlockNext
      <4> QED BY <2>1, <2>2, <2>3, <2>5, <4>1
    <3> QED BY <2>1, <2>4, <3>1
  <2>6. CASE ~Lower(n, i)
    <3>1. o \in Lane /\ Block(n + 1, i) = Block(n, o) \cup Block(n, i)
      BY <2>6, BlockNext
    <3> HIDE DEF o, u, w
    <3>2. /\ Block(n, o) \subseteq Lane
          /\ \E j \in Block(n, o) : t[o] = v[j]
          /\ \A j \in Block(n, o) : t[o] <= v[j]
      BY <3>1, BlockNext DEF BlockMin
    <3>3. u[i] = (IF t[i] <= t[o] THEN t[i] ELSE t[o]) /\ u[i] <= t[i] /\ u[i] <= t[o]
          /\ u[i] \in 0 .. 255
      <4>1. t[o] \in 0 .. 255 /\ w[i] = t[o]
        BY <2>1, <2>3, <2>6, <3>1, Zenon
      <4>2. t[i] \in 0 .. 255
        BY <2>1
      <4>3. u[i] = (IF t[i] <= t[o] THEN t[i] ELSE t[o])
        BY <2>2, <4>1
      <4>4. \A p, q \in 0 .. 255 : LET r == IF p <= q THEN p ELSE q IN r <= p /\ r <= q /\ r \in 0 .. 255
        OBVIOUS
      <4> QED BY <4>1, <4>2, <4>3, <4>4
    <3>4. \E j \in Block(n + 1, i) : u[i] = v[j]
      BY <2>4, <3>1, <3>2, <3>3
    <3>5. ASSUME NEW j \in Block(n + 1, i)
          PROVE  u[i] <= v[j]
      <4>1. j \in Lane /\ v[j] \in Int /\ t[i] \in Int /\ t[o] \in Int /\ u[i] \in Int
        BY <2>1, <2>4, <3>1, <3>2, <3>3
      <4> QED BY <2>4, <3>1, <3>2, <3>3, <4>1
    <3> QED BY <3>3, <3>4, <3>5
  <2> QED BY <2>5, <2>6
<1>3. u = [i \in Lane |-> u[i]]
  BY DEF VMin
<1> HIDE DEF u
<1>4. u \in Vec
  BY <1>2, <1>3, FormsVec
<1>5. BlockMin(v, u, n + 1)
  BY <1>2, <1>4 DEF BlockMin
<1> QED BY <1>5 DEF u

\* As sets.
LEMMA BlockExtrema ==
  ASSUME NEW v \in Vec, NEW n \in 0 .. 4, NEW t, NEW i \in Lane
  PROVE  /\ BlockMax(v, t, n) => t[i] = Max({v[j] : j \in Block(n, i)})
         /\ BlockMin(v, t, n) => t[i] = Min({v[j] : j \in Block(n, i)})
<1> DEFINE S == {v[j] : j \in Block(n, i)}
<1>1. Block(n, i) \subseteq Lane
  <2>1. CASE n = 4
    BY <2>1, BlockEnds, SixteenLanes
  <2>2. CASE n # 4
    <3>1. n \in 0 .. 3
      BY <2>2
    <3> QED BY <3>1, BlockNext
  <2> QED BY <2>1, <2>2
<1>2. S \in SUBSET Int
  BY <1>1, SixteenLanes
<1>3. ASSUME BlockMax(v, t, n)
      PROVE  t[i] = Max(S)
  <2>1. t[i] \in S /\ \A m \in S : m <= t[i]
    BY <1>3 DEF BlockMax
  <2> HIDE DEF S
  <2> QED BY <1>2, <2>1, MaxIs
<1>4. ASSUME BlockMin(v, t, n)
      PROVE  t[i] = Min(S)
  <2>1. t[i] \in S /\ \A m \in S : t[i] <= m
    BY <1>4 DEF BlockMin
  <2> HIDE DEF S
  <2> QED BY <1>2, <2>1, MinIs
<1> QED BY <1>3, <1>4
\* Two runs with the same start and the same steps are the same.
LEMMA SameRun ==
  ASSUME NEW r, NEW t, r[0] = t[0],
         \A i \in 1 .. 15 : r[i - 1] = t[i - 1] => r[i] = t[i]
  PROVE  \A i \in 0 .. 15 : r[i] = t[i]
<1> DEFINE Same == {i \in Nat : i <= 15 => r[i] = t[i]}
<1>1. 0 \in Same
  OBVIOUS
<1>2. ASSUME NEW i \in Nat, i \in Same
      PROVE  i + 1 \in Same
  <2>1. SUFFICES ASSUME i + 1 <= 15 PROVE r[i + 1] = t[i + 1]
    OBVIOUS
  <2>2. i + 1 \in 1 .. 15 /\ (i + 1) - 1 = i /\ i <= 15
    BY <2>1
  <2> QED BY <1>2, <2>2
<1> HIDE DEF Same
<1>3. \A i \in Nat : i \in Same
  BY <1>1, <1>2, NatSetInduction
<1> QED BY <1>3 DEF Same

\* After four rounds they are the loops' maxima and minima.
LEMMA MaxGrows ==
  ASSUME NEW v \in Vec, NEW t, BlockMax(v, t, 4), NEW i \in Lane
  PROVE  t[i] = IF i = 0 THEN v[0] ELSE Max2(t[i - 1], v[i])
<1>1. /\ t \in Vec
      /\ \A m \in Lane : /\ \E j \in 0 .. m : t[m] = v[j]
                         /\ \A j \in 0 .. m : v[j] <= t[m]
  BY BlockEnds DEF BlockMax
<1>2. \A m \in 0 .. 15 : t[m] \in Int /\ v[m] \in Int
  BY <1>1, ByteOfLane
<1>3. CASE i = 0
  BY <1>1, <1>3
<1>4. CASE i # 0
  <2>1. /\ i \in 0 .. 15 /\ i - 1 \in 0 .. 15 /\ i - 1 \in Lane
        /\ \A j \in 0 .. i : j \in 0 .. i - 1 \/ j = i
        /\ \A j \in 0 .. i - 1 : j \in 0 .. i
        /\ i - 1 \in 0 .. i /\ i \in 0 .. i
    BY <1>4, SixteenLanes
  <2>2. PICK j \in 0 .. i : t[i] = v[j]
    BY <1>1
  <2>3. PICK l \in 0 .. i - 1 : t[i - 1] = v[l]
    BY <1>1, <2>1
  <2>4. \A m \in 0 .. i : v[m] <= t[i]
    BY <1>1
  <2>5. \A m \in 0 .. i - 1 : v[m] <= t[i - 1]
    BY <1>1, <2>1
  <2>6. v[i] <= t[i] /\ t[i - 1] <= t[i]
    BY <2>1, <2>3, <2>4
  <2>7. j = i \/ v[j] <= t[i - 1]
    BY <2>1, <2>2, <2>5
  <2>8. t[i] \in Int /\ t[i - 1] \in Int /\ v[i] \in Int /\ v[j] \in Int
    <3>1. j \in 0 .. 15
      BY <2>1
    <3> QED BY <1>2, <2>1, <3>1
  <2>9. t[i] = Max2(t[i - 1], v[i])
    BY <2>2, <2>6, <2>7, <2>8 DEF Max2
  <2> QED BY <1>4, <2>9
<1> QED BY <1>3, <1>4

LEMMA RunningMax2 ==
  ASSUME NEW v \in Vec, NEW t, BlockMax(v, t, 4)
  PROVE  partial_max_ref(v) = t
<1> DEFINE Body(r) == [i \in Lane |-> IF i = 0 THEN v[0] ELSE Max2(r[i - 1], v[i])]
           F == CHOOSE r : r = Body(r)
<1>1. /\ t \in Vec
      /\ \A i \in Lane : /\ \E j \in 0 .. i : t[i] = v[j]
                         /\ \A j \in 0 .. i : v[j] <= t[i]
  BY BlockEnds DEF BlockMax
<1>2. \A i \in 0 .. 15 : t[i] \in Int /\ v[i] \in Int
  BY <1>1, ByteOfLane
<1>3. \A i \in Lane : t[i] = IF i = 0 THEN v[0] ELSE Max2(t[i - 1], v[i])
  BY MaxGrows
<1>4. t = [i \in Lane |-> t[i]]
  BY <1>1 DEF Vec
<1>5. t = Body(t)
  BY <1>3, <1>4
<1>6. F = Body(F)
  BY <1>5
<1> HIDE DEF F
<1>7. F[0] = v[0] /\ t[0] = v[0]
  BY <1>5, <1>6, SixteenLanes
<1>8. \A i \in 1 .. 15 : F[i - 1] = t[i - 1] => F[i] = t[i]
  <2>1. \A i \in 1 .. 15 : i \in Lane /\ i # 0
    BY SixteenLanes
  <2>2. \A i \in 1 .. 15 : F[i] = Max2(F[i - 1], v[i]) /\ t[i] = Max2(t[i - 1], v[i])
    BY <1>5, <1>6, <2>1
  <2> QED BY <2>2
<1>9. \A i \in Lane : F[i] = t[i]
  <2>1. F[0] = t[0]
    BY <1>7
  <2>2. \A i \in 0 .. 15 : F[i] = t[i]
    BY <1>8, <2>1, SameRun
  <2> QED BY <2>2, SixteenLanes
<1>10. F = t
  <2>1. F = [i \in Lane |-> F[i]]
    BY <1>6
  <2> QED BY <1>4, <1>9, <2>1
<1> QED BY <1>10 DEF F, partial_max_ref, Running

LEMMA MinFalls ==
  ASSUME NEW v \in Vec, NEW t, BlockMin(v, t, 4), NEW i \in Lane
  PROVE  t[i] = IF i = 0 THEN v[0] ELSE Min2(t[i - 1], v[i])
<1>1. /\ t \in Vec
      /\ \A m \in Lane : /\ \E j \in 0 .. m : t[m] = v[j]
                         /\ \A j \in 0 .. m : t[m] <= v[j]
  BY BlockEnds DEF BlockMin
<1>2. \A m \in 0 .. 15 : t[m] \in Int /\ v[m] \in Int
  BY <1>1, ByteOfLane
<1>3. CASE i = 0
  BY <1>1, <1>3
<1>4. CASE i # 0
  <2>1. /\ i \in 0 .. 15 /\ i - 1 \in 0 .. 15 /\ i - 1 \in Lane
        /\ \A j \in 0 .. i : j \in 0 .. i - 1 \/ j = i
        /\ \A j \in 0 .. i - 1 : j \in 0 .. i
        /\ i - 1 \in 0 .. i /\ i \in 0 .. i
    BY <1>4, SixteenLanes
  <2>2. PICK j \in 0 .. i : t[i] = v[j]
    BY <1>1
  <2>3. PICK l \in 0 .. i - 1 : t[i - 1] = v[l]
    BY <1>1, <2>1
  <2>4. \A m \in 0 .. i : t[i] <= v[m]
    BY <1>1
  <2>5. \A m \in 0 .. i - 1 : t[i - 1] <= v[m]
    BY <1>1, <2>1
  <2>6. t[i] <= v[i] /\ t[i] <= t[i - 1]
    BY <2>1, <2>3, <2>4
  <2>7. j = i \/ t[i - 1] <= v[j]
    BY <2>1, <2>2, <2>5
  <2>8. t[i] \in Int /\ t[i - 1] \in Int /\ v[i] \in Int /\ v[j] \in Int
    <3>1. j \in 0 .. 15
      BY <2>1
    <3> QED BY <1>2, <2>1, <3>1
  <2>9. t[i] = Min2(t[i - 1], v[i])
    BY <2>2, <2>6, <2>7, <2>8 DEF Min2
  <2> QED BY <1>4, <2>9
<1> QED BY <1>3, <1>4

LEMMA RunningMin2 ==
  ASSUME NEW v \in Vec, NEW t, BlockMin(v, t, 4)
  PROVE  partial_min_ref(v) = t
<1> DEFINE Body(r) == [i \in Lane |-> IF i = 0 THEN v[0] ELSE Min2(r[i - 1], v[i])]
           F == CHOOSE r : r = Body(r)
<1>1. /\ t \in Vec
      /\ \A i \in Lane : /\ \E j \in 0 .. i : t[i] = v[j]
                         /\ \A j \in 0 .. i : t[i] <= v[j]
  BY BlockEnds DEF BlockMin
<1>2. \A i \in 0 .. 15 : t[i] \in Int /\ v[i] \in Int
  BY <1>1, ByteOfLane
<1>3. \A i \in Lane : t[i] = IF i = 0 THEN v[0] ELSE Min2(t[i - 1], v[i])
  BY MinFalls
<1>4. t = [i \in Lane |-> t[i]]
  BY <1>1 DEF Vec
<1>5. t = Body(t)
  BY <1>3, <1>4
<1>6. F = Body(F)
  BY <1>5
<1> HIDE DEF F
<1>7. F[0] = v[0] /\ t[0] = v[0]
  BY <1>5, <1>6, SixteenLanes
<1>8. \A i \in 1 .. 15 : F[i - 1] = t[i - 1] => F[i] = t[i]
  <2>1. \A i \in 1 .. 15 : i \in Lane /\ i # 0
    BY SixteenLanes
  <2>2. \A i \in 1 .. 15 : F[i] = Min2(F[i - 1], v[i]) /\ t[i] = Min2(t[i - 1], v[i])
    BY <1>5, <1>6, <2>1
  <2> QED BY <2>2
<1>9. \A i \in Lane : F[i] = t[i]
  <2>1. F[0] = t[0]
    BY <1>7
  <2>2. \A i \in 0 .. 15 : F[i] = t[i]
    BY <1>8, <2>1, SameRun
  <2> QED BY <2>2, SixteenLanes
<1>10. F = t
  <2>1. F = [i \in Lane |-> F[i]]
    BY <1>6
  <2> QED BY <1>4, <1>9, <2>1
<1> QED BY <1>10 DEF F, partial_min_ref, Running

(***************************************************************************)
(* Sums wrap, so that the sum of a block is a difference of running sums.  *)
(***************************************************************************)
LEMMA BytesAdd ==
  ASSUME NEW p \in Int, NEW q \in Int
  PROVE  /\ AsByte(AsByte(p) + q) = AsByte(p + q)
         /\ AsByte(p + AsByte(q)) = AsByte(p + q)
         /\ AsByte(AsByte(p) - q) = AsByte(p - q)
BY DEF AsByte

LEMMA SumsFacts ==
  ASSUME NEW v \in Vec
  PROVE  /\ partial_sums_ref(v) \in Vec
         /\ partial_sums_ref(v)[0] = v[0]
         /\ \A i \in 1 .. 15 :
              partial_sums_ref(v)[i] = AsByte(partial_sums_ref(v)[i - 1] + v[i])
<1>0. \A m \in 1 .. 15 : m \in 0 .. 15 /\ m # 0
  OBVIOUS
<1> DEFINE Body(r) == [i \in Lane |-> IF i = 0 THEN v[0] ELSE Sum2(r[i - 1], v[i])]
           F == CHOOSE r : r = Body(r)
           step == [m \in 0 .. 15 |-> [n \in 0 .. 255 |-> Sum2(n, v[m])]]
<1>1. PICK h : IsRun(h, step, v[0], 15)
  <2> HIDE DEF step
  <2>1. RunOf(step, v[0], 15)
    BY RunExists
  <2> QED BY <2>1 DEF RunOf
<1>2. h[0] = v[0] /\ \A m \in 1 .. 15 : h[m] = step[m][h[m - 1]]
  <2> HIDE DEF step
  <2> QED BY <1>0, <1>1 DEF IsRun
<1>3. \A m \in 1 .. 15 : h[m - 1] \in 0 .. 255 => h[m] = AsByte(h[m - 1] + v[m])
  <2>1. ASSUME NEW m \in 1 .. 15, h[m - 1] \in 0 .. 255
        PROVE  h[m] = AsByte(h[m - 1] + v[m])
    <3>1. m \in 0 .. 15
      BY <1>0
    <3>2. step[m] = [n \in 0 .. 255 |-> Sum2(n, v[m])]
      BY <3>1, Zenon
    <3> HIDE DEF step
    <3>3. h[m] = step[m][h[m - 1]]
      BY <1>2
    <3>4. h[m] = Sum2(h[m - 1], v[m])
      BY <2>1, <3>2, <3>3
    <3> QED BY <3>4 DEF Sum2
  <2> QED BY <2>1
<1> HIDE DEF step
<1> DEFINE Bytes0 == {m \in Nat : m <= 15 => h[m] \in 0 .. 255}
<1>4. \A m \in Nat : m \in Bytes0
  <2>1. 0 \in Bytes0
    <3>1. 0 \in 0 .. 15
      OBVIOUS
    <3>2. v[0] \in 0 .. 255
      BY <3>1, ByteOfLane
    <3> QED BY <1>2, <3>2
  <2>2. ASSUME NEW m \in Nat, m \in Bytes0
        PROVE  m + 1 \in Bytes0
    <3>1. SUFFICES ASSUME m + 1 <= 15 PROVE h[m + 1] \in 0 .. 255
      OBVIOUS
    <3>2. m + 1 \in 1 .. 15 /\ m + 1 \in 0 .. 15 /\ (m + 1) - 1 = m /\ h[m] \in 0 .. 255
      BY <2>2, <3>1
    <3>3. h[m + 1] = AsByte(h[m] + v[m + 1])
      BY <1>3, <3>2
    <3>4. v[m + 1] \in Int /\ h[m] \in Int
      BY <3>2, ByteOfLane
    <3> QED BY <3>3, <3>4, BytesType
  <2> HIDE DEF Bytes0
  <2> QED BY <2>1, <2>2, NatSetInduction
<1>5. \A m \in 0 .. 15 : h[m] \in 0 .. 255
  BY <1>4
<1>6. \A m \in 1 .. 15 : h[m] = AsByte(h[m - 1] + v[m])
  <2>1. \A m \in 1 .. 15 : m - 1 \in 0 .. 15
    OBVIOUS
  <2> QED BY <1>3, <1>5, <2>1
<1>7. h = Body(h)
  <2>1. h = [i \in Lane |-> h[i]]
    BY <1>1, SixteenLanes DEF IsRun
  <2>2. \A i \in Lane : i = 0 \/ i \in 1 .. 15
    BY SixteenLanes
  <2>3. \A i \in Lane : h[i] = IF i = 0 THEN v[0] ELSE Sum2(h[i - 1], v[i])
    BY <1>2, <1>6, <2>2 DEF Sum2
  <2> QED BY <2>1, <2>3
<1>8. F = Body(F)
  BY <1>7
<1> HIDE DEF F
<1>9. \A i \in 1 .. 15 : F[i - 1] = h[i - 1] => F[i] = h[i]
  <2>1. \A i \in 1 .. 15 : i \in Lane /\ i # 0
    BY SixteenLanes
  <2> QED BY <1>7, <1>8, <2>1
<1>10. F = h
  <2>1. F[0] = h[0]
    <3>1. 0 \in Lane
      BY SixteenLanes
    <3> QED BY <1>2, <1>8, <3>1
  <2>2. \A i \in 0 .. 15 : F[i] = h[i]
    BY <1>9, <2>1, SameRun
  <2>3. F = [i \in Lane |-> F[i]] /\ h = [i \in Lane |-> h[i]]
    BY <1>7, <1>8
  <2> QED BY <2>2, <2>3, LaneRange
<1>11. h \in Vec
  <2>1. h = [i \in Lane |-> h[i]]
    BY <1>7
  <2>2. \A i \in Lane : h[i] \in 0 .. 255
    BY <1>5, LaneRange
  <2> QED BY <2>1, <2>2, FormsVec
<1>12. partial_sums_ref(v) = F
  BY DEF partial_sums_ref, Running, F
<1> QED BY <1>2, <1>6, <1>10, <1>11, <1>12

\* The sum before lane o.
Ahead(v, o) == IF o = 0 THEN 0 ELSE partial_sums_ref(v)[o - 1]

LEMMA SumsSplit ==
  ASSUME NEW v \in Vec, NEW lo \in 0 .. 15, NEW hi \in lo .. 15, NEW w,
         w = [j \in Lane |-> IF j \in lo .. hi THEN v[j] ELSE 0]
  PROVE  partial_sums_ref(w)[hi] = AsByte(partial_sums_ref(v)[hi] - Ahead(v, lo))
<1> DEFINE S == partial_sums_ref(v)
           T == partial_sums_ref(w)
           D == Ahead(v, lo)
           Good == {i \in Nat : i <= hi => T[i] = IF i < lo THEN 0 ELSE AsByte(S[i] - D)}
<1>1. w \in Vec
  BY SixteenLanes
<1>2. /\ \A i \in 0 .. 15 : S[i] \in Int /\ T[i] \in Int /\ v[i] \in 0 .. 255
      /\ S[0] = v[0] /\ T[0] = w[0]
      /\ \A i \in 1 .. 15 : S[i] = AsByte(S[i - 1] + v[i]) /\ T[i] = AsByte(T[i - 1] + w[i])
  <2>1. S \in Vec /\ T \in Vec
    BY <1>1, SumsFacts
  <2>2. \A i \in 0 .. 15 : S[i] \in Int /\ T[i] \in Int /\ v[i] \in 0 .. 255
    <3> HIDE DEF S, T
    <3> QED BY <2>1, ByteOfLane
  <2> QED BY <1>1, <2>2, SumsFacts
<1>3. D = IF lo = 0 THEN 0 ELSE S[lo - 1]
  BY DEF Ahead
<1>4. \A i \in 0 .. hi : w[i] = IF i < lo THEN 0 ELSE v[i]
  <2>1. \A i \in 0 .. hi : i \in Lane /\ (i \in lo .. hi <=> ~(i < lo))
    BY SixteenLanes
  <2> QED BY <2>1
<1> HIDE DEF S, T, D
<1>5. D \in Int
  BY <1>2, <1>3
<1>6. 0 \in Good
  <2>1. T[0] = IF 0 < lo THEN 0 ELSE v[0]
    BY <1>2, <1>4
  <2>2. ~(0 < lo) => D = 0
    BY <1>3
  <2>3. v[0] = AsByte(v[0] - 0)
    <3>1. v[0] \in 0 .. 255
      BY <1>2
    <3>2. \A m \in 0 .. 255 : (m - 0) % 256 = m
      OBVIOUS
    <3> QED BY <3>1, <3>2 DEF AsByte
  <2> QED BY <1>2, <2>1, <2>2, <2>3
<1>7. ASSUME NEW i \in Nat, i \in Good
      PROVE  i + 1 \in Good
  <2>1. SUFFICES ASSUME i + 1 <= hi
                 PROVE  T[i + 1] = IF i + 1 < lo THEN 0 ELSE AsByte(S[i + 1] - D)
    OBVIOUS
  <2>2. i \in 0 .. 15 /\ i + 1 \in 1 .. 15 /\ (i + 1) - 1 = i /\ i <= hi /\ i + 1 \in 0 .. hi
        /\ i + 1 \in 0 .. 15
    BY <2>1
  <2>3. T[i] = IF i < lo THEN 0 ELSE AsByte(S[i] - D)
    BY <1>7, <2>2
  <2>4. T[i + 1] = AsByte(T[i] + w[i + 1]) /\ S[i + 1] = AsByte(S[i] + v[i + 1])
    BY <1>2, <2>2
  <2>5. w[i + 1] = (IF i + 1 < lo THEN 0 ELSE v[i + 1]) /\ v[i + 1] \in 0 .. 255
        /\ S[i] \in Int
    BY <1>2, <1>4, <2>2
  <2>9. v[i + 1] \in Int /\ S[i] - D \in Int /\ S[i] + v[i + 1] \in Int
    BY <1>5, <2>5
  <2>6. CASE i + 1 < lo
    BY <2>3, <2>4, <2>5, <2>6 DEF AsByte
  <2>7. CASE i + 1 = lo
    <3>1. lo - 1 = i /\ lo # 0
      BY <2>7
    <3>2. D = S[i] /\ T[i] = 0
      BY <1>3, <2>3, <2>7, <3>1
    <3>3. T[i + 1] = AsByte(v[i + 1])
      BY <2>4, <2>5, <2>7, <3>2
    <3>4. AsByte(S[i + 1] - D) = AsByte((S[i] + v[i + 1]) - S[i])
      <4>1. AsByte(AsByte(S[i] + v[i + 1]) - S[i]) = AsByte((S[i] + v[i + 1]) - S[i])
        BY <2>5, <2>9, BytesAdd
      <4> QED BY <2>4, <3>2, <4>1
    <3>5. (S[i] + v[i + 1]) - S[i] = v[i + 1] /\ ~(i + 1 < lo)
      BY <2>5, <2>7, <2>9
    <3> QED BY <3>3, <3>4, <3>5
  <2>8. CASE i + 1 > lo
    <3>1. T[i] = AsByte(S[i] - D) /\ w[i + 1] = v[i + 1]
      BY <2>3, <2>5, <2>8
    <3>2. AsByte(AsByte(S[i] - D) + v[i + 1]) = AsByte((S[i] - D) + v[i + 1])
      BY <1>5, <2>5, <2>9, BytesAdd
    <3>3. AsByte(AsByte(S[i] + v[i + 1]) - D) = AsByte((S[i] + v[i + 1]) - D)
      BY <1>5, <2>5, <2>9, BytesAdd
    <3>4. (S[i] - D) + v[i + 1] = (S[i] + v[i + 1]) - D
      BY <1>5, <2>5
    <3> QED BY <2>4, <2>8, <3>1, <3>2, <3>3, <3>4
  <2> QED BY <2>2, <2>6, <2>7, <2>8
<1> HIDE DEF Good
<1>8. \A i \in Nat : i \in Good
  BY <1>6, <1>7, NatSetInduction
<1>9. T[hi] = AsByte(S[hi] - D)
  BY <1>8 DEF Good
<1> QED BY <1>9 DEF S, T, D
LEMMA OriginType ==
  ASSUME NEW n \in 0 .. 4, NEW i \in Lane
  PROVE  Origin(n, i) \in 0 .. i
<1>1. CASE n = 4
  <2>1. Origin(n, i) = 0 /\ i \in 0 .. 15
    BY <1>1, OriginEnds, SixteenLanes
  <2> QED BY <2>1
<1>2. CASE n # 4
  <2>1. n \in 0 .. 3
    BY <1>2
  <2> QED BY <2>1, OriginNext
<1> QED BY <1>1, <1>2

LEMMA AheadType ==
  ASSUME NEW v \in Vec, NEW o \in 0 .. 15
  PROVE  Ahead(v, o) \in Int
<1>1. partial_sums_ref(v) \in Vec
  BY SumsFacts
<1>2. o # 0 => o - 1 \in 0 .. 15
  OBVIOUS
<1>3. o # 0 => partial_sums_ref(v)[o - 1] \in Int
  BY <1>1, <1>2, ByteOfLane
<1> QED BY <1>3 DEF Ahead

BlockSum(v, t, n) ==
  /\ t \in Vec
  /\ \A i \in Lane : t[i] = AsByte(partial_sums_ref(v)[i] - Ahead(v, Origin(n, i)))

LEMMA BlockSumStart ==
  ASSUME NEW v \in Vec
  PROVE  BlockSum(v, v, 0)
<1> DEFINE S == partial_sums_ref(v)
<1>1. S \in Vec /\ S[0] = v[0] /\ \A i \in 1 .. 15 : S[i] = AsByte(S[i - 1] + v[i])
  BY SumsFacts
<1>2. ASSUME NEW i \in Lane
      PROVE  v[i] = AsByte(S[i] - Ahead(v, Origin(0, i)))
  <2>1. Origin(0, i) = i /\ i \in 0 .. 15 /\ v[i] \in 0 .. 255
    BY OriginEnds, SixteenLanes
  <2>2. \A m \in 0 .. 255 : AsByte(m) = m /\ m - 0 = m
    BY DEF AsByte
  <2>3. CASE i = 0
    <3>1. Ahead(v, i) = 0
      BY <2>3 DEF Ahead
    <3> QED BY <1>1, <2>1, <2>2, <2>3, <3>1
  <2>4. CASE i # 0
    <3>1. Ahead(v, i) = S[i - 1]
      BY <2>4 DEF Ahead
    <3>2. i - 1 \in 0 .. 15 /\ i \in 1 .. 15
      BY <2>1, <2>4
    <3> HIDE DEF S
    <3>3. S[i - 1] \in Int /\ v[i] \in Int
      BY <1>1, <2>1, <3>2, ByteOfLane
    <3>4. S[i - 1] + v[i] \in Int /\ (S[i - 1] + v[i]) - S[i - 1] = v[i]
      BY <3>3
    <3>5. AsByte(AsByte(S[i - 1] + v[i]) - S[i - 1]) = AsByte((S[i - 1] + v[i]) - S[i - 1])
      BY <3>3, <3>4, BytesAdd
    <3> QED BY <1>1, <2>1, <2>2, <3>1, <3>2, <3>4, <3>5
  <2> QED BY <2>3, <2>4
<1> QED BY <1>2 DEF BlockSum

LEMMA BlockSumNext ==
  ASSUME NEW v \in Vec, NEW n \in 0 .. 3, NEW t, BlockSum(v, t, n)
  PROVE  BlockSum(v, VAdd(t, Permuted(t, summing_rounds[n + 1])), n + 1)
<1> DEFINE S == partial_sums_ref(v)
           w == Permuted(t, summing_rounds[n + 1])
           u == VAdd(t, w)
<1>1. t \in Vec /\ \A i \in Lane : t[i] = AsByte(S[i] - Ahead(v, Origin(n, i)))
  BY DEF BlockSum
<1>2. S \in Vec
  BY SumsFacts
<1>3. ASSUME NEW i \in Lane
      PROVE  u[i] = AsByte(S[i] - Ahead(v, Origin(n + 1, i))) /\ u[i] \in 0 .. 255
  <2> DEFINE o == Origin(n, i)
  <2>1. i \in 0 .. 15 /\ n + 1 \in 0 .. 4 /\ n \in 0 .. 4
    BY SixteenLanes
  <2>2. o \in 0 .. 15 /\ Origin(n + 1, i) \in 0 .. 15
    BY <2>1, OriginType
  <2>3. Ahead(v, o) \in Int /\ Ahead(v, Origin(n + 1, i)) \in Int
    BY <2>2, AheadType
  <2>4. u[i] = AsByte(t[i] + w[i])
    BY DEF VAdd
  <2>5. w[i] = IF Lower(n, i) THEN 0 ELSE t[o - 1]
    BY <1>1, PrefixTaken
  <2> HIDE DEF S, u, w, o
  <2>6. t[i] = AsByte(S[i] - Ahead(v, o)) /\ S[i] \in Int /\ t[i] \in 0 .. 255
    BY <1>1, <1>2, <2>1, ByteOfLane DEF o
  <2>7. S[i] - Ahead(v, o) \in Int
    BY <2>3, <2>6
  <2>8. CASE Lower(n, i)
    <3>1. Origin(n + 1, i) = o
      BY <2>8, OriginNext DEF o
    <3>2. \A m \in 0 .. 255 : AsByte(m + 0) = m
      BY DEF AsByte
    <3>3. u[i] = t[i]
      BY <2>4, <2>5, <2>6, <2>8, <3>2
    <3> QED BY <2>6, <3>1, <3>3
  <2>9. CASE ~Lower(n, i)
    <3>1. o - 1 \in 0 .. i - 1 /\ Origin(n + 1, i) = Origin(n, o - 1)
      BY <2>9, OriginNext DEF o
    <3>2. o - 1 \in 0 .. 15 /\ o - 1 \in Lane /\ o # 0
      BY <2>1, <2>2, <3>1, SixteenLanes
    <3>3. t[o - 1] = AsByte(S[o - 1] - Ahead(v, Origin(n + 1, i))) /\ S[o - 1] \in Int
          /\ t[o - 1] \in Int
      BY <1>1, <1>2, <3>1, <3>2, ByteOfLane
    <3>4. Ahead(v, o) = S[o - 1]
      BY <3>2 DEF Ahead, S
    <3> DEFINE p == S[i] - S[o - 1]
               q == S[o - 1] - Ahead(v, Origin(n + 1, i))
    <3>5. p \in Int /\ q \in Int /\ p + q = S[i] - Ahead(v, Origin(n + 1, i))
      BY <2>3, <2>6, <3>3
    <3>6. u[i] = AsByte(AsByte(p) + AsByte(q))
      BY <2>4, <2>5, <2>6, <2>9, <3>3, <3>4
    <3> HIDE DEF p, q
    <3>7. AsByte(q) \in Int
      BY <3>5, BytesType
    <3>8. AsByte(AsByte(p) + AsByte(q)) = AsByte(p + q)
      BY <3>5, <3>7, BytesAdd
    <3> QED BY <3>5, <3>6, <3>8, BytesType
  <2> QED BY <2>6, <2>8, <2>9
<1>4. u = [i \in Lane |-> u[i]]
  BY DEF VAdd
<1> HIDE DEF u, S
<1>5. u \in Vec
  BY <1>3, <1>4, SixteenLanes
<1>6. BlockSum(v, u, n + 1)
  BY <1>3, <1>5 DEF BlockSum, S
<1> QED BY <1>6 DEF u

\* The invariant's form: the loop's sum of the bytes of the block.
LEMMA BlockSumIsSum ==
  ASSUME NEW v \in Vec, NEW n \in 0 .. 4, NEW t, BlockSum(v, t, n), NEW i \in Lane
  PROVE  t[i] = partial_sums_ref(Front(v, n, i))[i]
<1>1. i \in 0 .. 15 /\ Origin(n, i) \in 0 .. i
  BY OriginType, SixteenLanes
<1>2. Origin(n, i) \in 0 .. 15 /\ i \in Origin(n, i) .. 15
  BY <1>1
<1>3. Front(v, n, i) = [j \in Lane |-> IF j \in Origin(n, i) .. i THEN v[j] ELSE 0]
  BY DEF Front, Block, Origin
<1>4. partial_sums_ref(Front(v, n, i))[i] = AsByte(partial_sums_ref(v)[i] - Ahead(v, Origin(n, i)))
  BY <1>2, <1>3, SumsSplit
<1> QED BY <1>4 DEF BlockSum

LEMMA RunningSums ==
  ASSUME NEW v \in Vec, NEW t, BlockSum(v, t, 4)
  PROVE  t = partial_sums_ref(v)
<1>1. t \in Vec /\ partial_sums_ref(v) \in Vec
  BY SumsFacts DEF BlockSum
<1>2. ASSUME NEW i \in Lane
      PROVE  t[i] = partial_sums_ref(v)[i]
  <2>1. Ahead(v, Origin(4, i)) = 0
    BY OriginEnds DEF Ahead
  <2>2. partial_sums_ref(v)[i] \in 0 .. 255
    BY <1>1, SixteenLanes
  <2>3. \A m \in 0 .. 255 : AsByte(m - 0) = m
    BY DEF AsByte
  <2> QED BY <2>1, <2>2, <2>3 DEF BlockSum
<1> QED BY <1>1, <1>2 DEF Vec
-----------------------------------------------------------------------------
(***************************************************************************)
(* Counting one more: the numbers of H in lo .. n.                         *)
(***************************************************************************)
Hits(H, lo, n) == {m \in lo .. n : m \in H}

LEMMA HitsCount ==
  ASSUME NEW H, NEW lo \in 0 .. 1, NEW n \in Nat
  PROVE  /\ IsFiniteSet(Hits(H, lo, n))
         /\ Cardinality(Hits(H, lo, n)) \in 0 .. n + 1
         /\ Cardinality(Hits(H, lo, n + 1))
              = Cardinality(Hits(H, lo, n)) + IF n + 1 \in H THEN 1 ELSE 0
<1>1. IsFiniteSet(0 .. n) /\ Cardinality(0 .. n) = n + 1
  <2>1. 0 \in Int /\ n \in Int /\ ~(0 > n) /\ n - 0 + 1 = n + 1
    OBVIOUS
  <2> QED BY <2>1, FS_Interval
<1>2. Hits(H, lo, n) \subseteq 0 .. n
  BY DEF Hits
<1>3. /\ IsFiniteSet(Hits(H, lo, n))
      /\ Cardinality(Hits(H, lo, n)) \in Nat
      /\ Cardinality(Hits(H, lo, n)) <= n + 1
  BY <1>1, <1>2, FS_Subset, FS_CardinalityType
<1>4. n + 1 \notin Hits(H, lo, n)
  BY <1>2
<1>5. CASE n + 1 \in H
  <2>1. Hits(H, lo, n + 1) = Hits(H, lo, n) \cup {n + 1}
    BY <1>5 DEF Hits
  <2> QED BY <1>3, <1>4, <1>5, <2>1, FS_AddElement
<1>6. CASE n + 1 \notin H
  <2>1. \A m \in lo .. n + 1 : m = n + 1 \/ m \in lo .. n
    OBVIOUS
  <2>2. \A m \in lo .. n : m \in lo .. n + 1
    OBVIOUS
  <2>3. Hits(H, lo, n + 1) = Hits(H, lo, n)
    BY <1>6, <2>1, <2>2 DEF Hits
  <2> QED BY <1>3, <1>6, <2>3
<1> QED BY <1>3, <1>5, <1>6

(***************************************************************************)
(* eval16_cycle: after n turns lane i holds the byte that was n lanes to   *)
(* the left, around the end.                                               *)
(***************************************************************************)
Passing(v, i) == {m \in Nat : v[(i - m) % 16] = i}
Turned(v, t, r, n) ==
  /\ t = [i \in Lane |-> v[(i - n) % 16]]
  /\ r = [i \in Lane |-> Cardinality(Hits(Passing(v, i), 0, n))]

LEMMA TurnedType ==
  ASSUME NEW v \in Vec, NEW t, NEW r, NEW n \in 0 .. 15, Turned(v, t, r, n)
  PROVE  t \in Vec /\ r \in [Lane -> 0 .. 255]
<1>1. \A i \in 0 .. 15 : (i - n) % 16 \in 0 .. 15
  OBVIOUS
<1>2. t \in Vec
  <2>1. t = [i \in Lane |-> t[i]] /\ \A i \in Lane : t[i] = v[(i - n) % 16]
    BY Zenon DEF Turned
  <2>2. \A i \in Lane : v[(i - n) % 16] \in 0 .. 255
    BY <1>1, ByteOfLane, LaneRange
  <2> QED BY <2>1, <2>2, FormsVec
<1>3. ASSUME NEW i \in Lane
      PROVE  Cardinality(Hits(Passing(v, i), 0, n)) \in 0 .. n + 1
  <2>1. n \in Nat /\ 0 \in 0 .. 1
    OBVIOUS
  <2> QED BY <2>1, HitsCount
<1>4. \A m \in 0 .. n + 1 : m \in 0 .. 255
  OBVIOUS
<1> QED BY <1>2, <1>3, <1>4 DEF Turned

LEMMA TurnedStart ==
  ASSUME NEW v \in Vec
  PROVE  Turned(v, v, Raised(Zero, {i \in Lane : v[i] = i}), 0)
<1> DEFINE r == Raised(Zero, {i \in Lane : v[i] = i})
<1>1. v = [i \in Lane |-> v[(i - 0) % 16]]
  <2>1. \A i \in 0 .. 15 : (i - 0) % 16 = i
    OBVIOUS
  <2> QED BY <2>1, SixteenLanes
<1>2. ASSUME NEW i \in Lane
      PROVE  r[i] = Cardinality(Hits(Passing(v, i), 0, 0))
  <2>1. r[i] = IF v[i] = i THEN 1 ELSE 0
    BY DEF Raised, Zero, AsByte
  <2>2. i \in 0 .. 15 /\ (i - 0) % 16 = i
    BY SixteenLanes
  <2>3. Hits(Passing(v, i), 0, 0) = IF v[i] = i THEN {0} ELSE {}
    BY <2>2 DEF Hits, Passing
  <2>4. Cardinality({0}) = 1 /\ Cardinality({}) = 0
    BY FS_Singleton, FS_EmptySet
  <2> HIDE DEF r
  <2> QED BY <2>1, <2>3, <2>4
<1>3. r = [i \in Lane |-> r[i]]
  BY DEF Raised
<1> HIDE DEF r
<1>4. Turned(v, v, r, 0)
  BY <1>1, <1>2, <1>3 DEF Turned
<1> QED BY <1>4 DEF r

LEMMA TurnedNext ==
  ASSUME NEW v \in Vec, NEW t, NEW r, NEW n \in 0 .. 14, Turned(v, t, r, n)
  PROVE  LET u == Permuted(t, left_cycle)
         IN  Turned(v, u, Raised(r, {i \in Lane : u[i] = i}), n + 1)
<1> DEFINE u == Permuted(t, left_cycle)
           s == Raised(r, {i \in Lane : u[i] = i})
<1>1. /\ t = [i \in Lane |-> v[(i - n) % 16]]
      /\ r = [i \in Lane |-> Cardinality(Hits(Passing(v, i), 0, n))]
  BY DEF Turned
<1>2. u = [i \in Lane |-> v[(i - (n + 1)) % 16]]
  <2>1. left_cycle \in [Lane -> Lane] /\ \A i \in Lane : left_cycle[i] = (i + 15) % 16
    BY SixteenLanes DEF left_cycle
  <2>2. u = [i \in Lane |-> t[left_cycle[i]]]
    BY <2>1, PermutedLane
  <2>3. \A i \in 0 .. 15 : (((i + 15) % 16) - n) % 16 = (i - (n + 1)) % 16
    OBVIOUS
  <2>4. ASSUME NEW i \in Lane
        PROVE  t[left_cycle[i]] = v[(i - (n + 1)) % 16]
    <3>1. left_cycle[i] \in Lane /\ left_cycle[i] = (i + 15) % 16
      BY <2>1
    <3>2. t[left_cycle[i]] = v[(left_cycle[i] - n) % 16]
      BY <1>1, <3>1
    <3> QED BY <2>3, <3>1, <3>2, SixteenLanes
  <2> HIDE DEF u
  <2> QED BY <2>2, <2>4
<1>3. ASSUME NEW i \in Lane
      PROVE  s[i] = Cardinality(Hits(Passing(v, i), 0, n + 1))
  <2>1. s[i] = AsByte(r[i] + IF u[i] = i THEN 1 ELSE 0)
    BY DEF Raised
  <2>2. u[i] = i <=> n + 1 \in Passing(v, i)
    BY <1>2 DEF Passing
  <2>3. r[i] \in 0 .. n + 1 /\ Cardinality(Hits(Passing(v, i), 0, n + 1))
                                = r[i] + IF n + 1 \in Passing(v, i) THEN 1 ELSE 0
    <3>1. r[i] = Cardinality(Hits(Passing(v, i), 0, n))
      BY <1>1
    <3> QED BY <3>1, HitsCount
  <2>4. \A m \in 0 .. n + 1 : AsByte(m + 1) = m + 1 /\ AsByte(m + 0) = m + 0
    BY DEF AsByte
  <2> HIDE DEF u, s
  <2> QED BY <2>1, <2>2, <2>3, <2>4
<1>4. s = [i \in Lane |-> s[i]]
  BY DEF Raised
<1> HIDE DEF u, s
<1>5. Turned(v, u, s, n + 1)
  BY <1>2, <1>3, <1>4 DEF Turned
<1> QED BY <1>5 DEF u, s

LEMMA TurnedFully ==
  ASSUME NEW v \in Vec, NEW t, NEW r, Turned(v, t, r, 15)
  PROVE  r = eval16_ref(v)
<1>1. ASSUME NEW i \in Lane
      PROVE  Cardinality(Hits(Passing(v, i), 0, 15)) = Cardinality({j \in Lane : v[j] = i})
  <2> DEFINE f == [m \in Lane |-> (i - m) % 16]
             w == [m \in Lane |-> v[(i - m) % 16]]
  <2>1. i \in 0 .. 15
    BY SixteenLanes
  <2>2. \A m \in 0 .. 15 : (i - m) % 16 \in 0 .. 15 /\ (i - ((i - m) % 16)) % 16 = m
    BY <2>1
  <2>3. f \in [Lane -> Lane] /\ \A m \in Lane : f[f[m]] = m /\ w[m] = v[f[m]]
    BY <2>2, SixteenLanes
  <2> HIDE DEF f
  <2>4. \A m, l \in Lane : f[m] = f[l] => m = l
    BY <2>3
  <2>5. \A l \in Lane : \E m \in Lane : f[m] = l
    BY <2>3
  <2>6. Count(w, Lane, i) = Count(v, Lane, i)
    <3> HIDE DEF w
    <3> QED BY <2>3, <2>4, <2>5, LanesFinite, CountBijection
  <2>7. Hits(Passing(v, i), 0, 15) = {m \in Lane : w[m] = i}
    <3>1. \A m \in 0 .. 15 : m \in Nat /\ w[m] = v[(i - m) % 16]
      BY SixteenLanes
    <3> HIDE DEF w
    <3> QED BY <3>1, SixteenLanes DEF Hits, Passing
  <2> QED BY <2>6, <2>7 DEF Count
<1> QED BY <1>1 DEF Turned, eval16_ref
(***************************************************************************)
(* lehmer: after n shifts lane i has met the n entries to its right, and   *)
(* zeros past the end.                                                     *)
(***************************************************************************)
Smaller(v, i) == {m \in Nat : i + m > 15 \/ v[i] > v[i + m]}
Compared(v, t, r, n) ==
  /\ t = [i \in Lane |-> IF i + n > 15 THEN 0 ELSE v[i + n]]
  /\ r = [i \in Lane |-> AsByte(Cardinality(Hits(Smaller(v, i), 1, n)) - i)]

LEMMA PermsType ==
  ASSUME NEW v \in Perms
  PROVE  v \in Vec /\ \A i \in Lane : v[i] \in 0 .. 15
<1>1. v \in [0 .. 15 -> 0 .. 15] /\ \A m \in 0 .. 15 : m \in 0 .. 255
  BY SixteenLanes DEF Perms
<1> QED BY <1>1, SixteenLanes

LEMMA SmallerCount ==
  ASSUME NEW v, NEW i \in Lane, NEW n \in Nat
  PROVE  /\ Cardinality(Hits(Smaller(v, i), 1, n)) \in 0 .. n + 1
         /\ Cardinality(Hits(Smaller(v, i), 1, n + 1))
              = Cardinality(Hits(Smaller(v, i), 1, n)) + IF n + 1 \in Smaller(v, i) THEN 1 ELSE 0
<1>1. 1 \in 0 .. 1
  OBVIOUS
<1> QED BY <1>1, HitsCount

LEMMA ComparedType ==
  ASSUME NEW v \in Perms, NEW t, NEW r, NEW n \in 0 .. 15, Compared(v, t, r, n)
  PROVE  t \in Vec /\ r \in [Lane -> 0 .. 255]
<1>1. \A i \in Lane : i + n > 15 \/ i + n \in Lane
  BY SixteenLanes
<1>2. \A i \in Lane : v[i] \in 0 .. 255
  BY PermsType, SixteenLanes
<1>3. \A i \in Lane : (IF i + n > 15 THEN 0 ELSE v[i + n]) \in 0 .. 255
  BY <1>1, <1>2
<1>4. t \in Vec
  BY <1>3, SixteenLanes DEF Compared
<1>5. ASSUME NEW i \in Lane
      PROVE  AsByte(Cardinality(Hits(Smaller(v, i), 1, n)) - i) \in 0 .. 255
  <2>1. n \in Nat /\ i \in Int /\ \A m \in 0 .. n + 1 : m - i \in Int
    BY SixteenLanes
  <2>2. Cardinality(Hits(Smaller(v, i), 1, n)) \in 0 .. n + 1
    BY <2>1, SmallerCount
  <2>3. Cardinality(Hits(Smaller(v, i), 1, n)) - i \in Int
    BY <2>1, <2>2
  <2> QED BY <2>3, BytesType
<1> QED BY <1>4, <1>5 DEF Compared

LEMMA ComparedStart ==
  ASSUME NEW v \in Perms
  PROVE  Compared(v, v, [i \in Lane |-> AsByte(-i)], 0)
<1>1. v = [i \in Lane |-> IF i + 0 > 15 THEN 0 ELSE v[i + 0]]
  <2>1. \A i \in Lane : i + 0 = i /\ ~(i > 15)
    BY SixteenLanes
  <2> QED BY <2>1 DEF Perms
<1>2. ASSUME NEW i \in Lane
      PROVE  AsByte(-i) = AsByte(Cardinality(Hits(Smaller(v, i), 1, 0)) - i)
  <2>1. Hits(Smaller(v, i), 1, 0) = {}
    BY DEF Hits
  <2>2. 0 - i = -i
    BY SixteenLanes
  <2> QED BY <2>1, <2>2, FS_EmptySet
<1> QED BY <1>1, <1>2 DEF Compared

LEMMA ComparedNext ==
  ASSUME NEW v \in Perms, NEW t, NEW r, NEW n \in 0 .. 14, Compared(v, t, r, n)
  PROVE  LET u == ShiftedLeft(t)
         IN  Compared(v, u, Raised(r, {i \in Lane : v[i] >= u[i]}), n + 1)
<1> DEFINE u == ShiftedLeft(t)
           s == Raised(r, {i \in Lane : v[i] >= u[i]})
<1>1. /\ t = [i \in Lane |-> IF i + n > 15 THEN 0 ELSE v[i + n]]
      /\ r = [i \in Lane |-> AsByte(Cardinality(Hits(Smaller(v, i), 1, n)) - i)]
  BY DEF Compared
<1>2. \A i \in Lane : u[i] = IF i + (n + 1) > 15 THEN 0 ELSE v[i + (n + 1)]
  <2> SUFFICES ASSUME NEW i \in Lane
               PROVE  u[i] = IF i + (n + 1) > 15 THEN 0 ELSE v[i + (n + 1)]
    OBVIOUS
  <2>1. u[i] = IF i = 15 THEN 0 ELSE t[i + 1]
    BY SixteenLanes DEF ShiftedLeft
  <2>2. i \in 0 .. 15 /\ (i # 15 => i + 1 \in Lane) /\ (i + 1) + n = i + (n + 1)
    BY SixteenLanes
  <2> HIDE DEF u
  <2> QED BY <1>1, <2>1, <2>2
<1>3. ASSUME NEW i \in Lane
      PROVE  s[i] = AsByte(Cardinality(Hits(Smaller(v, i), 1, n + 1)) - i)
  <2> DEFINE c == Cardinality(Hits(Smaller(v, i), 1, n))
             e == IF n + 1 \in Smaller(v, i) THEN 1 ELSE 0
  <2>1. v[i] >= u[i] <=> n + 1 \in Smaller(v, i)
    <3>1. i \in 0 .. 15 /\ n + 1 \in Nat /\ v[i] \in 0 .. 15
      BY PermsType, SixteenLanes
    <3>2. CASE i + (n + 1) > 15
      BY <1>2, <3>1, <3>2 DEF Smaller
    <3>3. CASE ~(i + (n + 1) > 15)
      <4>1. i + (n + 1) \in Lane /\ i + (n + 1) # i
        BY <3>1, <3>3, SixteenLanes
      <4>2. v[i + (n + 1)] \in 0 .. 15 /\ v[i + (n + 1)] # v[i]
        BY <4>1, PermsType DEF Perms
      <4>3. u[i] = v[i + (n + 1)]
        BY <1>2, <3>3
      <4> HIDE DEF u
      <4> QED BY <3>1, <3>3, <4>2, <4>3 DEF Smaller
    <3> QED BY <3>2, <3>3
  <2>2. s[i] = AsByte(r[i] + e)
    BY <2>1 DEF Raised
  <2>3. r[i] = AsByte(c - i)
    BY <1>1
  <2>4. n \in Nat /\ i \in Int
    BY SixteenLanes
  <2>5. c \in 0 .. n + 1 /\ Cardinality(Hits(Smaller(v, i), 1, n + 1)) = c + e
    BY <2>4, SmallerCount
  <2>6. e \in Int
    OBVIOUS
  <2> HIDE DEF c, e, s, u
  <2>7. c - i \in Int /\ (c - i) + e = (c + e) - i
    BY <2>4, <2>5, <2>6
  <2>8. AsByte(AsByte(c - i) + e) = AsByte((c - i) + e)
    BY <2>6, <2>7, BytesAdd
  <2> QED BY <2>2, <2>3, <2>5, <2>7, <2>8
<1>4. s = [i \in Lane |-> s[i]] /\ u = [i \in Lane |-> u[i]]
  BY DEF Raised, ShiftedLeft
<1> HIDE DEF u, s
<1>5. Compared(v, u, s, n + 1)
  <2>1. u = [i \in Lane |-> IF i + (n + 1) > 15 THEN 0 ELSE v[i + (n + 1)]]
    BY <1>2, <1>4
  <2>2. s = [i \in Lane |-> AsByte(Cardinality(Hits(Smaller(v, i), 1, n + 1)) - i)]
    BY <1>3, <1>4
  <2> QED BY <2>1, <2>2 DEF Compared
<1> QED BY <1>5 DEF u, s

\* The zeros that came in are as many as the lane number that was subtracted.
LEMMA ComparedFully ==
  ASSUME NEW v \in Perms, NEW t, NEW r, Compared(v, t, r, 15)
  PROVE  r = lehmer_ref(v)
<1>1. ASSUME NEW i \in Lane
      PROVE  r[i] = Cardinality({j \in Lane : i < j /\ v[i] > v[j]})
  <2> DEFINE H == Smaller(v, i)
             S == Hits(H, 1, 15 - i)
             C == {j \in Lane : i < j /\ v[i] > v[j]}
             Past == {d \in Nat : d <= i => Cardinality(Hits(H, 1, (15 - i) + d)) = Cardinality(S) + d}
  <2>1. i \in 0 .. 15 /\ 15 - i \in Nat
    BY SixteenLanes
  <2>2. Cardinality(S) \in 0 .. (15 - i) + 1
    BY <2>1, SmallerCount
  <2>3. 0 \in Past
    <3>1. (15 - i) + 0 = 15 - i
      BY <2>1
    <3>2. Cardinality(S) + 0 = Cardinality(S)
      BY <2>2
    <3> QED BY <3>1, <3>2
  <2>4. ASSUME NEW d \in Nat, d \in Past
        PROVE  d + 1 \in Past
    <3>1. SUFFICES ASSUME d + 1 <= i
                   PROVE  Cardinality(Hits(H, 1, (15 - i) + (d + 1))) = Cardinality(S) + (d + 1)
      OBVIOUS
    <3> DEFINE n == (15 - i) + d
    <3>2. n \in Nat /\ n + 1 = (15 - i) + (d + 1) /\ i + (n + 1) > 15 /\ n + 1 \in Nat /\ d <= i
      BY <2>1, <3>1
    <3>3. n + 1 \in H
      BY <3>2 DEF Smaller
    <3>4. Cardinality(Hits(H, 1, n)) = Cardinality(S) + d
      BY <2>4, <3>2
    <3> HIDE DEF n, S, Past
    <3>5. Cardinality(Hits(H, 1, n + 1)) = Cardinality(Hits(H, 1, n)) + 1
      BY <3>2, <3>3, SmallerCount
    <3> QED BY <2>2, <3>2, <3>4, <3>5
  <2> HIDE DEF Past
  <2>5. \A d \in Nat : d \in Past
    BY <2>3, <2>4, NatSetInduction
  <2>6. Cardinality(Hits(H, 1, 15)) = Cardinality(S) + i
    <3>1. i \in Nat /\ i <= i /\ (15 - i) + i = 15
      BY <2>1
    <3>2. i \in Past
      BY <2>5, <3>1
    <3> QED BY <3>1, <3>2 DEF Past
  <2>7. Cardinality(S) = Cardinality(C)
    <3> DEFINE f == [m \in S |-> i + m]
    <3>1. \A m : m \in S <=> m \in 1 .. 15 - i /\ v[i] > v[i + m]
      BY <2>1 DEF Hits, Smaller
    <3>2. IsFiniteSet(S)
      <4>1. 1 \in 0 .. 1
        OBVIOUS
      <4> QED BY <2>1, <4>1, HitsCount
    <3> HIDE DEF S
    <3>3. \A m \in S : i + m \in C
      BY <2>1, <3>1, SixteenLanes
    <3>4. f \in Injection(S, C)
      <4>1. \A m, l \in S : i + m = i + l => m = l
        BY <2>1, <3>1
      <4> QED BY <3>3, <4>1 DEF Injection, IsInjective
    <3>5. f \in Surjection(S, C)
      <4>1. \A j \in C : j - i \in S /\ i + (j - i) = j
        BY <2>1, <3>1, SixteenLanes
      <4> QED BY <3>3, <4>1 DEF Surjection
    <3>6. ExistsBijection(S, C)
      BY <3>4, <3>5 DEF ExistsBijection, Bijection
    <3> QED BY <3>2, <3>6, FS_Bijection
  <2>8. r[i] = AsByte(Cardinality(Hits(H, 1, 15)) - i)
    BY DEF Compared
  <2> HIDE DEF S, H, C
  <2>9. (Cardinality(S) + i) - i = Cardinality(S) /\ AsByte(Cardinality(S)) = Cardinality(S)
    <3>1. Cardinality(S) \in 0 .. 16
      BY <2>1, <2>2
    <3> QED BY <2>1, <3>1 DEF AsByte
  <2>10. r[i] = Cardinality(C)
    BY <2>6, <2>7, <2>8, <2>9
  <2> QED BY <2>10 DEF C
<1>2. r = [i \in Lane |-> r[i]]
  BY DEF Compared
<1> QED BY <1>1, <1>2 DEF lehmer_ref
-----------------------------------------------------------------------------
(***************************************************************************)
(* left_weak_leq: after n shifts the two vectors are compared with         *)
(* themselves n lanes to the left.                                         *)
(***************************************************************************)
ShiftedBy(v, t, n) == t = [i \in Lane |-> IF i < n THEN 0 ELSE v[i - n]]
HoldsAt(v, w, d) == \A i, j \in Lane : j = i + d /\ v[i] > v[j] => w[i] > w[j]

LEMMA ShiftedByNext ==
  ASSUME NEW v \in Perms, NEW t, NEW n \in 0 .. 14, ShiftedBy(v, t, n)
  PROVE  ShiftedBy(v, ShiftedRight(t), n + 1)
<1>1. ASSUME NEW i \in Lane
      PROVE  ShiftedRight(t)[i] = IF i < n + 1 THEN 0 ELSE v[i - (n + 1)]
  <2>1. i \in 0 .. 15 /\ (i # 0 => i - 1 \in Lane) /\ (i - 1) - n = i - (n + 1)
    BY SixteenLanes
  <2>2. ShiftedRight(t)[i] = IF i = 0 THEN 0 ELSE t[i - 1]
    BY DEF ShiftedRight
  <2>3. i # 0 => t[i - 1] = IF i - 1 < n THEN 0 ELSE v[(i - 1) - n]
    BY <2>1 DEF ShiftedBy
  <2>4. i # 0 => (i - 1 < n <=> i < n + 1)
    BY <2>1
  <2>5. i = 0 => i < n + 1
    OBVIOUS
  <2> QED BY <2>1, <2>2, <2>3, <2>4, <2>5
<1>2. ShiftedRight(t) = [i \in Lane |-> ShiftedRight(t)[i]]
  BY DEF ShiftedRight
<1> QED BY <1>1, <1>2 DEF ShiftedBy

LEMMA ShiftedByType ==
  ASSUME NEW v \in Perms, NEW t, NEW n \in 0 .. 15, ShiftedBy(v, t, n)
  PROVE  t \in Vec
<1>1. \A i \in Lane : v[i] \in 0 .. 255
  BY PermsType, SixteenLanes
<1>2. \A i \in Lane : i < n \/ i - n \in Lane
  BY SixteenLanes
<1>3. \A i \in Lane : (IF i < n THEN 0 ELSE v[i - n]) \in 0 .. 255
  BY <1>1, <1>2
<1> QED BY <1>3, SixteenLanes DEF ShiftedBy

LEMMA InversionsAt ==
  ASSUME NEW v \in Perms, NEW w \in Perms, NEW t, NEW u, NEW d \in 1 .. 15,
         ShiftedBy(v, t, d), ShiftedBy(w, u, d)
  PROVE  Inversions(v, t) \subseteq Inversions(w, u) <=> HoldsAt(v, w, d)
<1>1. ASSUME NEW z \in Perms, NEW q, ShiftedBy(z, q, d), NEW j \in Lane
      PROVE  j \in Inversions(z, q) <=> j >= d /\ z[j - d] > z[j]
  <2>1. j \in 0 .. 15 /\ z[j] \in 0 .. 15
    BY PermsType, SixteenLanes
  <2>2. q[j] = IF j < d THEN 0 ELSE z[j - d]
    BY <1>1 DEF ShiftedBy
  <2>3. CASE j < d
    BY <2>1, <2>2, <2>3 DEF Inversions
  <2>4. CASE ~(j < d)
    <3>1. j - d \in Lane
      BY <2>1, <2>4, SixteenLanes
    <3>2. z[j - d] \in 0 .. 15
      BY <3>1, PermsType
    <3> QED BY <2>1, <2>2, <2>4, <3>2 DEF Inversions
  <2> QED BY <2>3, <2>4
<1>2. \A j \in Lane : j \in Inversions(v, t) <=> j >= d /\ v[j - d] > v[j]
  BY <1>1
<1>3. \A j \in Lane : j \in Inversions(w, u) <=> j >= d /\ w[j - d] > w[j]
  BY <1>1
<1>4. Inversions(v, t) \subseteq Lane
  BY DEF Inversions
<1>5. ASSUME Inversions(v, t) \subseteq Inversions(w, u)
      PROVE  HoldsAt(v, w, d)
  <2> SUFFICES ASSUME NEW i \in Lane, NEW j \in Lane, j = i + d, v[i] > v[j]
               PROVE  w[i] > w[j]
    BY DEF HoldsAt
  <2>1. j - d = i /\ j >= d
    BY SixteenLanes
  <2> QED BY <1>2, <1>3, <1>5, <2>1
<1>6. ASSUME HoldsAt(v, w, d)
      PROVE  Inversions(v, t) \subseteq Inversions(w, u)
  <2> SUFFICES ASSUME NEW j \in Lane, j \in Inversions(v, t)
               PROVE  j \in Inversions(w, u)
    BY <1>4
  <2>1. j >= d /\ v[j - d] > v[j]
    BY <1>2
  <2>2. j - d \in Lane /\ j = (j - d) + d
    BY <2>1, SixteenLanes
  <2>3. w[j - d] > w[j]
    BY <1>6, <2>1, <2>2 DEF HoldsAt
  <2> QED BY <1>3, <2>1, <2>3
<1> QED BY <1>5, <1>6

\* What left_weak_leq knows; fin tells whether it has returned.
WeakKnown(v, w, t, u, r, n, fin) ==
  /\ ShiftedBy(v, t, n)
  /\ ShiftedBy(w, u, n)
  /\ r \in [Lane -> 0 .. 255]
  /\ n > 0 => /\ r[0] = 1 => \A d \in 1 .. n : HoldsAt(v, w, d)
              /\ r[0] # 1 => fin /\ \E d \in 1 .. n : ~HoldsAt(v, w, d)
  /\ fin /\ r[0] = 1 => n = 15
  /\ fin => n > 0
  /\ ~fin => n < 15

LEMMA WeakStart ==
  ASSUME NEW v \in Perms, NEW w \in Perms
  PROVE  WeakKnown(v, w, v, w, Zero, 0, FALSE)
<1>1. \A z \in Perms : ShiftedBy(z, z, 0)
  <2>1. \A i \in Lane : i - 0 = i /\ ~(i < 0)
    BY SixteenLanes
  <2> QED BY <2>1 DEF ShiftedBy, Perms
<1>2. Zero \in [Lane -> 0 .. 255]
  BY DEF Zero
<1> QED BY <1>1, <1>2 DEF WeakKnown

LEMMA WeakNext ==
  ASSUME NEW v \in Perms, NEW w \in Perms, NEW t, NEW u, NEW r, NEW n \in 0 .. 15,
         WeakKnown(v, w, t, u, r, n, FALSE), NEW s, NEW fin \in BOOLEAN,
         LET leq == Inversions(v, ShiftedRight(t)) \subseteq Inversions(w, ShiftedRight(u))
         IN  s = [i \in Lane |-> IF leq THEN 1 ELSE 0] /\ (fin <=> (~leq \/ n = 14))
  PROVE  n + 1 \in 1 .. 15 /\ WeakKnown(v, w, ShiftedRight(t), ShiftedRight(u), s, n + 1, fin)
<1> DEFINE leq == Inversions(v, ShiftedRight(t)) \subseteq Inversions(w, ShiftedRight(u))
<1>0. s = [i \in Lane |-> IF leq THEN 1 ELSE 0] /\ (fin <=> (~leq \/ n = 14))
  OBVIOUS
<1>1. /\ n \in 0 .. 14
      /\ ShiftedBy(v, t, n) /\ ShiftedBy(w, u, n)
      /\ \A d \in 1 .. n : HoldsAt(v, w, d)
  <2>1. n < 15 /\ (n > 0 => r[0] = 1)
    BY DEF WeakKnown
  <2>2. n = 0 => \A d \in 1 .. n : HoldsAt(v, w, d)
    OBVIOUS
  <2>3. ASSUME n > 0
        PROVE  \A d \in 1 .. n : HoldsAt(v, w, d)
    BY <2>1, <2>3 DEF WeakKnown
  <2>4. n > 0 \/ n = 0
    OBVIOUS
  <2> QED BY <2>1, <2>2, <2>3, <2>4 DEF WeakKnown
<1>2. ShiftedBy(v, ShiftedRight(t), n + 1) /\ ShiftedBy(w, ShiftedRight(u), n + 1)
  BY <1>1, ShiftedByNext
<1>3. n + 1 \in 1 .. 15 /\ \A d \in 1 .. n + 1 : d \in 1 .. n \/ d = n + 1
  BY <1>1
<1>4. leq <=> HoldsAt(v, w, n + 1)
  BY <1>2, <1>3, InversionsAt
<1> HIDE DEF leq
<1>5. s \in [Lane -> 0 .. 255] /\ (s[0] = 1 <=> leq)
  BY <1>0, SixteenLanes
<1>6. leq => \A d \in 1 .. n + 1 : HoldsAt(v, w, d)
  BY <1>1, <1>3, <1>4
<1>7. ~leq => \E d \in 1 .. n + 1 : ~HoldsAt(v, w, d)
  <2>1. n + 1 \in 1 .. n + 1
    BY <1>1
  <2> QED BY <1>4, <2>1
<1>8. WeakKnown(v, w, ShiftedRight(t), ShiftedRight(u), s, n + 1, fin)
  BY <1>0, <1>1, <1>2, <1>3, <1>5, <1>6, <1>7 DEF WeakKnown
<1> QED BY <1>3, <1>8

LEMMA WeakInvariantForm ==
  ASSUME NEW v \in Perms, NEW w \in Perms, NEW t, NEW u, NEW r, NEW n \in 0 .. 15,
         NEW fin, WeakKnown(v, w, t, u, r, n, fin), n > 0, r[0] = 1,
         NEW i \in Lane, NEW j \in Lane, i < j, j <= i + n, v[i] > v[j]
  PROVE  w[i] > w[j]
<1>1. j - i \in 1 .. n /\ j = i + (j - i)
  BY SixteenLanes
<1>2. \A d \in 1 .. n : HoldsAt(v, w, d)
  BY DEF WeakKnown
<1>3. HoldsAt(v, w, j - i)
  BY <1>1, <1>2
<1> QED BY <1>1, <1>3 DEF HoldsAt

LEMMA WeakAnswer ==
  ASSUME NEW v \in Perms, NEW w \in Perms, NEW t, NEW u, NEW r, NEW n \in 0 .. 15,
         WeakKnown(v, w, t, u, r, n, TRUE)
  PROVE  r[0] = 1 <=> left_weak_leq_ref(v, w)
<1>1. \A i \in Lane : w[i] \in 0 .. 15
  BY PermsType
<1>2. ASSUME r[0] = 1
      PROVE  left_weak_leq_ref(v, w)
  <2> SUFFICES ASSUME NEW i \in Lane, NEW j \in Lane, i < j, v[i] > v[j]
               PROVE  ~(w[i] < w[j])
    BY DEF left_weak_leq_ref
  <2>1. n = 15 /\ \A d \in 1 .. n : HoldsAt(v, w, d)
    BY <1>2 DEF WeakKnown
  <2>2. w[i] > w[j]
    <3>1. j - i \in 1 .. n /\ j = i + (j - i)
      BY <2>1, SixteenLanes
    <3>2. HoldsAt(v, w, j - i)
      BY <2>1, <3>1
    <3> QED BY <3>1, <3>2 DEF HoldsAt
  <2> QED BY <1>1, <2>2
<1>3. ASSUME r[0] # 1
      PROVE  ~left_weak_leq_ref(v, w)
  <2>1. PICK d \in 1 .. n : ~HoldsAt(v, w, d)
    BY <1>3 DEF WeakKnown
  <2>2. PICK i \in Lane, j \in Lane : j = i + d /\ v[i] > v[j] /\ ~(w[i] > w[j])
    BY <2>1 DEF HoldsAt
  <2>3. i < j /\ i # j
    BY <2>2, SixteenLanes
  <2>4. w[i] # w[j]
    BY <2>3 DEF Perms
  <2>5. w[i] < w[j]
    BY <1>1, <2>2, <2>4
  <2> QED BY <2>2, <2>3, <2>5 DEF left_weak_leq_ref
<1> QED BY <1>2, <1>3
-----------------------------------------------------------------------------
(***************************************************************************)
(* The prototype sorts: exchanging the bytes of some pairs only moves them.*)
(***************************************************************************)
Exchanged(u, t, r, i) ==
  \/ u[i] = t[i] /\ u[r[i]] = t[r[i]]
  \/ u[i] = t[r[i]] /\ u[r[i]] = t[i]

LEMMA ExchangedPairs ==
  ASSUME NEW r \in [Lane -> Lane], PairsOff(r, Lane), NEW t, NEW u,
         \A i \in Lane : Exchanged(u, t, r, i)
  PROVE  Rearranged(u, t, Lane)
<1> DEFINE f == [i \in Lane |-> IF u[i] = t[i] THEN i ELSE r[i]]
<1>1. \A i \in Lane : r[i] \in Lane /\ r[r[i]] = i
  BY DEF PairsOff
<1>2. \A i \in Lane : u[i] # t[i] => u[i] = t[r[i]] /\ u[r[i]] = t[i] /\ u[r[i]] # t[r[i]]
  BY DEF Exchanged
<1>3. \A i \in Lane : f[i] \in Lane /\ u[i] = t[f[i]]
  BY <1>1, <1>2
<1>4. f \in [Lane -> Lane]
  BY <1>3
<1>5. \A i \in Lane : f[f[i]] = i
  BY <1>1, <1>2
<1> HIDE DEF f
<1>6. \A i, j \in Lane : f[i] = f[j] => i = j
  BY <1>5
<1>7. \A j \in Lane : \E i \in Lane : f[i] = j
  BY <1>3, <1>5
<1> QED BY <1>3, <1>4, <1>6, <1>7 DEF Rearranged

LEMMA SignedTellsApart ==
  \A m, n \in 0 .. 255 : /\ Signed(m) \in Int
                         /\ Signed(m) = Signed(n) => m = n
BY DEF Signed

LEMMA SignedExchange ==
  ASSUME NEW r \in [Lane -> Lane], PairsOff(r, Lane), NEW t \in Vec, NEW big, NEW u,
         \A i \in Lane : r[i] # i => (i \in big <=> r[i] \notin big),
         \A i \in Lane : u[i] = IF i \in big THEN SMax(t, Permuted(t, r))[i]
                              ELSE SMin(t, Permuted(t, r))[i]
  PROVE  Rearranged(u, t, Lane)
<1>1. Permuted(t, r) = [i \in Lane |-> t[r[i]]]
  BY PermutedLane
<1>2. \A i \in Lane : u[i] = IF i \in big
                           THEN IF Signed(t[i]) <= Signed(t[r[i]]) THEN t[r[i]] ELSE t[i]
                           ELSE IF Signed(t[i]) <= Signed(t[r[i]]) THEN t[i] ELSE t[r[i]]
  BY <1>1 DEF SMax, SMin
<1>3. ASSUME NEW i \in Lane
      PROVE  Exchanged(u, t, r, i)
  <2>1. r[i] \in Lane /\ r[r[i]] = i
    BY DEF PairsOff
  <2>2. t[i] \in 0 .. 255 /\ t[r[i]] \in 0 .. 255
    BY <2>1, SixteenLanes
  <2>3. /\ Signed(t[i]) \in Int /\ Signed(t[r[i]]) \in Int
        /\ Signed(t[i]) = Signed(t[r[i]]) => t[i] = t[r[i]]
    BY <2>2, SignedTellsApart, Zenon
  <2>4. CASE r[i] = i
    BY <1>2, <2>4 DEF Exchanged
  <2>5. CASE r[i] # i
    <3>1. i \in big <=> r[i] \notin big
      BY <2>5
    <3>2. u[r[i]] = IF r[i] \in big
                    THEN IF Signed(t[r[i]]) <= Signed(t[i]) THEN t[i] ELSE t[r[i]]
                    ELSE IF Signed(t[r[i]]) <= Signed(t[i]) THEN t[r[i]] ELSE t[i]
      BY <1>2, <2>1
    <3>3. CASE Signed(t[i]) < Signed(t[r[i]])
      BY <1>2, <2>3, <3>1, <3>2, <3>3 DEF Exchanged
    <3>4. CASE Signed(t[r[i]]) < Signed(t[i])
      BY <1>2, <2>3, <3>1, <3>2, <3>4 DEF Exchanged
    <3>5. CASE Signed(t[i]) = Signed(t[r[i]])
      BY <1>2, <2>3, <3>2, <3>5 DEF Exchanged
    <3> QED BY <2>3, <3>3, <3>4, <3>5
  <2> QED BY <2>4, <2>5
<1> QED BY <1>3, ExchangedPairs

\* All bytes of v are still there, each as often.
Kept(t, v) == t \in Vec /\ \A z : Count(t, Lane, z) = Count(v, Lane, z)

LEMMA KeptMoved ==
  ASSUME NEW v \in Vec, NEW t, NEW u, Kept(t, v), u = [i \in Lane |-> u[i]],
         Rearranged(u, t, Lane)
  PROVE  Kept(u, v)
<1>1. PICK f \in [Lane -> Lane] :
        /\ \A i, j \in Lane : f[i] = f[j] => i = j
        /\ \A j \in Lane : \E i \in Lane : f[i] = j
        /\ \A i \in Lane : u[i] = t[f[i]]
  BY DEF Rearranged
<1>2. u \in Vec
  <2>1. \A i \in Lane : t[f[i]] \in Byte
    BY DEF Kept, Vec
  <2> QED BY <1>1, <2>1 DEF Vec
<1>3. ASSUME NEW z
      PROVE  Count(u, Lane, z) = Count(v, Lane, z)
  <2>1. Count(u, Lane, z) = Count(t, Lane, z)
    BY <1>1, LanesFinite, CountBijection
  <2> QED BY <2>1 DEF Kept
<1> QED BY <1>2, <1>3 DEF Kept

LEMMA SortingRounds ==
  ASSUME NEW n \in 1 .. 9
  PROVE  sorting_rounds[n] \in [Lane -> Lane] /\ PairsOff(sorting_rounds[n], Lane)
<1>1. CASE n = 1
  BY <1>1, SixteenLanes DEF sorting_rounds, Epu8Of, PairsOff
<1>2. CASE n = 2
  BY <1>2, SixteenLanes DEF sorting_rounds, Epu8Of, PairsOff
<1>3. CASE n = 3
  BY <1>3, SixteenLanes DEF sorting_rounds, Epu8Of, PairsOff
<1>4. CASE n = 4
  BY <1>4, SixteenLanes DEF sorting_rounds, Epu8Of, PairsOff
<1>5. CASE n = 5
  BY <1>5, SixteenLanes DEF sorting_rounds, Epu8Of, PairsOff
<1>6. CASE n = 6
  BY <1>6, SixteenLanes DEF sorting_rounds, Epu8Of, PairsOff
<1>7. CASE n = 7
  BY <1>7, SixteenLanes DEF sorting_rounds, Epu8Of, PairsOff
<1>8. CASE n = 8
  BY <1>8, SixteenLanes DEF sorting_rounds, Epu8Of, PairsOff
<1>9. CASE n = 9
  BY <1>9, SixteenLanes DEF sorting_rounds, Epu8Of, PairsOff
<1> QED BY <1>1, <1>2, <1>3, <1>4, <1>5, <1>6, <1>7, <1>8, <1>9

LEMMA PairRoundMoves ==
  ASSUME NEW v \in Vec, NEW t, Kept(t, v), NEW n \in 1 .. 9
  PROVE  LET w == Permuted(t, sorting_rounds[n])
         IN  Kept(Blend(SMin(t, w), SMax(t, w), rounds_mask(n)), v)
<1> DEFINE r == sorting_rounds[n]
           w == Permuted(t, r)
           u == Blend(SMin(t, w), SMax(t, w), rounds_mask(n))
           big == {i \in Lane : r[i] < i}
<1>1. r \in [Lane -> Lane] /\ PairsOff(r, Lane)
  BY SortingRounds
<1>2. t \in Vec
  BY DEF Kept
<1>3. \A i \in Lane : u[i] = IF i \in big THEN SMax(t, w)[i] ELSE SMin(t, w)[i]
  BY DEF Blend, rounds_mask
<1> HIDE DEF r
<1>4. \A i \in Lane : r[i] # i => (i \in big <=> r[i] \notin big)
  <2>1. \A i \in Lane : r[i] \in Lane /\ r[r[i]] = i /\ r[i] \in Int /\ i \in Int
    BY <1>1, SixteenLanes DEF PairsOff
  <2> QED BY <2>1
<1>5. u = [i \in Lane |-> u[i]]
  BY DEF Blend
<1> HIDE DEF big, u
<1>6. Rearranged(u, t, Lane)
  BY <1>1, <1>2, <1>3, <1>4, SignedExchange
<1>7. Kept(u, v)
  BY <1>5, <1>6, KeptMoved
<1> QED BY <1>7 DEF u, r

LEMMA NeighbourPairs ==
  /\ even \in [Lane -> Lane] /\ PairsOff(even, Lane)
  /\ odd \in [Lane -> Lane] /\ PairsOff(odd, Lane)
  /\ \A i \in Lane : even[i] # i => (i % 2 = 1 <=> even[i] % 2 # 1)
  /\ \A i \in Lane : odd[i] # i => (i % 2 = 1 <=> odd[i] % 2 # 1)
<1>1. \A i \in 0 .. 15 :
        LET e == IF i % 2 = 0 THEN i + 1 ELSE i - 1
        IN  e \in 0 .. 15 /\ (IF e % 2 = 0 THEN e + 1 ELSE e - 1) = i /\ (i % 2 = 1 <=> e % 2 # 1)
  OBVIOUS
<1>2. \A i \in 0 .. 15 :
        LET e == IF i \in {0, 15} THEN i ELSE IF i % 2 = 1 THEN i + 1 ELSE i - 1
        IN  /\ e \in 0 .. 15
            /\ (IF e \in {0, 15} THEN e ELSE IF e % 2 = 1 THEN e + 1 ELSE e - 1) = i
            /\ e # i => (i % 2 = 1 <=> e % 2 # 1)
  OBVIOUS
<1>3. \A i \in Lane : even[i] = IF i % 2 = 0 THEN i + 1 ELSE i - 1
  BY DEF even
<1>4. \A i \in Lane : odd[i] = IF i \in {0, 15} THEN i ELSE IF i % 2 = 1 THEN i + 1 ELSE i - 1
  BY DEF odd
<1>5. \A i \in Lane : even[i] \in Lane /\ even[even[i]] = i
                      /\ (even[i] # i => (i % 2 = 1 <=> even[i] % 2 # 1))
  BY <1>1, <1>3, SixteenLanes
<1>6. \A i \in Lane : odd[i] \in Lane /\ odd[odd[i]] = i
                      /\ (odd[i] # i => (i % 2 = 1 <=> odd[i] % 2 # 1))
  BY <1>2, <1>4, SixteenLanes
<1>7. even = [i \in Lane |-> even[i]] /\ odd = [i \in Lane |-> odd[i]]
  BY DEF even, odd
<1> QED BY <1>5, <1>6, <1>7 DEF PairsOff

LEMMA NeighbourRoundMoves ==
  ASSUME NEW v \in Vec, NEW t, Kept(t, v)
  PROVE  LET mask == [i \in Lane |-> i % 2 = 1]
             w    == Permuted(t, even)
             u    == Permuted(t, odd)
         IN  /\ Kept(Blend(SMin(t, w), SMax(t, w), mask), v)
             /\ Kept(Blend(SMax(t, u), SMin(t, u), mask), v)
<1> DEFINE mask == [i \in Lane |-> i % 2 = 1]
           w == Permuted(t, even)
           u == Permuted(t, odd)
           p == Blend(SMin(t, w), SMax(t, w), mask)
           q == Blend(SMax(t, u), SMin(t, u), mask)
           bigP == {i \in Lane : i % 2 = 1}
           bigQ == {i \in Lane : ~(i % 2 = 1)}
<1>1. t \in Vec
  BY DEF Kept
<1>2. p = [i \in Lane |-> p[i]] /\ q = [i \in Lane |-> q[i]]
  BY DEF Blend
<1>3. \A i \in Lane : p[i] = IF i \in bigP THEN SMax(t, w)[i] ELSE SMin(t, w)[i]
  BY DEF Blend
<1>4. \A i \in Lane : q[i] = IF i \in bigQ THEN SMax(t, u)[i] ELSE SMin(t, u)[i]
  BY DEF Blend
<1>5. \A i \in Lane : even[i] \in Lane /\ odd[i] \in Lane
  BY NeighbourPairs
<1>6. \A i \in Lane : even[i] # i => (i \in bigP <=> even[i] \notin bigP)
  BY <1>5, NeighbourPairs
<1>7. \A i \in Lane : odd[i] # i => (i \in bigQ <=> odd[i] \notin bigQ)
  BY <1>5, NeighbourPairs
<1> HIDE DEF p, q, bigP, bigQ
<1>8. Rearranged(p, t, Lane)
  BY <1>1, <1>3, <1>6, NeighbourPairs, SignedExchange
<1>9. Rearranged(q, t, Lane)
  BY <1>1, <1>4, <1>7, NeighbourPairs, SignedExchange
<1>10. Kept(p, v) /\ Kept(q, v)
  BY <1>2, <1>8, <1>9, KeptMoved
<1> QED BY <1>10 DEF p, q
-----------------------------------------------------------------------------
(***************************************************************************)
(* cycles_partition.  The loop keeps the power of the permutation by 2^n   *)
(* and the least lane among the first 2^n of each lane's way.              *)
(***************************************************************************)
OnWay(v, i, m)  == {Steps(v, i)[l] : l \in 0 .. m - 1}
LeastIn(v, i, m) == Min(OnWay(v, i, m))

\* The reference walks the same way.
LEMMA OrbitIsWay ==
  ASSUME NEW v \in [Lane -> Lane], NEW i \in Lane, NEW n \in Nat
  PROVE  Orbit(v, i, n) = OnWay(v, i, n + 1)
<1> DEFINE at == CHOOSE w : w = [m \in 0 .. n |-> IF m = 0 THEN i ELSE v[w[m - 1]]]
           s == [m \in 0 .. n |-> Steps(v, i)[m]]
<1>1. /\ Steps(v, i)[0] = i
      /\ \A m \in Nat : Steps(v, i)[m + 1] = v[Steps(v, i)[m]]
  BY StepsFacts
<1>2. s = [m \in 0 .. n |-> IF m = 0 THEN i ELSE v[s[m - 1]]]
  <2>1. \A m \in 0 .. n : m # 0 => m - 1 \in Nat /\ m - 1 \in 0 .. n /\ (m - 1) + 1 = m
    OBVIOUS
  <2>2. \A m \in 0 .. n : s[m] = IF m = 0 THEN i ELSE v[s[m - 1]]
    BY <1>1, <2>1
  <2> QED BY <2>2
<1>3. at = [m \in 0 .. n |-> IF m = 0 THEN i ELSE v[at[m - 1]]]
  BY <1>2
<1>4. Orbit(v, i, n) = {at[m] : m \in 0 .. n}
  BY DEF Orbit
<1> HIDE DEF at
<1> DEFINE Same == {m \in Nat : m <= n => at[m] = Steps(v, i)[m]}
<1>5. 0 \in Same
  BY <1>1, <1>3
<1>6. ASSUME NEW m \in Nat, m \in Same
      PROVE  m + 1 \in Same
  <2>1. SUFFICES ASSUME m + 1 <= n PROVE at[m + 1] = Steps(v, i)[m + 1]
    OBVIOUS
  <2>2. m + 1 \in 0 .. n /\ m + 1 # 0 /\ (m + 1) - 1 = m /\ m <= n
    BY <2>1
  <2>3. at[m + 1] = v[at[m]]
    BY <1>3, <2>2
  <2> QED BY <1>1, <1>6, <2>2, <2>3
<1>7. \A m \in Nat : m \in Same
  <2> HIDE DEF Same
  <2> QED BY <1>5, <1>6, NatSetInduction
<1>8. \A m \in 0 .. n : at[m] = Steps(v, i)[m]
  BY <1>7
<1>9. (n + 1) - 1 = n
  OBVIOUS
<1> QED BY <1>4, <1>8, <1>9 DEF OnWay

LEMMA LeastInFacts ==
  ASSUME NEW v \in [Lane -> Lane], NEW i \in Lane, NEW m \in Nat \ {0}
  PROVE  /\ OnWay(v, i, m) \in SUBSET Lane
         /\ LeastIn(v, i, m) \in OnWay(v, i, m)
         /\ \A l \in OnWay(v, i, m) : LeastIn(v, i, m) <= l
<1>1. OnWay(v, i, m) \in SUBSET Lane
  BY StepsFacts DEF OnWay
<1>2. Steps(v, i)[0] \in OnWay(v, i, m)
  BY DEF OnWay
<1>3. OnWay(v, i, m) \subseteq Nat
  BY <1>1, SixteenLanes
<1>4. PICK e \in OnWay(v, i, m) : \A l \in OnWay(v, i, m) : e <= l
  BY <1>2, <1>3, LeastOfSome
<1>5. Min(OnWay(v, i, m)) = e
  BY <1>3, <1>4, MinIs
<1> QED BY <1>1, <1>4, <1>5 DEF LeastIn

\* Twice as far: the least on the way from here and on the way from there.
LEMMA LeastTwice ==
  ASSUME NEW v \in [Lane -> Lane], NEW i \in Lane, NEW m \in Nat \ {0}
  PROVE  LET far == Steps(v, i)[m]
         IN  LeastIn(v, i, 2 * m) =
               IF LeastIn(v, i, m) <= LeastIn(v, far, m) THEN LeastIn(v, i, m)
                                                         ELSE LeastIn(v, far, m)
<1> DEFINE far == Steps(v, i)[m]
           p == LeastIn(v, i, m)
           q == LeastIn(v, far, m)
<1>1. far \in Lane
  BY StepsFacts
<1>2. OnWay(v, i, 2 * m) = OnWay(v, i, m) \cup OnWay(v, far, m)
  <2>1. \A l \in 0 .. 2 * m - 1 : l \in 0 .. m - 1 \/ (l - m \in 0 .. m - 1 /\ m + (l - m) = l)
    OBVIOUS
  <2>2. \A l \in 0 .. m - 1 : l \in Nat /\ l \in 0 .. 2 * m - 1 /\ m + l \in 0 .. 2 * m - 1
    OBVIOUS
  <2>3. \A l \in 0 .. m - 1 : Steps(v, i)[m + l] = Steps(v, far)[l]
    BY <2>2, StepsAdd
  <2> HIDE DEF far
  <2>4. ASSUME NEW l \in 0 .. 2 * m - 1
        PROVE  Steps(v, i)[l] \in OnWay(v, i, m) \cup OnWay(v, far, m)
    <3>1. CASE l \in 0 .. m - 1
      BY <3>1 DEF OnWay
    <3>2. CASE l - m \in 0 .. m - 1 /\ m + (l - m) = l
      <4>1. Steps(v, i)[m + (l - m)] = Steps(v, far)[l - m]
        BY <2>3, <3>2
      <4> QED BY <3>2, <4>1 DEF OnWay
    <3> QED BY <2>1, <3>1, <3>2
  <2>5. ASSUME NEW l \in 0 .. m - 1
        PROVE  Steps(v, i)[l] \in OnWay(v, i, 2 * m) /\ Steps(v, far)[l] \in OnWay(v, i, 2 * m)
    BY <2>2, <2>3 DEF OnWay
  <2> QED BY <2>4, <2>5 DEF OnWay
<1> HIDE DEF far
<1>3. /\ OnWay(v, i, m) \in SUBSET Lane /\ p \in OnWay(v, i, m)
      /\ \A l \in OnWay(v, i, m) : p <= l
  BY LeastInFacts
<1>4. /\ OnWay(v, far, m) \in SUBSET Lane /\ q \in OnWay(v, far, m)
      /\ \A l \in OnWay(v, far, m) : q <= l
  BY <1>1, LeastInFacts
<1> HIDE DEF p, q
<1>5. OnWay(v, i, 2 * m) \in SUBSET Int
  BY <1>2, <1>3, <1>4, SixteenLanes
<1>6. p \in Int /\ q \in Int /\ \A l \in Lane : l \in Int
  BY <1>3, <1>4, SixteenLanes
<1>7. CASE p <= q
  <2>1. \A l \in OnWay(v, i, 2 * m) : p <= l
    BY <1>2, <1>3, <1>4, <1>6, <1>7
  <2>2. Min(OnWay(v, i, 2 * m)) = p
    BY <1>2, <1>3, <1>5, <2>1, MinIs
  <2> QED BY <1>7, <2>2 DEF LeastIn, p, q, far
<1>8. CASE ~(p <= q)
  <2>1. \A l \in OnWay(v, i, 2 * m) : q <= l
    BY <1>2, <1>3, <1>4, <1>6, <1>8
  <2>2. Min(OnWay(v, i, 2 * m)) = q
    BY <1>2, <1>4, <1>5, <2>1, MinIs
  <2> QED BY <1>8, <2>2 DEF LeastIn, p, q, far
<1> QED BY <1>7, <1>8

LEMMA PermsAreMaps ==
  ASSUME NEW v \in Perms
  PROVE  v \in [Lane -> Lane] /\ LanesApart(v) /\ v \in Vec
BY PermsType DEF Perms, LanesApart
\* The working vectors after n rounds; the last round leaves the power alone.
Partitioned(v, t, u, n) ==
  /\ u \in Vec
  /\ \A i \in Lane : u[i] = Steps(v, i)[IF n = 4 THEN 8 ELSE 2^n]
  /\ t \in Vec
  /\ n > 0 => \A i \in Lane : t[i] = LeastIn(v, i, 2^n)

LEMMA PartitionedStart ==
  ASSUME NEW v \in Perms
  PROVE  Partitioned(v, v, v, 0)
<1>1. v \in [Lane -> Lane] /\ v \in Vec
  BY PermsAreMaps
<1>2. \A i \in Lane : Steps(v, i)[0 + 1] = v[Steps(v, i)[0]] /\ Steps(v, i)[0] = i
  <2>1. ASSUME NEW i \in Lane
        PROVE  Steps(v, i)[0] = i /\ \A n \in Nat : Steps(v, i)[n + 1] = v[Steps(v, i)[n]]
    BY <1>1, StepsFacts
  <2>2. 0 \in Nat
    OBVIOUS
  <2> QED BY <2>1, <2>2
<1>3. 2^0 = 1 /\ 0 + 1 = 1 /\ ~(0 > 0) /\ 0 # 4
  OBVIOUS
<1> QED BY <1>1, <1>2, <1>3 DEF Partitioned

LEMMA PermutedByLanes ==
  ASSUME NEW t, NEW u, \A i \in Lane : u[i] \in Lane
  PROVE  \A i \in Lane : Permuted(t, u)[i] = t[u[i]]
BY DEF Permuted

LEMMA PartitionedTwice ==
  ASSUME NEW v \in [Lane -> Lane], NEW m \in Nat \ {0}, NEW t, NEW u,
         \A i \in Lane : u[i] = Steps(v, i)[m],
         \A i \in Lane : t[i] = LeastIn(v, i, m)
  PROVE  /\ \A i \in Lane : VMin(t, Permuted(t, u))[i] = LeastIn(v, i, 2 * m)
         /\ \A i \in Lane : LeastIn(v, i, 2 * m) \in Lane
         /\ \A i \in Lane : Permuted(u, u)[i] = Steps(v, i)[2 * m]
         /\ \A i \in Lane : Steps(v, i)[2 * m] \in Lane
<1>1. \A i \in Lane : u[i] \in Lane /\ Steps(v, i)[2 * m] \in Lane
  <2>1. 2 * m \in Nat
    OBVIOUS
  <2>2. \A i \in Lane : Steps(v, i) \in [Nat -> Lane]
    BY StepsFacts
  <2> QED BY <2>1, <2>2
<1>2. \A i \in Lane : Permuted(t, u)[i] = t[u[i]] /\ Permuted(u, u)[i] = u[u[i]]
  BY <1>1, PermutedByLanes
<1>3. \A i \in Lane : LeastIn(v, i, 2 * m) = IF t[i] <= t[u[i]] THEN t[i] ELSE t[u[i]]
  BY <1>1, LeastTwice
<1>4. \A i \in Lane : VMin(t, Permuted(t, u))[i] = LeastIn(v, i, 2 * m)
  BY <1>2, <1>3 DEF VMin
<1>5. \A i \in Lane : LeastIn(v, i, 2 * m) \in Lane
  <2>1. 2 * m \in Nat \ {0}
    OBVIOUS
  <2> QED BY <2>1, LeastInFacts
<1>6. \A i \in Lane : Steps(v, i)[m + m] = Steps(v, Steps(v, i)[m])[m]
  BY StepsAdd
<1>7. m + m = 2 * m
  OBVIOUS
<1> QED BY <1>1, <1>2, <1>4, <1>5, <1>6, <1>7

LEMMA PartitionedNext ==
  ASSUME NEW v \in Perms, NEW t, NEW u, NEW n \in 0 .. 3, Partitioned(v, t, u, n)
  PROVE  LET least == IF n = 0 THEN Id ELSE t
         IN  Partitioned(v, VMin(least, Permuted(least, u)), IF n < 3 THEN Permuted(u, u) ELSE u,
                         n + 1)
<1> DEFINE least == IF n = 0 THEN Id ELSE t
           p == VMin(least, Permuted(least, u))
           q == Permuted(u, u)
           m == 2^n
<1>1. v \in [Lane -> Lane]
  BY PermsAreMaps
<1>2. /\ m \in Nat \ {0} /\ 2^(n + 1) = 2 * m /\ n + 1 > 0 /\ n # 4
      /\ (n + 1 = 4 <=> ~(n < 3)) /\ (n = 3 => m = 8)
  <2>1. 2^0 = 1 /\ 2^1 = 2 /\ 2^2 = 4 /\ 2^3 = 8 /\ 2^4 = 16
    OBVIOUS
  <2>2. CASE n = 0
    BY <2>1, <2>2
  <2>3. CASE n = 1
    BY <2>1, <2>3
  <2>4. CASE n = 2
    BY <2>1, <2>4
  <2>5. CASE n = 3
    BY <2>1, <2>5
  <2> QED BY <2>2, <2>3, <2>4, <2>5
<1>3. \A i \in Lane : u[i] = Steps(v, i)[m]
  BY <1>2 DEF Partitioned
<1>4. \A i \in Lane : least[i] = LeastIn(v, i, m)
  <2>1. CASE n = 0
    <3>1. 2^0 = 1 /\ 1 \in Nat \ {0} /\ 1 - 1 = 0
      OBVIOUS
    <3>2. ASSUME NEW i \in Lane
          PROVE  LeastIn(v, i, 1) = i
      <4>1. LeastIn(v, i, 1) \in OnWay(v, i, 1)
        BY <1>1, <3>1, LeastInFacts
      <4>2. Steps(v, i)[0] = i
        BY <1>1, StepsFacts
      <4>3. \A l \in 0 .. 1 - 1 : l = 0
        OBVIOUS
      <4> QED BY <4>1, <4>2, <4>3 DEF OnWay
    <3>3. m = 1
      BY <2>1, <3>1
    <3> HIDE DEF m
    <3> QED BY <2>1, <3>2, <3>3 DEF Id
  <2>2. CASE n # 0
    BY <2>2 DEF Partitioned
  <2> QED BY <2>1, <2>2
<1>5. p = [i \in Lane |-> p[i]] /\ q = [i \in Lane |-> q[i]]
  BY DEF VMin, Permuted
<1> HIDE DEF m, least
<1>6. /\ \A i \in Lane : p[i] = LeastIn(v, i, 2 * m) /\ LeastIn(v, i, 2 * m) \in Lane
      /\ \A i \in Lane : q[i] = Steps(v, i)[2 * m] /\ Steps(v, i)[2 * m] \in Lane
  BY <1>1, <1>2, <1>3, <1>4, PartitionedTwice
<1> HIDE DEF p, q
<1>7. \A l \in Lane : l \in Byte
  BY SixteenLanes
<1>8. p \in Vec /\ q \in Vec
  BY <1>5, <1>6, <1>7 DEF Vec
<1>9. u \in Vec
  BY DEF Partitioned
<1>10. \A i \in Lane : (IF n < 3 THEN q ELSE u)[i] = Steps(v, i)[IF n + 1 = 4 THEN 8 ELSE 2^(n + 1)]
  <2>1. CASE n < 3
    BY <1>2, <1>6, <2>1
  <2>2. CASE ~(n < 3)
    <3>1. n = 3
      BY <2>2
    <3>2. m = 8 /\ n + 1 = 4
      BY <1>2, <3>1
    <3> QED BY <1>3, <2>2, <3>2
  <2> QED BY <2>1, <2>2
<1>11. \A i \in Lane : p[i] = LeastIn(v, i, 2^(n + 1))
  BY <1>2, <1>6
<1>12. Partitioned(v, p, IF n < 3 THEN q ELSE u, n + 1)
  BY <1>8, <1>9, <1>10, <1>11 DEF Partitioned
<1> QED BY <1>12 DEF p, q, least

LEMMA PartitionedForm ==
  ASSUME NEW v \in Perms, NEW t, NEW u, NEW n \in 0 .. 4, n > 0, Partitioned(v, t, u, n),
         NEW i \in Lane
  PROVE  t[i] = Min(Orbit(v, i, 2^n - 1))
<1>1. v \in [Lane -> Lane]
  BY PermsAreMaps
<1>2. 2^n - 1 \in Nat /\ (2^n - 1) + 1 = 2^n
  <2>1. 2^1 = 2 /\ 2^2 = 4 /\ 2^3 = 8 /\ 2^4 = 16
    OBVIOUS
  <2>2. n = 1 \/ n = 2 \/ n = 3 \/ n = 4
    OBVIOUS
  <2>3. 2^n = 2 \/ 2^n = 4 \/ 2^n = 8 \/ 2^n = 16
    BY <2>1, <2>2
  <2>4. \A m : m = 2 \/ m = 4 \/ m = 8 \/ m = 16 => m - 1 \in Nat /\ (m - 1) + 1 = m
    OBVIOUS
  <2> QED BY <2>3, <2>4
<1>3. Orbit(v, i, 2^n - 1) = OnWay(v, i, 2^n)
  BY <1>1, <1>2, OrbitIsWay
<1> QED BY <1>3 DEF Partitioned, LeastIn

\* Sixteen steps go all the way round every cycle.
LEMMA PartitionedFully ==
  ASSUME NEW v \in Perms, NEW t, NEW u, Partitioned(v, t, u, 4)
  PROVE  \A i \in Lane : t[i] = Min(Orbit(v, i, Size))
<1> SUFFICES ASSUME NEW i \in Lane PROVE t[i] = Min(Orbit(v, i, Size))
  OBVIOUS
<1>1. v \in [Lane -> Lane] /\ LanesApart(v)
  BY PermsAreMaps
<1>2. t[i] = LeastIn(v, i, 16)
  <2>1. 2^4 = 16 /\ 4 > 0
    OBVIOUS
  <2> QED BY <2>1 DEF Partitioned
<1>3. Size = 16 /\ 16 \in Nat /\ 16 + 1 = 17
  BY SixteenLanes
<1>4. Orbit(v, i, Size) = OnWay(v, i, 17)
  BY <1>1, <1>3, OrbitIsWay
<1>5. PICK l \in 1 .. 16 : Steps(v, i)[l] = i
  BY <1>1, <1>3, CycleLength
<1>6. l \in Nat \ {0} /\ 16 % l \in 0 .. 15
  <2>1. \A m \in 1 .. 16 : m \in Nat \ {0} /\ 16 % m \in 0 .. 15
    OBVIOUS
  <2> QED BY <2>1
<1>7. Steps(v, i)[16] = Steps(v, i)[16 % l]
  BY <1>1, <1>3, <1>5, <1>6, CycleRest
<1>8. 16 - 1 = 15 /\ 17 - 1 = 16 /\ \A m \in 0 .. 16 : m \in 0 .. 15 \/ m = 16
  OBVIOUS
<1>9. \A m \in 0 .. 15 : m \in 0 .. 16
  OBVIOUS
<1>10. OnWay(v, i, 17) = OnWay(v, i, 16)
  BY <1>6, <1>7, <1>8, <1>9 DEF OnWay
<1> QED BY <1>2, <1>4, <1>10 DEF LeastIn
-----------------------------------------------------------------------------
(***************************************************************************)
(* insertion_sort.  The first n entries are in order, and a bijection of   *)
(* the lanes that leaves the others alone tells where each came from.      *)
(***************************************************************************)
OntoAll(f) == f \in [Lane -> Lane] /\ LanesApart(f) /\ \A j \in Lane : \E i \in Lane : f[i] = j
Brings(f, v, t, n) ==
  /\ OntoAll(f)
  /\ \A i \in Lane : i >= n => f[i] = i
  /\ t \in Vec /\ \A i \in Lane : t[i] = v[f[i]]
InOrder(t, n) == \A i, j \in Lane : i < j /\ j < n => t[i] <= t[j]
Inserted(v, t, n) == InOrder(t, n) /\ \E f : Brings(f, v, t, n)

LEMMA InsertedStart ==
  ASSUME NEW v \in Vec
  PROVE  Inserted(v, v, 0)
<1> DEFINE f == [i \in Lane |-> i]
<1>1. \A i, j \in Lane : ~(j < 0)
  BY SixteenLanes
<1>2. Brings(f, v, v, 0)
  BY DEF Brings, OntoAll, LanesApart
<1> QED BY <1>1, <1>2 DEF Inserted, InOrder

UptoIn(v, m) == {i \in Lane : v[i] <= m}

\* As many bytes are at most m in a vector as in any rearrangement of it.
LEMMA BroughtUpto ==
  ASSUME NEW v, NEW t, NEW f, OntoAll(f), \A i \in Lane : t[i] = v[f[i]], NEW m
  PROVE  Cardinality(UptoIn(t, m)) = Cardinality(UptoIn(v, m))
<1> DEFINE p == [i \in Lane |-> IF t[i] <= m THEN 1 ELSE 0]
           q == [i \in Lane |-> IF v[i] <= m THEN 1 ELSE 0]
<1>1. f \in [Lane -> Lane] /\ \A i, j \in Lane : f[i] = f[j] => i = j
  BY DEF OntoAll, LanesApart
<1>2. \A j \in Lane : \E i \in Lane : f[i] = j
  BY DEF OntoAll
<1>3. \A i \in Lane : p[i] = q[f[i]]
  BY <1>1
<1>4. \A i \in Lane : (p[i] = 1 <=> t[i] <= m) /\ (q[i] = 1 <=> v[i] <= m)
  OBVIOUS
<1> HIDE DEF p, q
<1>5. Count(p, Lane, 1) = Count(q, Lane, 1)
  BY <1>1, <1>2, <1>3, LanesFinite, CountBijection
<1>6. /\ {i \in Lane : p[i] = 1} = {i \in Lane : t[i] <= m}
      /\ {i \in Lane : q[i] = 1} = {i \in Lane : v[i] <= m}
  BY <1>4
<1> QED BY <1>5, <1>6 DEF Count, UptoIn

\* The only nondecreasing rearrangement is the one that sorted returns.
LEMMA SortedIsOnly ==
  ASSUME NEW v \in Vec, NEW t \in Vec, NEW f, OntoAll(f), \A i \in Lane : t[i] = v[f[i]],
         InOrder(t, 16)
  PROVE  \A c \in Lane : t[c] = Sorted(v)[c]
<1> SUFFICES ASSUME NEW c \in Lane PROVE t[c] = Sorted(v)[c]
  OBVIOUS
<1> DEFINE Upto(m) == Cardinality({i \in Lane : v[i] <= m})
           S == {m \in {v[i] : i \in Lane} : c < Upto(m)}
<1>1. Sorted(v)[c] = Min(S)
  BY DEF Sorted
<1>2. f \in [Lane -> Lane]
  BY DEF OntoAll
<1>3. c \in 0 .. 15 /\ Lane = 0 .. 15 /\ \A i \in Lane : i < 16 /\ i \in Int
  BY SixteenLanes
<1>4. \A i \in Lane : t[i] \in Int /\ v[i] \in Int
  <2>1. \A i \in Lane : t[i] \in Byte /\ v[i] \in Byte
    BY DEF Vec
  <2>2. \A n \in Byte : n \in Int
    BY SixteenLanes
  <2> QED BY <2>1, <2>2
<1>5. \A m : IsFiniteSet({i \in Lane : t[i] <= m})
             /\ Cardinality({i \in Lane : t[i] <= m}) = Upto(m)
  <2>1. ASSUME NEW m
        PROVE  /\ IsFiniteSet({i \in Lane : t[i] <= m})
               /\ Cardinality({i \in Lane : t[i] <= m}) = Upto(m)
    <3>1. {i \in Lane : t[i] <= m} \subseteq Lane
      OBVIOUS
    <3>2. IsFiniteSet({i \in Lane : t[i] <= m})
      BY <3>1, LanesFinite, FS_Subset
    <3>3. Cardinality(UptoIn(t, m)) = Cardinality(UptoIn(v, m))
      BY BroughtUpto
    <3> QED BY <3>2, <3>3 DEF UptoIn
  <2> HIDE DEF Upto
  <2> QED BY <2>1
<1> HIDE DEF Upto
<1>6. \A i, j \in Lane : i <= j => t[i] <= t[j]
  <2>1. \A i, j \in Lane : i <= j => i = j \/ (i < j /\ j < 16)
    BY <1>3
  <2> QED BY <1>4, <2>1 DEF InOrder
<1>7. t[c] \in S
  <2>1. t[c] \in {v[i] : i \in Lane}
    BY <1>2
  <2>2. 0 .. c \subseteq {i \in Lane : t[i] <= t[c]}
    <3>1. \A i \in 0 .. c : i \in Lane /\ i <= c
      BY <1>3
    <3> QED BY <1>6, <3>1
  <2>3. IsFiniteSet(0 .. c) /\ Cardinality(0 .. c) = c + 1
    <3>1. 0 \in Int /\ c \in Int /\ ~(0 > c) /\ c - 0 + 1 = c + 1
      BY <1>3
    <3> QED BY <3>1, FS_Interval
  <2>4. c + 1 <= Upto(t[c]) /\ Upto(t[c]) \in Nat
    <3> DEFINE T == {i \in Lane : t[i] <= t[c]}
    <3>1. IsFiniteSet(T) /\ Cardinality(T) = Upto(t[c]) /\ 0 .. c \subseteq T
      BY <1>5, <2>2
    <3> HIDE DEF T
    <3>2. Cardinality(T) \in Nat /\ Cardinality(0 .. c) <= Cardinality(T)
      BY <3>1, FS_Subset, FS_CardinalityType
    <3> QED BY <2>3, <3>1, <3>2
  <2>5. c < Upto(t[c])
    BY <1>3, <2>4
  <2> QED BY <2>1, <2>5
<1>8. ASSUME NEW m \in S
      PROVE  t[c] <= m
  <2>1. m \in Int /\ c < Upto(m)
    BY <1>4
  <2>2. SUFFICES ASSUME m < t[c] PROVE FALSE
    BY <1>4, <2>1
  <2>3. {i \in Lane : t[i] <= m} \subseteq 0 .. c - 1
    <3>1. ASSUME NEW i \in Lane, t[i] <= m
          PROVE  i \in 0 .. c - 1
      <4>1. ~(c <= i)
        BY <1>4, <1>6, <2>1, <2>2, <3>1
      <4> QED BY <1>3, <4>1
    <3> QED BY <3>1
  <2>4. IsFiniteSet(0 .. c - 1) /\ Cardinality(0 .. c - 1) = c
    <3>1. CASE c = 0
      <4>1. 0 .. c - 1 = {} /\ c = 0
        BY <3>1
      <4> QED BY <4>1, FS_EmptySet
    <3>2. CASE c # 0
      <4>1. 0 \in Int /\ c - 1 \in Int /\ ~(0 > c - 1) /\ (c - 1) - 0 + 1 = c
        BY <1>3, <3>2
      <4> QED BY <4>1, FS_Interval
    <3> QED BY <3>1, <3>2
  <2>5. Upto(m) <= c /\ Upto(m) \in Nat
    <3> DEFINE T == {i \in Lane : t[i] <= m}
    <3>1. IsFiniteSet(T) /\ Cardinality(T) = Upto(m) /\ T \subseteq 0 .. c - 1
      BY <1>5, <2>3
    <3> HIDE DEF T
    <3>2. Cardinality(T) \in Nat /\ Cardinality(T) <= Cardinality(0 .. c - 1)
      BY <2>4, <3>1, FS_Subset, FS_CardinalityType
    <3> QED BY <2>4, <3>1, <3>2
  <2> QED BY <1>3, <2>1, <2>5
<1>9. S \in SUBSET Int
  BY <1>4
<1> HIDE DEF S
<1>10. Min(S) = t[c]
  BY <1>7, <1>8, <1>9, MinIs
<1> QED BY <1>1, <1>10
\* What is known of the entries when round n starts, as long as there is one.
LEMMA InsertPlace ==
  ASSUME NEW t \in Vec, NEW n \in 0 .. 15
  PROVE  \E j \in 0 .. n : (\A l \in j .. n - 1 : t[l] > t[n]) /\ (j = 0 \/ t[j - 1] <= t[n])
<1> DEFINE S == {j \in 0 .. n : \A l \in j .. n - 1 : t[l] > t[n]}
<1>1. n \in S
  <2>1. \A l \in n .. n - 1 : FALSE
    OBVIOUS
  <2> QED BY <2>1
<1>2. PICK j \in S : \A l \in S : j <= l
  <2>1. S \subseteq Nat
    OBVIOUS
  <2> HIDE DEF S
  <2> QED BY <1>1, <2>1, LeastOfSome
<1>3. ASSUME j # 0
      PROVE  t[j - 1] <= t[n]
  <2>1. j - 1 \in 0 .. n /\ ~(j <= j - 1)
    BY <1>3
  <2>2. j - 1 \notin S
    BY <1>2, <2>1
  <2>3. PICK l \in j - 1 .. n - 1 : ~(t[l] > t[n])
    BY <2>1, <2>2
  <2>4. l = j - 1 \/ l \in j .. n - 1
    OBVIOUS
  <2>5. l = j - 1
    BY <2>3, <2>4
  <2>6. l \in 0 .. 15 /\ n \in 0 .. 15
    BY <2>1
  <2>7. t[l] \in Int /\ t[n] \in Int
    BY <2>6, ByteOfLane
  <2> QED BY <2>3, <2>5, <2>7
<1> QED BY <1>2, <1>3

InsertedAt(t, n, to) ==
  [l \in Lane |-> IF l = to THEN t[n] ELSE IF to < l /\ l <= n THEN t[l - 1] ELSE t[l]]

LEMMA InsertKeepsOrder ==
  ASSUME NEW t \in Vec, NEW n \in 0 .. 15, InOrder(t, n), NEW to \in 0 .. n,
         \A l \in to .. n - 1 : t[l] > t[n], to = 0 \/ t[to - 1] <= t[n]
  PROVE  InOrder(InsertedAt(t, n, to), n + 1)
<1> DEFINE u == InsertedAt(t, n, to)
<1>1. \A l \in Lane : l \in Int /\ l \in 0 .. 15 /\ t[l] \in Int
  <2>1. \A l \in Lane : l \in Int /\ l \in 0 .. 15
    BY SixteenLanes
  <2> QED BY <2>1, ByteOfLane
<1>2. n \in Lane /\ n \in Int /\ to \in Int /\ 0 <= to /\ to <= n
  BY SixteenLanes
<1>3. \A l \in Lane : l < to => t[l] <= t[n]
  <2>1. CASE to = 0
    BY <1>1, <1>2, <2>1
  <2>2. CASE to # 0
    <3>1. to - 1 \in Lane /\ t[to - 1] <= t[n] /\ to - 1 < n
      BY <1>2, <2>2, SixteenLanes
    <3>2. ASSUME NEW l \in Lane, l < to
          PROVE  t[l] <= t[n]
      <4>1. l = to - 1 \/ l < to - 1
        BY <1>1, <1>2, <3>2
      <4>2. t[l] <= t[to - 1]
        BY <1>1, <3>1, <4>1 DEF InOrder
      <4> QED BY <1>1, <1>2, <3>1, <4>2
    <3> QED BY <3>2
  <2> QED BY <2>1, <2>2
<1>4. \A l \in Lane : to <= l /\ l < n => t[n] <= t[l]
  <2>1. \A l \in Lane : to <= l /\ l < n => l \in to .. n - 1
    BY <1>1, <1>2
  <2> QED BY <1>1, <1>2, <2>1
<1>5. SUFFICES ASSUME NEW i \in Lane, NEW j \in Lane, i < j, j < n + 1
               PROVE  u[i] <= u[j]
  BY DEF InOrder
<1>6. i \in Int /\ j \in Int /\ j <= n /\ i < n
  BY <1>1, <1>2, <1>5
<1>7. /\ u[i] = IF i = to THEN t[n] ELSE IF to < i /\ i <= n THEN t[i - 1] ELSE t[i]
      /\ u[j] = IF j = to THEN t[n] ELSE IF to < j /\ j <= n THEN t[j - 1] ELSE t[j]
  BY DEF InsertedAt
<1> HIDE DEF u
<1>8. \A p, q \in Lane : p < q /\ q < n => t[p] <= t[q]
  BY DEF InOrder
<1>9. CASE j < to
  <2>1. u[i] = t[i] /\ u[j] = t[j] /\ j < n
    BY <1>2, <1>5, <1>6, <1>7, <1>9
  <2> QED BY <1>5, <1>8, <2>1
<1>10. CASE j = to
  <2>1. u[i] = t[i] /\ u[j] = t[n] /\ i < to
    BY <1>2, <1>5, <1>6, <1>7, <1>10
  <2> QED BY <1>3, <2>1
<1>11. CASE to < j
  <2>1. u[j] = t[j - 1] /\ j - 1 \in Lane /\ j - 1 < n /\ to <= j - 1 /\ i <= j - 1
    <3>1. 0 <= j - 1 /\ j - 1 <= 15 /\ j - 1 \in Int
      BY <1>2, <1>6, <1>11
    <3>2. j - 1 \in Lane
      BY <3>1, SixteenLanes
    <3> QED BY <1>2, <1>5, <1>6, <1>7, <1>11, <3>2
  <2>2. CASE i < to
    <3>1. u[i] = t[i]
      BY <1>2, <1>6, <1>7, <2>2
    <3>2. t[i] <= t[n] /\ t[n] <= t[j - 1]
      BY <1>3, <1>4, <2>1, <2>2
    <3> QED BY <1>1, <1>2, <2>1, <3>1, <3>2
  <2>3. CASE i = to
    <3>1. u[i] = t[n]
      BY <1>7, <2>3
    <3> QED BY <1>4, <2>1, <3>1
  <2>4. CASE to < i
    <3>1. u[i] = t[i - 1] /\ i - 1 \in Lane /\ i - 1 < j - 1
      <4>1. 0 <= i - 1 /\ i - 1 <= 15 /\ i - 1 \in Int
        BY <1>2, <1>6, <2>4
      <4>2. i - 1 \in Lane
        BY <4>1, SixteenLanes
      <4> QED BY <1>2, <1>5, <1>6, <1>7, <2>4, <4>2
    <3> QED BY <1>8, <2>1, <3>1
  <2> QED BY <1>2, <1>6, <2>2, <2>3, <2>4
<1> QED BY <1>2, <1>6, <1>9, <1>10, <1>11

LEMMA InsertBrings ==
  ASSUME NEW v \in Vec, NEW t, NEW n \in 0 .. 15, NEW f, Brings(f, v, t, n), NEW to \in 0 .. n
  PROVE  \E h : Brings(h, v, InsertedAt(t, n, to), n + 1)
<1> DEFINE g == [l \in Lane |-> IF l = to THEN n ELSE IF to < l /\ l <= n THEN l - 1 ELSE l]
           u == InsertedAt(t, n, to)
           h == [l \in Lane |-> f[g[l]]]
<1>1. \A l \in 0 .. 15 :
        LET e == IF l = to THEN n ELSE IF to < l /\ l <= n THEN l - 1 ELSE l
        IN  e \in 0 .. 15 /\ (l >= n + 1 => e = l /\ l >= n)
  OBVIOUS
<1>2. \A l \in Lane : g[l] = IF l = to THEN n ELSE IF to < l /\ l <= n THEN l - 1 ELSE l
  OBVIOUS
<1>3. g \in [Lane -> Lane]
  BY <1>1, SixteenLanes
<1> HIDE DEF g
<1> DEFINE back(l) == IF l = n THEN to ELSE IF to <= l /\ l < n THEN l + 1 ELSE l
<1>4. ASSUME NEW l \in Lane
      PROVE  back(g[l]) = l
  <2>1. l \in 0 .. 15
    BY SixteenLanes
  <2>2. CASE l = to
    BY <1>2, <2>1, <2>2
  <2>3. CASE l # to /\ to < l /\ l <= n
    <3>1. g[l] = l - 1
      BY <1>2, <2>3
    <3> QED BY <2>1, <2>3, <3>1
  <2>4. CASE l # to /\ ~(to < l /\ l <= n)
    <3>1. g[l] = l
      BY <1>2, <2>4
    <3> QED BY <2>1, <2>4, <3>1
  <2> QED BY <2>2, <2>3, <2>4
<1>5. ASSUME NEW l \in Lane
      PROVE  \E z \in Lane : g[z] = l
  <2>1. l \in 0 .. 15
    BY SixteenLanes
  <2>2. back(l) \in 0 .. 15
    BY <2>1
  <2>3. back(l) \in Lane
    BY <2>2, SixteenLanes
  <2>4. CASE l = n
    BY <1>2, <2>1, <2>3, <2>4
  <2>5. CASE l # n /\ to <= l /\ l < n
    <3>1. back(l) = l + 1 /\ l + 1 # to /\ to < l + 1 /\ l + 1 <= n /\ (l + 1) - 1 = l
      BY <2>1, <2>5
    <3>2. g[l + 1] = l
      BY <1>2, <2>3, <3>1
    <3> QED BY <2>3, <3>1, <3>2
  <2>6. CASE l # n /\ ~(to <= l /\ l < n)
    <3>1. l # to /\ ~(to < l /\ l <= n)
      BY <2>1, <2>6
    <3> QED BY <1>2, <3>1
  <2> QED BY <2>4, <2>5, <2>6
<1>6. \A l \in Lane : l >= n + 1 => g[l] = l /\ l >= n
  BY <1>1, <1>2, SixteenLanes
<1>7. \A i, j \in Lane : g[i] = g[j] => i = j
  <2> HIDE DEF back
  <2> QED BY <1>4
<1>8. /\ f \in [Lane -> Lane] /\ \A i, j \in Lane : f[i] = f[j] => i = j
      /\ \A j \in Lane : \E i \in Lane : f[i] = j
      /\ \A i \in Lane : i >= n => f[i] = i
      /\ t \in Vec /\ \A i \in Lane : t[i] = v[f[i]]
  BY DEF Brings, OntoAll, LanesApart
<1>9. h \in [Lane -> Lane] /\ \A l \in Lane : h[l] = f[g[l]] /\ g[l] \in Lane
  BY <1>3, <1>8
<1> HIDE DEF h
<1>10. OntoAll(h)
  <2>1. LanesApart(h)
    BY <1>7, <1>8, <1>9 DEF LanesApart
  <2>2. ASSUME NEW j \in Lane
        PROVE  \E i \in Lane : h[i] = j
    <3>1. PICK l \in Lane : f[l] = j
      BY <1>8
    <3>2. PICK z \in Lane : g[z] = l
      BY <1>5
    <3> QED BY <1>9, <3>1, <3>2
  <2> QED BY <1>9, <2>1, <2>2 DEF OntoAll
<1>11. \A l \in Lane : u[l] = t[g[l]]
  <2>1. \A l \in Lane : u[l] = IF l = to THEN t[n] ELSE IF to < l /\ l <= n THEN t[l - 1] ELSE t[l]
    BY DEF InsertedAt
  <2> HIDE DEF u
  <2> QED BY <1>2, <2>1
<1>12. u \in Vec
  <2>1. \A l \in Lane : t[g[l]] \in Byte
    BY <1>8, <1>9 DEF Vec
  <2>2. u = [l \in Lane |-> u[l]]
    BY DEF InsertedAt
  <2> HIDE DEF u
  <2> QED BY <1>11, <2>1, <2>2 DEF Vec
<1>13. \A l \in Lane : u[l] = v[h[l]]
  BY <1>8, <1>9, <1>11
<1>14. \A l \in Lane : l >= n + 1 => h[l] = l
  BY <1>6, <1>8, <1>9
<1> HIDE DEF u
<1>15. Brings(h, v, u, n + 1)
  BY <1>10, <1>12, <1>13, <1>14 DEF Brings
<1> QED BY <1>15 DEF u

LEMMA InsertedNext ==
  ASSUME NEW v \in Vec, NEW t, NEW n \in 0 .. 15, Inserted(v, t, n)
  PROVE  LET to == CHOOSE j \in 0 .. n :
                     (\A l \in j .. n - 1 : t[l] > t[n]) /\ (j = 0 \/ t[j - 1] <= t[n])
         IN  Inserted(v, InsertedAt(t, n, to), n + 1)
<1> DEFINE to == CHOOSE j \in 0 .. n :
                   (\A l \in j .. n - 1 : t[l] > t[n]) /\ (j = 0 \/ t[j - 1] <= t[n])
<1>1. PICK f : Brings(f, v, t, n)
  BY DEF Inserted
<1>2. t \in Vec /\ InOrder(t, n)
  BY <1>1 DEF Inserted, Brings
<1>3. to \in 0 .. n /\ (\A l \in to .. n - 1 : t[l] > t[n]) /\ (to = 0 \/ t[to - 1] <= t[n])
  BY <1>2, InsertPlace
<1> HIDE DEF to
<1>4. InOrder(InsertedAt(t, n, to), n + 1)
  BY <1>2, <1>3, InsertKeepsOrder
<1>5. \E h : Brings(h, v, InsertedAt(t, n, to), n + 1)
  BY <1>1, <1>3, InsertBrings
<1>6. Inserted(v, InsertedAt(t, n, to), n + 1)
  BY <1>4, <1>5 DEF Inserted
<1> QED BY <1>6 DEF to
\* The front in order and the rest filled with 0xFF is what sorted makes of it.
Filled(v, n) == [j \in Lane |-> IF j < n THEN v[j] ELSE 255]

LEMMA InsertedForm ==
  ASSUME NEW v \in Vec, NEW t, NEW n \in 0 .. 16, Inserted(v, t, n), NEW i \in Lane
  PROVE  t[i] = IF i < n THEN Sorted(Filled(v, n))[i] ELSE v[i]
<1> DEFINE p == [j \in Lane |-> IF j < n THEN t[j] ELSE 255]
           q == Filled(v, n)
<1>1. PICK f : Brings(f, v, t, n)
  BY DEF Inserted
<1>2. /\ f \in [Lane -> Lane] /\ \A l, j \in Lane : f[l] = f[j] => l = j
      /\ OntoAll(f) /\ \A l \in Lane : l >= n => f[l] = l
      /\ t \in Vec /\ \A l \in Lane : t[l] = v[f[l]]
  BY <1>1 DEF Brings, OntoAll, LanesApart
<1>3. /\ \A l \in Lane : l \in Int /\ l < 16
      /\ \A m \in Byte : m \in Int /\ m <= 255
      /\ 255 \in Byte
  BY SixteenLanes
<1>4. \A l \in Lane : t[l] \in Byte /\ v[l] \in Byte
  BY <1>2 DEF Vec
<1>5. p \in Vec /\ q \in Vec
  BY <1>3, <1>4 DEF Vec, Filled
<1>6. \A l \in Lane : l < n <=> f[l] < n
  <2>1. \A l \in Lane : l \in Int /\ (l < n <=> ~(l >= n)) /\ f[l] \in Lane
    BY <1>2, <1>3
  <2> QED BY <1>2, <2>1
<1>7. /\ \A l \in Lane : p[l] = IF l < n THEN t[l] ELSE 255
      /\ \A l \in Lane : q[l] = IF l < n THEN v[l] ELSE 255
  BY DEF Filled
<1> HIDE DEF p, q
<1>8. \A l \in Lane : p[l] = q[f[l]]
  BY <1>2, <1>6, <1>7
<1>9. InOrder(p, 16)
  <2>1. SUFFICES ASSUME NEW l \in Lane, NEW j \in Lane, l < j PROVE p[l] <= p[j]
    BY DEF InOrder
  <2>2. t[l] \in Int /\ t[l] <= 255 /\ l \in Int /\ j \in Int
    BY <1>3, <1>4
  <2>3. CASE j < n
    <3>1. t[l] <= t[j]
      BY <2>1, <2>3 DEF InOrder, Inserted
    <3> QED BY <1>7, <2>1, <2>2, <2>3, <3>1
  <2>4. CASE ~(j < n)
    BY <1>7, <2>2, <2>4
  <2> QED BY <2>3, <2>4
<1>10. p[i] = Sorted(q)[i]
  BY <1>2, <1>5, <1>8, <1>9, SortedIsOnly
<1>11. CASE i < n
  BY <1>7, <1>10, <1>11 DEF q
<1>12. CASE ~(i < n)
  <2>1. i >= n
    BY <1>3, <1>12
  <2>2. f[i] = i
    BY <1>2, <2>1
  <2> QED BY <1>2, <1>12, <2>2
<1> QED BY <1>11, <1>12

LEMMA InsertedFully ==
  ASSUME NEW v \in Vec, NEW t, Inserted(v, t, 16)
  PROVE  t = Sorted(v)
<1>1. PICK f : Brings(f, v, t, 16)
  BY DEF Inserted
<1>2. OntoAll(f) /\ t \in Vec /\ \A l \in Lane : t[l] = v[f[l]]
  BY <1>1 DEF Brings
<1>3. \A c \in Lane : t[c] = Sorted(v)[c]
  BY <1>2, SortedIsOnly DEF Inserted
<1>4. t = [c \in Lane |-> t[c]]
  BY <1>2 DEF Vec
<1>5. Sorted(v) = [c \in Lane |-> Sorted(v)[c]]
  BY DEF Sorted
<1> QED BY <1>3, <1>4, <1>5
-----------------------------------------------------------------------------
(***************************************************************************)
(* The inductive invariant of the loops: the types of the vectors, how far *)
(* the function that runs is, and what its working vectors hold.           *)
(***************************************************************************)
RoundsOf(p) ==
  CASE p = "permutation_of" -> 3
    [] p \in {"partial_sums", "partial_max", "partial_min", "cycles_partition"} -> 4
    [] p = "sort_odd_even" -> 8
    [] p = "sort_pair" -> 9
    [] p = "insertion_sort" -> 16
    [] OTHER -> 15

ArgumentsTyped ==
  /\ prog \in Programs
  /\ a \in Vec /\ b \in Vec
  /\ prog \in {"lehmer", "cycles_partition", "left_weak_leq"} => a \in Perms /\ b \in Perms

VectorsTyped == x \in Vec /\ y \in Vec /\ res \in Vec

RoundsCounted ==
  /\ k \in 0 .. RoundsOf(prog)
  /\ done \in BOOLEAN
  /\ prog # "left_weak_leq" => (done <=> k = RoundsOf(prog))

Computed ==
  /\ prog = "permutation_of" => PositionsKnown(a, b, x, res, k)
  /\ prog = "partial_sums" => BlockSum(a, x, k)
  /\ prog = "partial_max" => BlockMax(a, x, k)
  /\ prog = "partial_min" => BlockMin(a, x, k)
  /\ prog = "eval16_cycle" => Turned(a, x, res, k)
  /\ prog = "lehmer" => Compared(a, x, res, k)
  /\ prog = "cycles_partition" => b = a /\ Partitioned(a, x, y, k)
  /\ prog = "left_weak_leq" => WeakKnown(a, b, x, y, res, k, done)
  /\ prog \in {"sort_pair", "sort_odd_even"} => Kept(x, a)
  /\ prog = "insertion_sort" => Inserted(a, x, k)

LoopInv == ArgumentsTyped /\ VectorsTyped /\ RoundsCounted /\ Computed
LEMMA LoopInit == Init => LoopInv
<1> SUFFICES ASSUME Init PROVE LoopInv
  OBVIOUS
<1>1. /\ prog \in Programs /\ prog \in Loops
      /\ x = a /\ y = b /\ k = 0 /\ done = FALSE
  BY ProgramsAssumption DEF Init
<1>2. /\ a \in Vec /\ b \in Vec
      /\ prog \in {"lehmer", "cycles_partition", "left_weak_leq"} => a \in Perms /\ b \in Perms
      /\ prog \in {"lehmer", "cycles_partition"} => b = a
  <2>1. PICK args \in Arguments[prog] : a = args[1] /\ b = args[2]
    BY DEF Init
  <2>2. /\ args \in Vec \X Vec
        /\ prog \in {"lehmer", "cycles_partition", "left_weak_leq"} => args \in Perms \X Perms
        /\ prog \in {"lehmer", "cycles_partition"} => args[1] = args[2]
    BY <1>1, <2>1, ProgramsAssumption
  <2> QED BY <2>1, <2>2
<1>3. /\ prog = "permutation_of" => res = Raised(Zero, NotInFront(a, b))
      /\ prog = "eval16_cycle" => res = Raised(Zero, {i \in Lane : a[i] = i})
      /\ prog = "lehmer" => res = [i \in Lane |-> AsByte(-i)]
      /\ prog \notin {"permutation_of", "eval16_cycle", "lehmer"} => res = Zero
  <2>1. res = CASE prog = "permutation_of" -> Plus(Zero, LAMBDA i : i \in NotInFront(a, b))
                [] prog = "eval16_cycle" -> Plus(Zero, LAMBDA i : a[i] = i)
                [] prog = "lehmer" -> [i \in Lane |-> AsByte(-i)]
                [] OTHER -> Zero
    BY DEF Init
  <2>2. /\ Plus(Zero, LAMBDA i : i \in NotInFront(a, b)) = Raised(Zero, NotInFront(a, b))
        /\ Plus(Zero, LAMBDA i : a[i] = i) = Raised(Zero, {i \in Lane : a[i] = i})
    BY DEF Plus, Raised
  <2> QED BY <2>1, <2>2
<1>4. Zero \in Vec
  BY SixteenLanes DEF Zero
<1>5. res \in Vec
  <2>1. CASE prog \in {"permutation_of", "eval16_cycle"}
    BY <1>3, <1>4, <2>1, SixteenLanes, RaisedType
  <2>2. CASE prog = "lehmer"
    <3>1. \A i \in Lane : AsByte(-i) \in Byte
      BY SixteenLanes, BytesType
    <3> QED BY <1>3, <2>2, <3>1 DEF Vec
  <2>3. CASE prog \notin {"permutation_of", "eval16_cycle", "lehmer"}
    BY <1>3, <1>4, <2>3
  <2> QED BY <2>1, <2>2, <2>3
<1>6. RoundsCounted
  <2>1. RoundsOf(prog) \in 3 .. 16
    BY <1>1 DEF RoundsOf, Loops
  <2>2. 0 \in 0 .. RoundsOf(prog) /\ 0 # RoundsOf(prog)
    BY <2>1
  <2>3. done \in BOOLEAN /\ ~done
    BY <1>1
  <2>4. k \in 0 .. RoundsOf(prog) /\ k # RoundsOf(prog)
    BY <1>1, <2>2
  <2> QED BY <2>3, <2>4 DEF RoundsCounted
<1>7. Computed
  <2>1. CASE prog = "permutation_of"
    BY <1>1, <1>2, <1>3, <2>1, PositionsStart DEF Computed
  <2>2. CASE prog = "partial_sums"
    BY <1>1, <1>2, <2>2, BlockSumStart DEF Computed
  <2>3. CASE prog \in {"partial_max", "partial_min"}
    BY <1>1, <1>2, <2>3, BlockExtremaStart DEF Computed
  <2>4. CASE prog = "eval16_cycle"
    BY <1>1, <1>2, <1>3, <2>4, TurnedStart DEF Computed
  <2>5. CASE prog = "lehmer"
    BY <1>1, <1>2, <1>3, <2>5, ComparedStart DEF Computed
  <2>6. CASE prog = "cycles_partition"
    BY <1>1, <1>2, <2>6, PartitionedStart DEF Computed
  <2>7. CASE prog = "left_weak_leq"
    BY <1>1, <1>2, <1>3, <2>7, WeakStart DEF Computed
  <2>8. CASE prog \in {"sort_pair", "sort_odd_even"}
    BY <1>1, <1>2, <2>8 DEF Computed, Kept
  <2>9. CASE prog = "insertion_sort"
    BY <1>1, <1>2, <2>9, InsertedStart DEF Computed
  <2> QED BY <1>1, <2>1, <2>2, <2>3, <2>4, <2>5, <2>6, <2>7, <2>8, <2>9 DEF Loops
<1> QED BY <1>1, <1>2, <1>5, <1>6, <1>7 DEF LoopInv, ArgumentsTyped, VectorsTyped

\* What an iteration leaves to show: the vectors it computes.
LEMMA IterateFacts ==
  ASSUME LoopInv, NEW p \in Loops \ {"left_weak_leq"}, Iterate(p, RoundsOf(p))
  PROVE  /\ prog = p /\ prog' = p /\ a' = a /\ b' = b /\ k' = k + 1
         /\ a \in Vec /\ b \in Vec /\ x \in Vec /\ y \in Vec /\ res \in Vec
         /\ k \in 0 .. RoundsOf(p) - 1
         /\ ArgumentsTyped' /\ RoundsCounted'
<1>1. /\ prog = p /\ ~done /\ k' = k + 1 /\ done' = (k + 1 = RoundsOf(p))
      /\ prog' = prog /\ a' = a /\ b' = b
  BY DEF Iterate
<1>2. RoundsOf(p) \in 3 .. 16
  BY DEF RoundsOf, Loops
<1>3. k \in 0 .. RoundsOf(p) /\ k # RoundsOf(p)
  BY <1>1 DEF LoopInv, RoundsCounted
<1>4. k \in 0 .. RoundsOf(p) - 1 /\ k + 1 \in 0 .. RoundsOf(p)
  BY <1>2, <1>3
<1>5. RoundsCounted'
  <2>1. RoundsOf(p)' = RoundsOf(p)
    BY DEF RoundsOf
  <2>2. done' \in BOOLEAN /\ (done' <=> k' = RoundsOf(p))
    BY <1>1
  <2> QED BY <1>1, <1>4, <2>1, <2>2 DEF RoundsCounted
<1>6. ArgumentsTyped'
  BY <1>1 DEF LoopInv, ArgumentsTyped
<1> QED BY <1>1, <1>4, <1>5, <1>6 DEF LoopInv, ArgumentsTyped, VectorsTyped
LEMMA PositionsType ==
  ASSUME NEW v \in Vec, NEW w, NEW t, NEW r, NEW n \in 0 .. 3, PositionsKnown(v, w, t, r, n)
  PROVE  t \in Vec /\ r \in Vec
<1>1. Gathered(n) \in [Lane -> Lane]
  BY GatheredType
<1>2. t = [l \in Lane |-> v[Gathered(n)[l]]] /\ r \in Vec
  BY SixteenLanes DEF PositionsKnown
<1>3. \A l \in Lane : v[Gathered(n)[l]] \in Byte
  BY <1>1 DEF Vec
<1> QED BY <1>2, <1>3 DEF Vec

\* One step of each loop preserves the invariant.
LEMMA PositionStep == LoopInv /\ PositionRound => LoopInv'
<1> SUFFICES ASSUME LoopInv, PositionRound PROVE LoopInv'
  OBVIOUS
<1> DEFINE u == Permuted(x, inverting_rounds[k + 1])
<1>1. RoundsOf("permutation_of") = 3 /\ "permutation_of" \in Loops \ {"left_weak_leq"}
  BY DEF RoundsOf, Loops
<1>2. Iterate("permutation_of", RoundsOf("permutation_of"))
  BY <1>1 DEF PositionRound
<1>3. /\ prog = "permutation_of" /\ prog' = prog /\ a' = a /\ b' = b /\ k' = k + 1
      /\ a \in Vec /\ b \in Vec /\ x \in Vec /\ y \in Vec /\ res \in Vec
      /\ k \in 0 .. 2 /\ ArgumentsTyped' /\ RoundsCounted'
  <2>1. 3 - 1 = 2
    OBVIOUS
  <2> QED BY <1>1, <1>2, <2>1, IterateFacts
<1>4. PositionsKnown(a, b, x, res, k)
  BY <1>3 DEF LoopInv, Computed
<1>5. x' = u /\ y' = y
  BY DEF PositionRound
<1>6. res' = Raised(VAdd(res, res), NotInFront(u, b))
  <2>1. res' = Plus(VAdd(res, res), LAMBDA i : i \in NotInFront(x', b))
    BY DEF PositionRound
  <2> QED BY <1>5, <2>1 DEF Plus, Raised
<1>7. PositionsKnown(a, b, u, Raised(VAdd(res, res), NotInFront(u, b)), k + 1)
  BY <1>3, <1>4, PositionsNext
<1>8. Computed'
  BY <1>3, <1>5, <1>6, <1>7 DEF Computed
<1>9. VectorsTyped'
  <2>1. k + 1 \in 0 .. 3
    BY <1>3
  <2>2. u \in Vec /\ res' \in Vec
    BY <1>3, <1>6, <1>7, <2>1, PositionsType
  <2> QED BY <1>3, <1>5, <2>2 DEF VectorsTyped
<1> QED BY <1>3, <1>8, <1>9 DEF LoopInv
LEMMA SumStep == LoopInv /\ SumRound => LoopInv'
<1> SUFFICES ASSUME LoopInv, SumRound PROVE LoopInv'
  OBVIOUS
<1>1. RoundsOf("partial_sums") = 4 /\ "partial_sums" \in Loops \ {"left_weak_leq"}
  BY DEF RoundsOf, Loops
<1>2. Iterate("partial_sums", RoundsOf("partial_sums"))
  BY <1>1 DEF SumRound
<1>3. /\ prog = "partial_sums" /\ prog' = prog /\ a' = a /\ b' = b /\ k' = k + 1
      /\ a \in Vec /\ b \in Vec /\ x \in Vec /\ y \in Vec /\ res \in Vec
      /\ k \in 0 .. 3 /\ ArgumentsTyped' /\ RoundsCounted'
  <2>1. 4 - 1 = 3
    OBVIOUS
  <2> QED BY <1>1, <1>2, <2>1, IterateFacts
<1>4. BlockSum(a, x, k)
  BY <1>3 DEF LoopInv, Computed
<1>5. x' = VAdd(x, Permuted(x, summing_rounds[k + 1])) /\ y' = y /\ res' = res
  BY DEF SumRound
<1>6. BlockSum(a, VAdd(x, Permuted(x, summing_rounds[k + 1])), k + 1)
  BY <1>3, <1>4, BlockSumNext
<1>7. BlockSum(a, x', k')
  BY <1>3, <1>5, <1>6
<1>8. Computed'
  BY <1>3, <1>7 DEF Computed
<1>9. VectorsTyped'
  BY <1>3, <1>5, <1>7 DEF VectorsTyped, BlockSum
<1> QED BY <1>3, <1>8, <1>9 DEF LoopInv

LEMMA MaxStep == LoopInv /\ MaxRound => LoopInv'
<1> SUFFICES ASSUME LoopInv, MaxRound PROVE LoopInv'
  OBVIOUS
<1>1. RoundsOf("partial_max") = 4 /\ "partial_max" \in Loops \ {"left_weak_leq"}
  BY DEF RoundsOf, Loops
<1>2. Iterate("partial_max", RoundsOf("partial_max"))
  BY <1>1 DEF MaxRound
<1>3. /\ prog = "partial_max" /\ prog' = prog /\ a' = a /\ b' = b /\ k' = k + 1
      /\ a \in Vec /\ b \in Vec /\ x \in Vec /\ y \in Vec /\ res \in Vec
      /\ k \in 0 .. 3 /\ ArgumentsTyped' /\ RoundsCounted'
  <2>1. 4 - 1 = 3
    OBVIOUS
  <2> QED BY <1>1, <1>2, <2>1, IterateFacts
<1>4. BlockMax(a, x, k)
  BY <1>3 DEF LoopInv, Computed
<1>5. x' = VMax(x, Permuted(x, summing_rounds[k + 1])) /\ y' = y /\ res' = res
  BY DEF MaxRound
<1>6. BlockMax(a, VMax(x, Permuted(x, summing_rounds[k + 1])), k + 1)
  BY <1>3, <1>4, BlockMaxNext
<1>7. BlockMax(a, x', k')
  BY <1>3, <1>5, <1>6
<1>8. Computed'
  BY <1>3, <1>7 DEF Computed
<1>9. VectorsTyped'
  BY <1>3, <1>5, <1>7 DEF VectorsTyped, BlockMax
<1> QED BY <1>3, <1>8, <1>9 DEF LoopInv

LEMMA MinStep == LoopInv /\ MinRound => LoopInv'
<1> SUFFICES ASSUME LoopInv, MinRound PROVE LoopInv'
  OBVIOUS
<1>1. RoundsOf("partial_min") = 4 /\ "partial_min" \in Loops \ {"left_weak_leq"}
  BY DEF RoundsOf, Loops
<1>2. Iterate("partial_min", RoundsOf("partial_min"))
  BY <1>1 DEF MinRound
<1>3. /\ prog = "partial_min" /\ prog' = prog /\ a' = a /\ b' = b /\ k' = k + 1
      /\ a \in Vec /\ b \in Vec /\ x \in Vec /\ y \in Vec /\ res \in Vec
      /\ k \in 0 .. 3 /\ ArgumentsTyped' /\ RoundsCounted'
  <2>1. 4 - 1 = 3
    OBVIOUS
  <2> QED BY <1>1, <1>2, <2>1, IterateFacts
<1>4. BlockMin(a, x, k)
  BY <1>3 DEF LoopInv, Computed
<1>5. x' = VMin(x, Permuted(x, mining_rounds[k + 1])) /\ y' = y /\ res' = res
  BY DEF MinRound
<1>6. BlockMin(a, VMin(x, Permuted(x, mining_rounds[k + 1])), k + 1)
  BY <1>3, <1>4, BlockMinNext
<1>7. BlockMin(a, x', k')
  BY <1>3, <1>5, <1>6
<1>8. Computed'
  BY <1>3, <1>7 DEF Computed
<1>9. VectorsTyped'
  BY <1>3, <1>5, <1>7 DEF VectorsTyped, BlockMin
<1> QED BY <1>3, <1>8, <1>9 DEF LoopInv

LEMMA CycleStep == LoopInv /\ CycleRound => LoopInv'
<1> SUFFICES ASSUME LoopInv, CycleRound PROVE LoopInv'
  OBVIOUS
<1>1. RoundsOf("eval16_cycle") = 15 /\ "eval16_cycle" \in Loops \ {"left_weak_leq"}
  BY DEF RoundsOf, Loops
<1>2. Iterate("eval16_cycle", RoundsOf("eval16_cycle"))
  BY <1>1 DEF CycleRound
<1>3. /\ prog = "eval16_cycle" /\ prog' = prog /\ a' = a /\ b' = b /\ k' = k + 1
      /\ a \in Vec /\ b \in Vec /\ x \in Vec /\ y \in Vec /\ res \in Vec
      /\ k \in 0 .. 14 /\ ArgumentsTyped' /\ RoundsCounted'
  <2>1. 15 - 1 = 14
    OBVIOUS
  <2> QED BY <1>1, <1>2, <2>1, IterateFacts
<1> DEFINE u == Permuted(x, left_cycle)
<1>4. Turned(a, x, res, k)
  BY <1>3 DEF LoopInv, Computed
<1>5. x' = u /\ y' = y
  BY DEF CycleRound
<1>6. res' = Raised(res, {i \in Lane : u[i] = i})
  <2>1. res' = Plus(res, LAMBDA i : x'[i] = i)
    BY DEF CycleRound
  <2> QED BY <1>5, <2>1 DEF Plus, Raised
<1>7. Turned(a, u, Raised(res, {i \in Lane : u[i] = i}), k + 1)
  BY <1>3, <1>4, TurnedNext
<1> HIDE DEF u
<1>8. Turned(a, x', res', k')
  BY <1>3, <1>5, <1>6, <1>7
<1>9. Computed'
  BY <1>3, <1>8 DEF Computed
<1>10. VectorsTyped'
  <2>1. k' \in 0 .. 15
    BY <1>3
  <2>2. x' \in Vec /\ res' \in [Lane -> 0 .. 255]
    BY <1>3, <1>8, <2>1, TurnedType
  <2>3. res' \in Vec
    BY <2>2, SixteenLanes
  <2> QED BY <1>3, <1>5, <2>2, <2>3 DEF VectorsTyped
<1> QED BY <1>3, <1>9, <1>10 DEF LoopInv

LEMMA LehmerStep == LoopInv /\ LehmerRound => LoopInv'
<1> SUFFICES ASSUME LoopInv, LehmerRound PROVE LoopInv'
  OBVIOUS
<1>1. RoundsOf("lehmer") = 15 /\ "lehmer" \in Loops \ {"left_weak_leq"}
  BY DEF RoundsOf, Loops
<1>2. Iterate("lehmer", RoundsOf("lehmer"))
  BY <1>1 DEF LehmerRound
<1>3. /\ prog = "lehmer" /\ prog' = prog /\ a' = a /\ b' = b /\ k' = k + 1
      /\ a \in Vec /\ b \in Vec /\ x \in Vec /\ y \in Vec /\ res \in Vec
      /\ k \in 0 .. 14 /\ ArgumentsTyped' /\ RoundsCounted'
  <2>1. 15 - 1 = 14
    OBVIOUS
  <2> QED BY <1>1, <1>2, <2>1, IterateFacts
<1> DEFINE u == ShiftedLeft(x)
<1>4. Compared(a, x, res, k) /\ a \in Perms
  BY <1>3 DEF LoopInv, Computed, ArgumentsTyped
<1>5. x' = u /\ y' = y
  BY DEF LehmerRound
<1>6. res' = Raised(res, {i \in Lane : a[i] >= u[i]})
  <2>1. res' = Plus(res, LAMBDA i : a[i] >= x'[i])
    BY DEF LehmerRound
  <2> QED BY <1>5, <2>1 DEF Plus, Raised
<1>7. Compared(a, u, Raised(res, {i \in Lane : a[i] >= u[i]}), k + 1)
  BY <1>3, <1>4, ComparedNext
<1> HIDE DEF u
<1>8. Compared(a, x', res', k')
  BY <1>3, <1>5, <1>6, <1>7
<1>9. Computed'
  BY <1>3, <1>8 DEF Computed
<1>10. VectorsTyped'
  <2>1. k' \in 0 .. 15
    BY <1>3
  <2>2. x' \in Vec /\ res' \in [Lane -> 0 .. 255]
    BY <1>4, <1>8, <2>1, ComparedType
  <2>3. res' \in Vec
    BY <2>2, SixteenLanes
  <2> QED BY <1>3, <1>5, <2>2, <2>3 DEF VectorsTyped
<1> QED BY <1>3, <1>9, <1>10 DEF LoopInv

LEMMA PartitionStep == LoopInv /\ PartitionRound => LoopInv'
<1> SUFFICES ASSUME LoopInv, PartitionRound PROVE LoopInv'
  OBVIOUS
<1>1. RoundsOf("cycles_partition") = 4 /\ "cycles_partition" \in Loops \ {"left_weak_leq"}
  BY DEF RoundsOf, Loops
<1>2. Iterate("cycles_partition", RoundsOf("cycles_partition"))
  BY <1>1 DEF PartitionRound
<1>3. /\ prog = "cycles_partition" /\ prog' = prog /\ a' = a /\ b' = b /\ k' = k + 1
      /\ a \in Vec /\ b \in Vec /\ x \in Vec /\ y \in Vec /\ res \in Vec
      /\ k \in 0 .. 3 /\ ArgumentsTyped' /\ RoundsCounted'
  <2>1. 4 - 1 = 3
    OBVIOUS
  <2> QED BY <1>1, <1>2, <2>1, IterateFacts
<1> DEFINE least == IF k = 0 THEN Id ELSE x
<1>4. Partitioned(a, x, y, k) /\ a \in Perms /\ b = a
  BY <1>3 DEF LoopInv, Computed, ArgumentsTyped
<1>5. /\ x' = VMin(least, Permuted(least, y)) /\ y' = IF k < 3 THEN Permuted(y, y) ELSE y
      /\ res' = res
  BY DEF PartitionRound
<1>6. Partitioned(a, VMin(least, Permuted(least, y)), IF k < 3 THEN Permuted(y, y) ELSE y, k + 1)
  BY <1>3, <1>4, PartitionedNext
<1> HIDE DEF least
<1>7. Partitioned(a, x', y', k')
  BY <1>3, <1>5, <1>6
<1>8. Computed'
  BY <1>3, <1>4, <1>7 DEF Computed
<1>9. VectorsTyped'
  BY <1>3, <1>5, <1>7 DEF VectorsTyped, Partitioned
<1> QED BY <1>3, <1>8, <1>9 DEF LoopInv

LEMMA WeakStep == LoopInv /\ WeakRound => LoopInv'
<1> SUFFICES ASSUME LoopInv, WeakRound PROVE LoopInv'
  OBVIOUS
<1>1. /\ prog = "left_weak_leq" /\ prog' = prog /\ a' = a /\ b' = b /\ k' = k + 1 /\ ~done
      /\ x' = ShiftedRight(x) /\ y' = ShiftedRight(y)
  BY DEF WeakRound
<1>2. RoundsOf("left_weak_leq") = 15
  BY DEF RoundsOf
<1>3. /\ a \in Perms /\ b \in Perms /\ k \in 0 .. 15 /\ done = FALSE
      /\ WeakKnown(a, b, x, y, res, k, done)
  BY <1>1, <1>2 DEF LoopInv, ArgumentsTyped, RoundsCounted, Computed
<1>4. WeakKnown(a, b, x, y, res, k, FALSE)
  BY <1>3
<1> DEFINE leq == Inversions(a, x') \subseteq Inversions(b, y')
<1>5. /\ res' = [i \in Lane |-> IF leq THEN 1 ELSE 0]
      /\ done' = (~leq \/ k = 14)
  BY DEF WeakRound
<1>7. done' \in BOOLEAN /\ (done' <=> (~leq \/ k = 14))
  BY <1>5
<1>8. k + 1 \in 1 .. 15 /\ WeakKnown(a, b, ShiftedRight(x), ShiftedRight(y), res', k + 1, done')
  <2>1. LET q == Inversions(a, ShiftedRight(x)) \subseteq Inversions(b, ShiftedRight(y))
        IN  res' = [i \in Lane |-> IF q THEN 1 ELSE 0] /\ (done' <=> (~q \/ k = 14))
    BY <1>1, <1>5, <1>7
  <2> QED BY <1>3, <1>4, <1>7, <2>1, WeakNext
<1>9. k + 1 \in 1 .. 15 /\ WeakKnown(a, b, x', y', res', k', done')
  BY <1>1, <1>8
<1>10. Computed'
  BY <1>1, <1>9 DEF Computed
<1>11. k' \in 0 .. 15 /\ done' \in BOOLEAN
  BY <1>1, <1>5, <1>9
<1>12. RoundsCounted'
  BY <1>1, <1>2, <1>11 DEF RoundsCounted
<1>13. ArgumentsTyped'
  BY <1>1 DEF LoopInv, ArgumentsTyped
<1>14. VectorsTyped'
  <2>1. ShiftedBy(a, x', k') /\ ShiftedBy(b, y', k') /\ res' \in Vec
    BY <1>9, SixteenLanes DEF WeakKnown
  <2>2. x' \in Vec /\ y' \in Vec
    BY <1>3, <1>11, <2>1, ShiftedByType
  <2> QED BY <2>1, <2>2 DEF VectorsTyped
<1> QED BY <1>10, <1>12, <1>13, <1>14 DEF LoopInv

LEMMA PairStep == LoopInv /\ PairRound => LoopInv'
<1> SUFFICES ASSUME LoopInv, PairRound PROVE LoopInv'
  OBVIOUS
<1>1. RoundsOf("sort_pair") = 9 /\ "sort_pair" \in Loops \ {"left_weak_leq"}
  BY DEF RoundsOf, Loops
<1>2. Iterate("sort_pair", RoundsOf("sort_pair"))
  BY <1>1 DEF PairRound
<1>3. /\ prog = "sort_pair" /\ prog' = prog /\ a' = a /\ b' = b /\ k' = k + 1
      /\ a \in Vec /\ b \in Vec /\ x \in Vec /\ y \in Vec /\ res \in Vec
      /\ k \in 0 .. 8 /\ ArgumentsTyped' /\ RoundsCounted'
  <2>1. 9 - 1 = 8
    OBVIOUS
  <2> QED BY <1>1, <1>2, <2>1, IterateFacts
<1> DEFINE w == Permuted(x, sorting_rounds[k + 1])
           u == Blend(SMin(x, w), SMax(x, w), rounds_mask(k + 1))
<1>4. Kept(x, a)
  BY <1>3 DEF LoopInv, Computed
<1>5. x' = u /\ y' = y /\ res' = res
  BY DEF PairRound
<1>6. Kept(u, a)
  <2>1. k + 1 \in 1 .. 9
    BY <1>3
  <2> QED BY <1>3, <1>4, <2>1, PairRoundMoves
<1> HIDE DEF u
<1>7. Computed'
  BY <1>3, <1>5, <1>6 DEF Computed
<1>8. VectorsTyped'
  BY <1>3, <1>5, <1>6 DEF VectorsTyped, Kept
<1> QED BY <1>3, <1>7, <1>8 DEF LoopInv

LEMMA OddEvenStep == LoopInv /\ OddEvenRound => LoopInv'
<1> SUFFICES ASSUME LoopInv, OddEvenRound PROVE LoopInv'
  OBVIOUS
<1>1. RoundsOf("sort_odd_even") = 8 /\ "sort_odd_even" \in Loops \ {"left_weak_leq"}
  BY DEF RoundsOf, Loops
<1>2. Iterate("sort_odd_even", RoundsOf("sort_odd_even"))
  BY <1>1 DEF OddEvenRound
<1>3. /\ prog = "sort_odd_even" /\ prog' = prog /\ a' = a /\ b' = b /\ k' = k + 1
      /\ a \in Vec /\ b \in Vec /\ x \in Vec /\ y \in Vec /\ res \in Vec
      /\ k \in 0 .. 7 /\ ArgumentsTyped' /\ RoundsCounted'
  <2>1. 8 - 1 = 7
    OBVIOUS
  <2> QED BY <1>1, <1>2, <2>1, IterateFacts
<1> DEFINE mask == [i \in Lane |-> i % 2 = 1]
           w == Permuted(x, even)
           p == Blend(SMin(x, w), SMax(x, w), mask)
           u == Permuted(res', odd)
           q == Blend(SMax(res', u), SMin(res', u), mask)
<1>4. Kept(x, a)
  BY <1>3 DEF LoopInv, Computed
<1>5. res' = p /\ x' = q /\ y' = y
  BY DEF OddEvenRound
<1>6. Kept(p, a)
  BY <1>3, <1>4, NeighbourRoundMoves
<1> HIDE DEF p
<1>7. Kept(res', a)
  BY <1>5, <1>6
<1>8. Kept(q, a)
  BY <1>3, <1>7, NeighbourRoundMoves
<1> HIDE DEF q
<1>9. Computed'
  BY <1>3, <1>5, <1>8 DEF Computed
<1>10. VectorsTyped'
  BY <1>3, <1>5, <1>7, <1>8 DEF VectorsTyped, Kept
<1> QED BY <1>3, <1>9, <1>10 DEF LoopInv

LEMMA InsertStep == LoopInv /\ InsertRound => LoopInv'
<1> SUFFICES ASSUME LoopInv, InsertRound PROVE LoopInv'
  OBVIOUS
<1>1. RoundsOf("insertion_sort") = 16 /\ "insertion_sort" \in Loops \ {"left_weak_leq"}
  BY DEF RoundsOf, Loops
<1>2. Iterate("insertion_sort", RoundsOf("insertion_sort"))
  BY <1>1 DEF InsertRound
<1>3. /\ prog = "insertion_sort" /\ prog' = prog /\ a' = a /\ b' = b /\ k' = k + 1
      /\ a \in Vec /\ b \in Vec /\ x \in Vec /\ y \in Vec /\ res \in Vec
      /\ k \in 0 .. 15 /\ ArgumentsTyped' /\ RoundsCounted'
  <2>1. 16 - 1 = 15
    OBVIOUS
  <2> QED BY <1>1, <1>2, <2>1, IterateFacts
<1> DEFINE to == CHOOSE j \in 0 .. k :
                   (\A l \in j .. k - 1 : x[l] > x[k]) /\ (j = 0 \/ x[j - 1] <= x[k])
<1>4. Inserted(a, x, k)
  BY <1>3 DEF LoopInv, Computed
<1>5. x' = InsertedAt(x, k, to) /\ y' = y /\ res' = res
  BY DEF InsertRound, InsertedAt
<1>6. Inserted(a, InsertedAt(x, k, to), k + 1)
  BY <1>3, <1>4, InsertedNext
<1> HIDE DEF to
<1>7. Inserted(a, x', k')
  BY <1>3, <1>5, <1>6
<1>8. Computed'
  BY <1>3, <1>7 DEF Computed
<1>9. VectorsTyped'
  BY <1>3, <1>5, <1>7 DEF VectorsTyped, Inserted, Brings
<1> QED BY <1>3, <1>8, <1>9 DEF LoopInv
LEMMA LoopStep == LoopInv /\ [Next]_vars => LoopInv'
<1> SUFFICES ASSUME LoopInv, [Next]_vars PROVE LoopInv'
  OBVIOUS
<1>1. CASE Next
  BY <1>1, PairStep, OddEvenStep, InsertStep, PositionStep, SumStep, MaxStep, MinStep,
     CycleStep, LehmerStep, PartitionStep, WeakStep DEF Next
<1>2. CASE UNCHANGED vars
  <2>1. /\ prog' = prog /\ a' = a /\ b' = b /\ x' = x /\ y' = y /\ res' = res
        /\ k' = k /\ done' = done
    BY <1>2 DEF vars
  <2>2. ArgumentsTyped' /\ VectorsTyped'
    BY <2>1 DEF LoopInv, ArgumentsTyped, VectorsTyped
  <2>3. RoundsCounted'
    BY <2>1 DEF LoopInv, RoundsCounted, RoundsOf
  <2>4. Computed'
    BY <2>1 DEF LoopInv, Computed
  <2> QED BY <2>2, <2>3, <2>4 DEF LoopInv
<1> QED BY <1>1, <1>2

LEMMA LoopAlways == Spec => []LoopInv
BY LoopInit, LoopStep, PTL DEF Spec

LEMMA LoopTypes == LoopInv => TypeOK
<1> SUFFICES ASSUME LoopInv PROVE TypeOK
  OBVIOUS
<1>1. /\ prog \in Programs /\ a \in Vec /\ b \in Vec /\ x \in Vec /\ y \in Vec /\ res \in Vec
      /\ k \in 0 .. RoundsOf(prog) /\ done \in BOOLEAN
  BY DEF LoopInv, ArgumentsTyped, VectorsTyped, RoundsCounted
<1>2. Vec = [Lane -> 0 .. 255]
  BY SixteenLanes
<1>3. RoundsOf(prog) \in 3 .. 16
  BY <1>1, ProgramsAssumption DEF RoundsOf, Loops
<1>4. k \in 0 .. 16
  BY <1>1, <1>3
<1>5. {a, b, x, y, res} \subseteq [Lane -> 0 .. 255]
  BY <1>1, <1>2
<1> QED BY <1>1, <1>4, <1>5 DEF TypeOK

\* The bounds on the rounds, program by program.
LEMMA LoopBounds ==
  ASSUME LoopInv
  PROVE  /\ prog \in Loops /\ a \in Vec /\ b \in Vec
         /\ prog \in {"lehmer", "cycles_partition", "left_weak_leq"} => a \in Perms /\ b \in Perms
         /\ prog = "permutation_of" => k \in 0 .. 3 /\ (done => k = 3)
         /\ prog \in {"partial_sums", "partial_max", "partial_min", "cycles_partition"} =>
              k \in 0 .. 4 /\ (done => k = 4)
         /\ prog \in {"eval16_cycle", "lehmer"} => k \in 0 .. 15 /\ (done => k = 15)
         /\ prog = "left_weak_leq" => k \in 0 .. 15
         /\ prog = "insertion_sort" => k \in 0 .. 16 /\ (done => k = 16)
<1>1. /\ RoundsOf("permutation_of") = 3 /\ RoundsOf("insertion_sort") = 16
      /\ \A p \in {"partial_sums", "partial_max", "partial_min", "cycles_partition"} : RoundsOf(p) = 4
      /\ \A p \in {"eval16_cycle", "lehmer", "left_weak_leq"} : RoundsOf(p) = 15
  BY DEF RoundsOf
<1>2. k \in 0 .. RoundsOf(prog) /\ (prog # "left_weak_leq" => (done <=> k = RoundsOf(prog)))
  BY DEF LoopInv, RoundsCounted
<1>3. /\ prog \in Loops /\ a \in Vec /\ b \in Vec
      /\ prog \in {"lehmer", "cycles_partition", "left_weak_leq"} => a \in Perms /\ b \in Perms
  BY ProgramsAssumption DEF LoopInv, ArgumentsTyped
<1> QED BY <1>1, <1>2, <1>3

\* Each part of RoundsExplained.
LEMMA LoopExplains == LoopInv => RoundsExplained
<1> SUFFICES ASSUME LoopInv PROVE RoundsExplained
  OBVIOUS
<1>1. Computed
  BY DEF LoopInv
<1>2. ASSUME prog = "permutation_of"
      PROVE  RoundsExplained
  BY <1>1, <1>2 DEF RoundsExplained, Computed, PositionsKnown
<1>3. ASSUME prog = "partial_sums"
      PROVE  RoundsExplained
  <2>1. \A i \in Lane : x[i] = partial_sums_ref(Front(a, k, i))[i]
    BY <1>1, <1>3, LoopBounds, BlockSumIsSum DEF Computed
  <2> QED BY <1>3, <2>1 DEF RoundsExplained
<1>4. ASSUME prog = "partial_max"
      PROVE  RoundsExplained
  <2>1. a \in Vec /\ k \in 0 .. 4 /\ BlockMax(a, x, k)
    BY <1>1, <1>4, LoopBounds DEF Computed
  <2>2. ASSUME NEW i \in Lane
        PROVE  x[i] = Max({a[j] : j \in Block(k, i)})
    BY <2>1, BlockExtrema
  <2> QED BY <1>4, <2>2 DEF RoundsExplained
<1>5. ASSUME prog = "partial_min"
      PROVE  RoundsExplained
  <2>1. a \in Vec /\ k \in 0 .. 4 /\ BlockMin(a, x, k)
    BY <1>1, <1>5, LoopBounds DEF Computed
  <2>2. ASSUME NEW i \in Lane
        PROVE  x[i] = Min({a[j] : j \in Block(k, i)})
    BY <2>1, BlockExtrema
  <2> QED BY <1>5, <2>2 DEF RoundsExplained
<1>6. ASSUME prog = "eval16_cycle"
      PROVE  RoundsExplained
  <2>1. \A i \in Lane : res[i] = Cardinality(Hits(Passing(a, i), 0, k))
    BY <1>1, <1>6 DEF Computed, Turned
  <2>2. k \in Nat
    BY <1>6, LoopBounds
  <2>3. ASSUME NEW i \in Lane
        PROVE  Hits(Passing(a, i), 0, k) = {m \in 0 .. k : a[(i - m) % 16] = i}
    BY <2>2 DEF Hits, Passing
  <2>4. \A i \in Lane : res[i] = Cardinality({m \in 0 .. k : a[(i - m) % 16] = i})
    BY <2>1, <2>3
  <2> QED BY <1>6, <2>4 DEF RoundsExplained
<1>7. ASSUME prog = "lehmer"
      PROVE  RoundsExplained
  <2>1. \A i \in Lane : res[i] = AsByte(Cardinality(Hits(Smaller(a, i), 1, k)) - i)
    BY <1>1, <1>7 DEF Computed, Compared
  <2>2. k \in Nat
    BY <1>7, LoopBounds
  <2>3. ASSUME NEW i \in Lane
        PROVE  Hits(Smaller(a, i), 1, k) = {m \in 1 .. k : i + m > 15 \/ a[i] > a[i + m]}
    BY <2>2 DEF Hits, Smaller
  <2>4. \A i \in Lane :
          res[i] = AsByte(Cardinality({m \in 1 .. k : i + m > 15 \/ a[i] > a[i + m]}) - i)
    BY <2>1, <2>3
  <2> QED BY <1>7, <2>4 DEF RoundsExplained
<1>8. ASSUME prog = "cycles_partition"
      PROVE  RoundsExplained
  <2>1. k \in 0 .. 4 /\ a \in Perms /\ Partitioned(a, x, y, k)
    BY <1>1, <1>8, LoopBounds DEF Computed
  <2>2. \A i \in Lane : k > 0 => x[i] = Min(Orbit(a, i, 2^k - 1))
    BY <2>1, PartitionedForm
  <2> QED BY <1>8, <2>2 DEF RoundsExplained
<1>9. ASSUME prog = "left_weak_leq"
      PROVE  RoundsExplained
  <2>1. SUFFICES ASSUME k > 0, res[0] = 1, NEW i \in Lane, NEW j \in Lane,
                        i < j, j <= i + k, a[i] > a[j]
                 PROVE  b[i] > b[j]
    BY <1>9 DEF RoundsExplained
  <2>2. WeakKnown(a, b, x, y, res, k, done)
    BY <1>1, <1>9 DEF Computed
  <2>3. k \in 0 .. 15 /\ a \in Perms /\ b \in Perms
    BY <1>9, LoopBounds
  <2> QED BY <2>1, <2>2, <2>3, WeakInvariantForm
<1>10. ASSUME prog \in {"sort_pair", "sort_odd_even"}
       PROVE  RoundsExplained
  BY <1>1, <1>10 DEF RoundsExplained, Computed, Kept
<1>11. ASSUME prog = "insertion_sort"
       PROVE  RoundsExplained
  <2>1. a \in Vec /\ k \in 0 .. 16 /\ Inserted(a, x, k)
    BY <1>1, <1>11, LoopBounds DEF Computed
  <2>2. ASSUME NEW i \in Lane
        PROVE  x[i] = IF i < k THEN Sorted(Filled(a, k))[i] ELSE a[i]
    BY <2>1, InsertedForm
  <2> QED BY <1>11, <2>2 DEF RoundsExplained, Filled
<1>12. prog \in Loops
  BY LoopBounds
<1> QED BY <1>2, <1>3, <1>4, <1>5, <1>6, <1>7, <1>8, <1>9, <1>10, <1>11, <1>12 DEF Loops

LEMMA LoopAnswers == LoopInv => AnswerAtReturn
<1> SUFFICES ASSUME LoopInv, done, prog \notin {"sort_pair", "sort_odd_even"}
             PROVE  AnswerAtReturn
  BY DEF AnswerAtReturn
<1>1. Computed /\ prog \in Loops
  BY LoopBounds DEF LoopInv
<1>2. ASSUME prog = "permutation_of"
      PROVE  AnswerAtReturn
  <2>1. k = 3 /\ a \in Vec /\ b \in Vec
    BY <1>2, LoopBounds
  <2>2. PositionsKnown(a, b, x, res, 3)
    BY <1>1, <1>2, <2>1 DEF Computed
  <2>3. ASSUME NEW j \in Lane, Cardinality({i \in Lane : a[i] = b[j]}) = 1
        PROVE  res[j] = permutation_of_ref(a, b)[j]
    <3> DEFINE S == {i \in Lane : a[i] = b[j]}
    <3>1. IsFiniteSet(S)
      <4>1. S \subseteq Lane
        OBVIOUS
      <4> HIDE DEF S
      <4> QED BY <4>1, LanesFinite, FS_Subset
    <3>2. PICK i : S = {i}
      BY <2>3, <3>1, FS_Singleton
    <3>3. i \in Lane /\ a[i] = b[j] /\ \A l \in Lane \ {i} : a[l] # a[i]
      BY <3>2
    <3>4. res[j] = i \div 2^(3 - 3)
      BY <2>2, <3>3 DEF PositionsKnown
    <3>5. 3 - 3 = 0 /\ 2^0 = 1 /\ i \div 1 = i
      BY <3>3, SixteenLanes
    <3>6. permutation_of_ref(a, b)[j] = i
      BY <2>1, <3>3, PositionOfRef
    <3> QED BY <3>4, <3>5, <3>6
  <2> QED BY <1>2, <2>3 DEF AnswerAtReturn
<1>3. ASSUME prog = "partial_sums"
      PROVE  AnswerAtReturn
  <2>1. k = 4 /\ a \in Vec /\ BlockSum(a, x, k)
    BY <1>1, <1>3, LoopBounds DEF Computed
  <2>2. x = partial_sums_ref(a)
    BY <2>1, RunningSums
  <2> QED BY <1>3, <2>2 DEF AnswerAtReturn
<1>4. ASSUME prog = "partial_max"
      PROVE  AnswerAtReturn
  <2>1. k = 4 /\ a \in Vec /\ BlockMax(a, x, k)
    BY <1>1, <1>4, LoopBounds DEF Computed
  <2>2. partial_max_ref(a) = x
    BY <2>1, RunningMax2
  <2> QED BY <1>4, <2>2 DEF AnswerAtReturn
<1>5. ASSUME prog = "partial_min"
      PROVE  AnswerAtReturn
  <2>1. k = 4 /\ a \in Vec /\ BlockMin(a, x, k)
    BY <1>1, <1>5, LoopBounds DEF Computed
  <2>2. partial_min_ref(a) = x
    BY <2>1, RunningMin2
  <2> QED BY <1>5, <2>2 DEF AnswerAtReturn
<1>6. ASSUME prog = "eval16_cycle"
      PROVE  AnswerAtReturn
  <2>1. k = 15 /\ a \in Vec /\ Turned(a, x, res, k)
    BY <1>1, <1>6, LoopBounds DEF Computed
  <2>2. res = eval16_ref(a)
    BY <2>1, TurnedFully
  <2> QED BY <1>6, <2>2 DEF AnswerAtReturn
<1>7. ASSUME prog = "lehmer"
      PROVE  AnswerAtReturn
  <2>1. k = 15 /\ a \in Perms /\ Compared(a, x, res, k)
    BY <1>1, <1>7, LoopBounds DEF Computed
  <2>2. res = lehmer_ref(a)
    BY <2>1, ComparedFully
  <2> QED BY <1>7, <2>2 DEF AnswerAtReturn
<1>8. ASSUME prog = "cycles_partition"
      PROVE  AnswerAtReturn
  <2>1. k = 4 /\ a \in Perms /\ Partitioned(a, x, y, k)
    BY <1>1, <1>8, LoopBounds DEF Computed
  <2>2. \A i \in Lane : x[i] = Min(Orbit(a, i, Size))
    BY <2>1, PartitionedFully
  <2> QED BY <1>8, <2>2 DEF AnswerAtReturn
<1>9. ASSUME prog = "left_weak_leq"
      PROVE  AnswerAtReturn
  <2>1. /\ k \in 0 .. 15 /\ a \in Perms /\ b \in Perms /\ done = TRUE
        /\ WeakKnown(a, b, x, y, res, k, done)
    BY <1>1, <1>9, LoopBounds DEF Computed, LoopInv, RoundsCounted
  <2>2. WeakKnown(a, b, x, y, res, k, TRUE)
    BY <2>1
  <2>3. res[0] = 1 <=> left_weak_leq_ref(a, b)
    BY <2>1, <2>2, WeakAnswer
  <2> QED BY <1>9, <2>3 DEF AnswerAtReturn
<1>10. ASSUME prog = "insertion_sort"
       PROVE  AnswerAtReturn
  <2>1. k = 16 /\ a \in Vec /\ Inserted(a, x, k)
    BY <1>1, <1>10, LoopBounds DEF Computed
  <2>2. x = Sorted(a)
    BY <2>1, InsertedFully
  <2> QED BY <1>10, <2>2 DEF AnswerAtReturn
<1> QED BY <1>1, <1>2, <1>3, <1>4, <1>5, <1>6, <1>7, <1>8, <1>9, <1>10 DEF Loops

(***************************************************************************)
(* Whatever they are called with, the loops of LaneLoops keep every vector *)
(* in bytes and stop after their rounds, at most sixteen.                  *)
(***************************************************************************)
THEOREM VectorsTypeCorrect == Spec => []TypeOK
BY LoopAlways, LoopTypes, PTL

(***************************************************************************)
(* After k rounds each loop has computed what RoundsExplained says, for    *)
(* every vector: the bits of the positions, the reductions of the aligned  *)
(* blocks, the counts of the lanes that passed, the least lanes within 2^k *)
(* steps of the cycle, the inversions compared, the sorted front.          *)
(***************************************************************************)
THEOREM LoopsComputeTheirRounds == Spec => []RoundsExplained
BY LoopAlways, LoopExplains, PTL

(***************************************************************************)
(* Every loop returns what the reference loop of epu8_impl.hpp, of         *)
(* perm16_impl.hpp or of experiments/sort.cpp that it replaces returns,    *)
(* whatever the vectors.                                                   *)
(***************************************************************************)
THEOREM LoopsAgreeWithReference == Spec => []AnswerAtReturn
BY LoopAlways, LoopAnswers, PTL
-----------------------------------------------------------------------------
(***************************************************************************)
(* Searches.  A mask gives the least and the greatest of its lanes below   *)
(* the bound, and so do the loops.                                         *)
(***************************************************************************)
BelowIn(H, n) == {i \in H : i < n}

LEMMA GreatestOfSome ==
  ASSUME NEW S \in SUBSET (0 .. 15), S # {}
  PROVE  \E m \in S : \A l \in S : l <= m
<1> DEFINE Bound == {n \in Nat : \E l \in S : l >= 15 - n}
<1>1. PICK e \in S : TRUE
  OBVIOUS
<1>2. ASSUME \A m \in S : \E l \in S : l > m
      PROVE  FALSE
  <2> DEFINE Above == {n \in Nat : \E l \in S : l >= n}
  <2>1. 0 \in Above
    BY <1>1
  <2>2. ASSUME NEW n \in Nat, n \in Above
        PROVE  n + 1 \in Above
    <3>1. PICK l \in S : l >= n
      BY <2>2
    <3>2. PICK m \in S : m > l
      BY <1>2
    <3>3. m \in 0 .. 15 /\ l \in 0 .. 15 /\ m >= n + 1 /\ n + 1 \in Nat
      BY <3>1, <3>2
    <3> QED BY <3>3
  <2> HIDE DEF Above
  <2>3. \A n \in Nat : n \in Above
    BY <2>1, <2>2, NatSetInduction
  <2>4. 16 \in Above
    BY <2>3
  <2> QED BY <2>4 DEF Above
<1>3. \A m, l \in 0 .. 15 : l > m \/ l <= m
  OBVIOUS
<1> QED BY <1>2, <1>3

LEMMA LeastOfLanes ==
  ASSUME NEW S \in SUBSET (0 .. 15), S # {}
  PROVE  \E m \in S : \A l \in S : m <= l
<1> DEFINE T == {15 - l : l \in S}
<1>1. T \in SUBSET (0 .. 15) /\ T # {}
  <2>1. \A l \in 0 .. 15 : 15 - l \in 0 .. 15
    OBVIOUS
  <2>2. \A m \in T : m \in 0 .. 15
    BY <2>1
  <2> QED BY <2>2
<1>2. PICK m \in T : \A l \in T : l <= m
  <2> HIDE DEF T
  <2> QED BY <1>1, GreatestOfSome
<1>3. PICK j \in S : m = 15 - j
  OBVIOUS
<1>4. ASSUME NEW l \in S PROVE j <= l
  <2>1. 15 - l <= 15 - j
    BY <1>2, <1>3
  <2>2. l \in 0 .. 15 /\ j \in 0 .. 15
    OBVIOUS
  <2> QED BY <2>1, <2>2
<1> QED BY <1>4

LEMMA MasksSearch ==
  ASSUME NEW H \in SUBSET Lane, NEW n \in 0 .. 16
  PROVE  /\ (\A i \in 0 .. n - 1 : i \notin H) => /\ first_mask(H, n) = 16
                                                  /\ last_mask(H, n) = 16
         /\ \A i \in 0 .. n - 1 : i \in H /\ (\A l \in 0 .. i - 1 : l \notin H) =>
              first_mask(H, n) = i
         /\ \A i \in 0 .. n - 1 : i \in H /\ (\A l \in i + 1 .. n - 1 : l \notin H) =>
              last_mask(H, n) = i
<1>1. BelowIn(H, n) \in SUBSET Int /\ \A i \in 0 .. 15 : i < n <=> i \in 0 .. n - 1
  <2>1. \A i \in 0 .. 15 : i < n <=> i \in 0 .. n - 1
    OBVIOUS
  <2>2. \A i \in Lane : i \in Int
    BY SixteenLanes
  <2> QED BY <2>1, <2>2 DEF BelowIn
<1>2. /\ first_mask(H, n) = IF BelowIn(H, n) = {} THEN 16 ELSE Min(BelowIn(H, n))
      /\ last_mask(H, n) = IF BelowIn(H, n) = {} THEN 16 ELSE Max(BelowIn(H, n))
  BY SixteenLanes DEF first_mask, last_mask, BelowIn
<1>3. ASSUME \A i \in 0 .. n - 1 : i \notin H
      PROVE  BelowIn(H, n) = {}
  BY <1>1, <1>3, SixteenLanes DEF BelowIn
<1>4. ASSUME NEW i \in 0 .. n - 1, i \in H, \A l \in 0 .. i - 1 : l \notin H
      PROVE  first_mask(H, n) = i
  <2>1. i \in BelowIn(H, n)
    BY <1>4 DEF BelowIn
  <2>2. ASSUME NEW l \in BelowIn(H, n) PROVE i <= l
    <3>1. l \in 0 .. 15 /\ l \in H
      BY SixteenLanes DEF BelowIn
    <3>2. l \notin 0 .. i - 1
      BY <1>4, <3>1
    <3> QED BY <3>1, <3>2
  <2>3. Min(BelowIn(H, n)) = i
    BY <1>1, <2>1, <2>2, MinIs
  <2> QED BY <1>2, <2>1, <2>3
<1>5. ASSUME NEW i \in 0 .. n - 1, i \in H, \A l \in i + 1 .. n - 1 : l \notin H
      PROVE  last_mask(H, n) = i
  <2>1. i \in BelowIn(H, n)
    BY <1>5 DEF BelowIn
  <2>2. ASSUME NEW l \in BelowIn(H, n) PROVE l <= i
    <3>1. l \in 0 .. 15 /\ l \in H /\ l < n
      BY SixteenLanes DEF BelowIn
    <3>2. l \notin i + 1 .. n - 1
      BY <1>5, <3>1
    <3> QED BY <3>1, <3>2
  <2>3. Max(BelowIn(H, n)) = i
    BY <1>1, <2>1, <2>2, MaxIs
  <2> QED BY <1>2, <2>1, <2>3
<1> QED BY <1>2, <1>3, <1>4, <1>5

LEMMA FirstOrNone ==
  ASSUME NEW H \in SUBSET Lane, NEW n \in 0 .. 16
  PROVE  \/ \A i \in 0 .. n - 1 : i \notin H
         \/ \E i \in 0 .. n - 1 : i \in H /\ \A l \in 0 .. i - 1 : l \notin H
<1>1. SUFFICES ASSUME \E i \in 0 .. n - 1 : i \in H
               PROVE  \E i \in 0 .. n - 1 : i \in H /\ \A l \in 0 .. i - 1 : l \notin H
  OBVIOUS
<1> DEFINE S == {i \in 0 .. n - 1 : i \in H}
<1>2. S \in SUBSET (0 .. 15) /\ S # {}
  BY <1>1
<1>3. PICK m \in S : \A l \in S : m <= l
  <2> HIDE DEF S
  <2> QED BY <1>2, LeastOfLanes
<1>4. ASSUME NEW l \in 0 .. m - 1 PROVE l \notin H
  BY <1>3
<1> QED BY <1>4

LEMMA LastOrNone ==
  ASSUME NEW H \in SUBSET Lane, NEW n \in 0 .. 16
  PROVE  \/ \A i \in 0 .. n - 1 : i \notin H
         \/ \E i \in 0 .. n - 1 : i \in H /\ \A l \in i + 1 .. n - 1 : l \notin H
<1>1. SUFFICES ASSUME \E i \in 0 .. n - 1 : i \in H
               PROVE  \E i \in 0 .. n - 1 : i \in H /\ \A l \in i + 1 .. n - 1 : l \notin H
  OBVIOUS
<1> DEFINE S == {i \in 0 .. n - 1 : i \in H}
<1>2. S \in SUBSET (0 .. 15) /\ S # {}
  BY <1>1
<1>3. PICK m \in S : \A l \in S : l <= m
  <2> HIDE DEF S
  <2> QED BY <1>2, GreatestOfSome
<1>4. ASSUME NEW l \in m + 1 .. n - 1 PROVE l \notin H
  <2>1. l \in 0 .. n - 1 /\ ~(l <= m)
    OBVIOUS
  <2> QED BY <1>3, <2>1
<1> QED BY <1>4

LEMMA LoopFindsFirst ==
  ASSUME NEW H \in SUBSET Lane, NEW n \in 0 .. 16, NEW f, IsSearch(f, H, n)
  PROVE  f[0] = first_mask(H, n)
<1>1. CASE \A i \in 0 .. n - 1 : i \notin H
  <2>1. f[0] = 16
    <3>1. n \in 0 .. n /\ n \in Nat
      OBVIOUS
    <3>2. f[0] = IF n = n THEN Size ELSE n
      BY <1>1, <3>1, SearchFinds
    <3> QED BY <3>2, SixteenLanes
  <2> QED BY <1>1, <2>1, MasksSearch
<1>2. CASE \E i \in 0 .. n - 1 : i \in H /\ \A l \in 0 .. i - 1 : l \notin H
  <2>1. PICK i \in 0 .. n - 1 : i \in H /\ \A l \in 0 .. i - 1 : l \notin H
    BY <1>2
  <2>2. f[0] = i
    <3>1. i \in 0 .. n /\ i # n /\ n \in Nat
      OBVIOUS
    <3> QED BY <2>1, <3>1, SearchFinds
  <2> QED BY <2>1, <2>2, MasksSearch
<1> QED BY <1>1, <1>2, FirstOrNone

\* The loops that run downwards.
IsDescent(f, H, n) ==
  f = [i \in 0 .. n |-> IF i = 0 THEN Size ELSE IF i - 1 \in H THEN i - 1 ELSE f[i - 1]]
DescentOf(H, n) == \E f : IsDescent(f, H, n)

LEMMA LastMaskNext ==
  ASSUME NEW H \in SUBSET Lane, NEW n \in 0 .. 15
  PROVE  last_mask(H, n + 1) = IF n \in H THEN n ELSE last_mask(H, n)
<1>1. CASE n \in H
  <2>1. n \in 0 .. (n + 1) - 1 /\ (\A l \in n + 1 .. (n + 1) - 1 : l \notin H) /\ n + 1 \in 0 .. 16
    OBVIOUS
  <2> QED BY <1>1, <2>1, MasksSearch
<1>2. CASE n \notin H
  <2>1. BelowIn(H, n + 1) = BelowIn(H, n)
    <3>1. ASSUME NEW l \in H PROVE l < n + 1 <=> l < n
      <4>1. l \in 0 .. 15 /\ l # n
        BY <1>2, SixteenLanes
      <4> QED BY <4>1
    <3> QED BY <3>1 DEF BelowIn
  <2>2. \A m : last_mask(H, m) = IF BelowIn(H, m) = {} THEN 16 ELSE Max(BelowIn(H, m))
    BY SixteenLanes DEF last_mask, BelowIn
  <2> QED BY <1>2, <2>1, <2>2
<1> QED BY <1>1, <1>2

LEMMA DescentExists ==
  ASSUME NEW H \in SUBSET Lane, NEW n \in 0 .. 16
  PROVE  DescentOf(H, n)
<1> DEFINE f == [i \in 0 .. n |-> last_mask(H, i)]
<1>1. ASSUME NEW i \in 0 .. n
      PROVE  f[i] = IF i = 0 THEN Size ELSE IF i - 1 \in H THEN i - 1 ELSE f[i - 1]
  <2>1. CASE i = 0
    <3>1. last_mask(H, 0) = 16
      BY MasksSearch
    <3> QED BY <2>1, <3>1, SixteenLanes
  <2>2. CASE i # 0
    <3>1. i - 1 \in 0 .. 15 /\ i - 1 \in 0 .. n /\ (i - 1) + 1 = i
      BY <2>2
    <3>2. last_mask(H, i) = IF i - 1 \in H THEN i - 1 ELSE last_mask(H, i - 1)
      BY <3>1, LastMaskNext
    <3> QED BY <2>2, <3>1, <3>2
  <2> QED BY <2>1, <2>2
<1>2. f = [i \in 0 .. n |-> f[i]]
  OBVIOUS
<1> HIDE DEF f
<1>3. IsDescent(f, H, n)
  BY <1>1, <1>2 DEF IsDescent
<1> QED BY <1>3 DEF DescentOf

LEMMA LoopFindsLast ==
  ASSUME NEW H \in SUBSET Lane, NEW n \in 0 .. 16, NEW f, IsDescent(f, H, n)
  PROVE  f[n] = last_mask(H, n)
<1> DEFINE Agreed == {i \in Nat : i <= n => f[i] = last_mask(H, i)}
<1>1. 0 \in Agreed
  <2>1. last_mask(H, 0) = 16
    BY MasksSearch
  <2>2. f[0] = 16
    BY SixteenLanes DEF IsDescent
  <2> QED BY <2>1, <2>2
<1>2. ASSUME NEW i \in Nat, i \in Agreed
      PROVE  i + 1 \in Agreed
  <2>1. SUFFICES ASSUME i + 1 <= n PROVE f[i + 1] = last_mask(H, i + 1)
    OBVIOUS
  <2>2. i \in 0 .. 15 /\ i + 1 \in 0 .. n /\ i + 1 # 0 /\ (i + 1) - 1 = i /\ i <= n
    BY <2>1
  <2>3. f[i + 1] = IF i \in H THEN i ELSE f[i]
    BY <2>2 DEF IsDescent
  <2> QED BY <1>2, <2>2, <2>3, LastMaskNext
<1> HIDE DEF Agreed
<1>3. \A i \in Nat : i \in Agreed
  BY <1>1, <1>2, NatSetInduction
<1>4. n \in Nat /\ n <= n
  OBVIOUS
<1> QED BY <1>3, <1>4 DEF Agreed
LEMMA FirstDiffLoop ==
  ASSUME NEW v \in Vec, NEW w \in Vec, NEW n \in 0 .. 16
  PROVE  first_diff_ref(v, w, n) = first_mask(Differ(v, w), n)
<1> DEFINE Body(f) == [i \in 0 .. n |-> IF i = n THEN Size ELSE IF v[i] # w[i] THEN i ELSE f[i + 1]]
           F == CHOOSE f : f = Body(f)
<1>1. \A f : IsSearch(f, Differ(v, w), n) <=> f = Body(f)
  <2> TAKE f
  <2>1. \A i \in 0 .. n : i # n => (i \in Differ(v, w) <=> v[i] # w[i])
    BY SixteenLanes DEF Differ
  <2>2. [i \in 0 .. n |-> IF i = n THEN Size ELSE IF i \in Differ(v, w) THEN i ELSE f[i + 1]] = Body(f)
    BY <2>1
  <2> QED BY <2>2 DEF IsSearch
<1>2. PICK f : IsSearch(f, Differ(v, w), n)
  <2>1. SearchOf(Differ(v, w), n)
    BY SearchExists
  <2> QED BY <2>1 DEF SearchOf
<1>3. F = Body(F)
  BY <1>1, <1>2
<1>4. first_diff_ref(v, w, n) = F[0]
  BY DEF first_diff_ref, Upwards
<1>5. Differ(v, w) \in SUBSET Lane
  BY DEF Differ
<1> HIDE DEF F
<1>6. IsSearch(F, Differ(v, w), n)
  BY <1>1, <1>3
<1> QED BY <1>4, <1>5, <1>6, LoopFindsFirst

LEMMA FirstZeroLoop ==
  ASSUME NEW v \in Vec, NEW n \in 0 .. 16
  PROVE  vg_first_zero(v, n) = first_mask(Zeros(v), n)
<1> DEFINE Body(f) == [i \in 0 .. n |-> IF i = n THEN Size ELSE IF v[i] = 0 THEN i ELSE f[i + 1]]
           F == CHOOSE f : f = Body(f)
<1>1. \A f : IsSearch(f, Zeros(v), n) <=> f = Body(f)
  <2> TAKE f
  <2>1. \A i \in 0 .. n : i # n => (i \in Zeros(v) <=> v[i] = 0)
    BY SixteenLanes DEF Zeros
  <2>2. [i \in 0 .. n |-> IF i = n THEN Size ELSE IF i \in Zeros(v) THEN i ELSE f[i + 1]] = Body(f)
    BY <2>1
  <2> QED BY <2>2 DEF IsSearch
<1>2. PICK f : IsSearch(f, Zeros(v), n)
  <2>1. SearchOf(Zeros(v), n)
    BY SearchExists
  <2> QED BY <2>1 DEF SearchOf
<1>3. F = Body(F)
  BY <1>1, <1>2
<1>4. vg_first_zero(v, n) = F[0]
  BY DEF vg_first_zero, Upwards
<1>5. Zeros(v) \in SUBSET Lane
  BY DEF Zeros
<1> HIDE DEF F
<1>6. IsSearch(F, Zeros(v), n)
  BY <1>1, <1>3
<1> QED BY <1>4, <1>5, <1>6, LoopFindsFirst

LEMMA FirstNonZeroLoop ==
  ASSUME NEW v \in Vec, NEW n \in 0 .. 16
  PROVE  vg_first_non_zero(v, n) = first_mask(Lane \ Zeros(v), n)
<1> DEFINE Body(f) == [i \in 0 .. n |-> IF i = n THEN Size ELSE IF v[i] # 0 THEN i ELSE f[i + 1]]
           F == CHOOSE f : f = Body(f)
<1>1. \A f : IsSearch(f, Lane \ Zeros(v), n) <=> f = Body(f)
  <2> TAKE f
  <2>1. \A i \in 0 .. n : i # n => (i \in (Lane \ Zeros(v)) <=> v[i] # 0)
    BY SixteenLanes DEF Zeros
  <2>2. [i \in 0 .. n |-> IF i = n THEN Size ELSE IF i \in (Lane \ Zeros(v)) THEN i ELSE f[i + 1]] = Body(f)
    BY <2>1
  <2> QED BY <2>2 DEF IsSearch
<1>2. PICK f : IsSearch(f, Lane \ Zeros(v), n)
  <2>1. SearchOf(Lane \ Zeros(v), n)
    BY SearchExists
  <2> QED BY <2>1 DEF SearchOf
<1>3. F = Body(F)
  BY <1>1, <1>2
<1>4. vg_first_non_zero(v, n) = F[0]
  BY DEF vg_first_non_zero, Upwards
<1>5. (Lane \ Zeros(v)) \in SUBSET Lane
  BY DEF Zeros
<1> HIDE DEF F
<1>6. IsSearch(F, Lane \ Zeros(v), n)
  BY <1>1, <1>3
<1> QED BY <1>4, <1>5, <1>6, LoopFindsFirst

LEMMA LastDiffLoop ==
  ASSUME NEW v \in Vec, NEW w \in Vec, NEW n \in 0 .. 16
  PROVE  last_diff_ref(v, w, n) = last_mask(Differ(v, w), n)
<1> DEFINE Body(f) == [i \in 0 .. n |-> IF i = 0 THEN Size ELSE IF v[i - 1] # w[i - 1] THEN i - 1 ELSE f[i - 1]]
           F == CHOOSE f : f = Body(f)
<1>1. \A f : IsDescent(f, Differ(v, w), n) <=> f = Body(f)
  <2> TAKE f
  <2>1. \A i \in 0 .. n : i # 0 => (i - 1 \in Differ(v, w) <=> v[i - 1] # w[i - 1])
    BY SixteenLanes DEF Differ
  <2>2. [i \in 0 .. n |-> IF i = 0 THEN Size ELSE IF i - 1 \in Differ(v, w) THEN i - 1 ELSE f[i - 1]]
          = Body(f)
    BY <2>1
  <2> QED BY <2>2 DEF IsDescent
<1>2. Differ(v, w) \in SUBSET Lane
  BY DEF Differ
<1>3. PICK f : IsDescent(f, Differ(v, w), n)
  <2>1. DescentOf(Differ(v, w), n)
    BY <1>2, DescentExists
  <2> QED BY <2>1 DEF DescentOf
<1>4. F = Body(F)
  BY <1>1, <1>3
<1>5. last_diff_ref(v, w, n) = F[n]
  BY DEF last_diff_ref, Downwards
<1> HIDE DEF F
<1>6. IsDescent(F, Differ(v, w), n)
  BY <1>1, <1>4
<1> QED BY <1>2, <1>5, <1>6, LoopFindsLast

LEMMA LastZeroLoop ==
  ASSUME NEW v \in Vec, NEW n \in 0 .. 16
  PROVE  vg_last_zero(v, n) = last_mask(Zeros(v), n)
<1> DEFINE Body(f) == [i \in 0 .. n |-> IF i = 0 THEN Size ELSE IF v[i - 1] = 0 THEN i - 1 ELSE f[i - 1]]
           F == CHOOSE f : f = Body(f)
<1>1. \A f : IsDescent(f, Zeros(v), n) <=> f = Body(f)
  <2> TAKE f
  <2>1. \A i \in 0 .. n : i # 0 => (i - 1 \in Zeros(v) <=> v[i - 1] = 0)
    BY SixteenLanes DEF Zeros
  <2>2. [i \in 0 .. n |-> IF i = 0 THEN Size ELSE IF i - 1 \in Zeros(v) THEN i - 1 ELSE f[i - 1]]
          = Body(f)
    BY <2>1
  <2> QED BY <2>2 DEF IsDescent
<1>2. Zeros(v) \in SUBSET Lane
  BY DEF Zeros
<1>3. PICK f : IsDescent(f, Zeros(v), n)
  <2>1. DescentOf(Zeros(v), n)
    BY <1>2, DescentExists
  <2> QED BY <2>1 DEF DescentOf
<1>4. F = Body(F)
  BY <1>1, <1>3
<1>5. vg_last_zero(v, n) = F[n]
  BY DEF vg_last_zero, Downwards
<1> HIDE DEF F
<1>6. IsDescent(F, Zeros(v), n)
  BY <1>1, <1>4
<1> QED BY <1>2, <1>5, <1>6, LoopFindsLast

LEMMA LastNonZeroLoop ==
  ASSUME NEW v \in Vec, NEW n \in 0 .. 16
  PROVE  vg_last_non_zero(v, n) = last_mask(Lane \ Zeros(v), n)
<1> DEFINE Body(f) == [i \in 0 .. n |-> IF i = 0 THEN Size ELSE IF v[i - 1] # 0 THEN i - 1 ELSE f[i - 1]]
           F == CHOOSE f : f = Body(f)
<1>1. \A f : IsDescent(f, Lane \ Zeros(v), n) <=> f = Body(f)
  <2> TAKE f
  <2>1. \A i \in 0 .. n : i # 0 => (i - 1 \in (Lane \ Zeros(v)) <=> v[i - 1] # 0)
    BY SixteenLanes DEF Zeros
  <2>2. [i \in 0 .. n |-> IF i = 0 THEN Size ELSE IF i - 1 \in (Lane \ Zeros(v)) THEN i - 1 ELSE f[i - 1]]
          = Body(f)
    BY <2>1
  <2> QED BY <2>2 DEF IsDescent
<1>2. (Lane \ Zeros(v)) \in SUBSET Lane
  BY DEF Zeros
<1>3. PICK f : IsDescent(f, Lane \ Zeros(v), n)
  <2>1. DescentOf(Lane \ Zeros(v), n)
    BY <1>2, DescentExists
  <2> QED BY <2>1 DEF DescentOf
<1>4. F = Body(F)
  BY <1>1, <1>3
<1>5. vg_last_non_zero(v, n) = F[n]
  BY DEF vg_last_non_zero, Downwards
<1> HIDE DEF F
<1>6. IsDescent(F, Lane \ Zeros(v), n)
  BY <1>1, <1>4
<1> QED BY <1>2, <1>5, <1>6, LoopFindsLast

LEMMA SearchesAgree ==
  ASSUME NEW v \in Vec, NEW w \in Vec, NEW n \in 0 .. 16
  PROVE  /\ first_diff_ref(v, w, n) = first_diff_mask(v, w, n)
         /\ vg_first_diff(v, w, n) = first_diff_mask(v, w, n)
         /\ first_diff_cmpstr(v, w, n) = first_diff_mask(v, w, n)
         /\ last_diff_ref(v, w, n) = last_diff_mask(v, w, n)
         /\ vg_last_diff(v, w, n) = last_diff_mask(v, w, n)
         /\ last_diff_cmpstr(v, w, n) = last_diff_mask(v, w, n)
<1>1. first_diff_ref(v, w, n) = first_diff_mask(v, w, n)
  BY FirstDiffLoop DEF first_diff_mask
<1>2. vg_first_diff(v, w, n) = first_diff_ref(v, w, n)
  BY DEF vg_first_diff, first_diff_ref
<1>3. last_diff_ref(v, w, n) = last_diff_mask(v, w, n)
  BY LastDiffLoop DEF last_diff_mask
<1>4. vg_last_diff(v, w, n) = last_diff_mask(v, w, n)
  <2>1. vg_last_diff(v, w, n) = last_diff_ref(w, v, n)
    BY DEF vg_last_diff, last_diff_ref
  <2>2. Differ(w, v) = Differ(v, w)
    BY DEF Differ
  <2> QED BY <2>1, <2>2, LastDiffLoop DEF last_diff_mask
<1>5. Lane \ EqualEach(v, n, w, n) = BelowIn(Differ(v, w), n)
  <2>1. \A i \in Lane : i < n \/ i >= n
    BY SixteenLanes
  <2>2. \A i \in Lane : ~(i < n /\ i >= n)
    BY SixteenLanes
  <2> QED BY <2>1, <2>2 DEF EqualEach, Differ, BelowIn
<1>6. /\ first_diff_cmpstr(v, w, n) = first_diff_mask(v, w, n)
      /\ last_diff_cmpstr(v, w, n) = last_diff_mask(v, w, n)
  BY <1>5 DEF first_diff_cmpstr, last_diff_cmpstr, first_diff_mask, last_diff_mask, first_mask,
              last_mask, BelowIn
<1> QED BY <1>1, <1>2, <1>3, <1>4, <1>6

LEMMA SearchesAgreeAlways ==
  ASSUME NEW v \in Vec, NEW w \in Vec
  PROVE  SearchesAgreeOn(v, w)
<1>1. ASSUME NEW n \in 0 .. 16
      PROVE  /\ {first_diff_ref(v, w, n), first_diff_mask(v, w, n),
                 first_diff_cmpstr(v, w, n), vg_first_diff(v, w, n)}
                  = {first_diff_ref(v, w, n)}
             /\ {last_diff_ref(v, w, n), last_diff_mask(v, w, n),
                 last_diff_cmpstr(v, w, n), vg_last_diff(v, w, n)}
                  = {last_diff_ref(v, w, n)}
  BY SearchesAgree
<1>2. ASSUME NEW n \in 0 .. 16
      PROVE  /\ first_zero(v, n) = vg_first_zero(v, n)
             /\ last_zero(v, n) = vg_last_zero(v, n)
             /\ first_non_zero(v, n) = vg_first_non_zero(v, n)
             /\ last_non_zero(v, n) = vg_last_non_zero(v, n)
  BY FirstZeroLoop, LastZeroLoop, FirstNonZeroLoop, LastNonZeroLoop
     DEF first_zero, last_zero, first_non_zero, last_non_zero
<1> QED BY <1>1, <1>2, SixteenLanes DEF SearchesAgreeOn
\* The order: a prefix without a difference, or its first difference.
LEMMA BeforeCases ==
  ASSUME NEW v \in Vec, NEW w \in Vec, NEW n \in 0 .. 16
  PROVE  \/ /\ first_diff_mask(v, w, n) = 16
            /\ \A i \in 0 .. n - 1 : v[i] = w[i]
            /\ ~Before(v, w, n)
         \/ \E i \in 0 .. n - 1 : /\ first_diff_mask(v, w, n) = i /\ i \in Lane
                                  /\ v[i] # w[i]
                                  /\ Before(v, w, n) <=> v[i] < w[i]
<1>1. Differ(v, w) \in SUBSET Lane /\ \A i \in 0 .. n - 1 : i \in Lane
  BY SixteenLanes DEF Differ
<1>2. \A i \in 0 .. n - 1 : i \in Differ(v, w) <=> v[i] # w[i]
  BY <1>1 DEF Differ
<1>3. CASE \A i \in 0 .. n - 1 : i \notin Differ(v, w)
  <2>1. first_diff_mask(v, w, n) = 16
    BY <1>1, <1>3, MasksSearch DEF first_diff_mask
  <2>2. \A i \in 0 .. n - 1 : v[i] = w[i]
    BY <1>2, <1>3
  <2>3. ASSUME NEW i \in 0 .. n - 1 PROVE ~(v[i] < w[i])
    <3>1. i \in 0 .. 15
      OBVIOUS
    <3>2. v[i] \in Int /\ v[i] = w[i]
      BY <2>2, <3>1, ByteOfLane
    <3> QED BY <3>2
  <2> QED BY <2>1, <2>2, <2>3 DEF Before
<1>4. CASE \E i \in 0 .. n - 1 : i \in Differ(v, w) /\ \A l \in 0 .. i - 1 : l \notin Differ(v, w)
  <2>1. PICK i \in 0 .. n - 1 : i \in Differ(v, w) /\ \A l \in 0 .. i - 1 : l \notin Differ(v, w)
    BY <1>4
  <2>2. first_diff_mask(v, w, n) = i
    BY <1>1, <2>1, MasksSearch DEF first_diff_mask
  <2>3. \A l \in 0 .. i - 1 : l \in 0 .. n - 1
    OBVIOUS
  <2>4. v[i] # w[i] /\ \A l \in 0 .. i - 1 : v[l] = w[l]
    BY <1>2, <2>1, <2>3
  <2>5. ASSUME Before(v, w, n) PROVE v[i] < w[i]
    <3>1. PICK j \in 0 .. n - 1 : v[j] < w[j] /\ \A l \in 0 .. j - 1 : v[l] = w[l]
      BY <2>5 DEF Before
    <3>2. v[j] # w[j]
      <4>1. j \in 0 .. 15
        OBVIOUS
      <4>2. v[j] \in Int /\ w[j] \in Int
        BY <4>1, ByteOfLane
      <4> QED BY <3>1, <4>2
    <3>3. ~(i \in 0 .. j - 1) /\ ~(j \in 0 .. i - 1)
      BY <2>4, <3>1, <3>2
    <3>4. i = j
      BY <3>3
    <3> QED BY <3>1, <3>4
  <2>6. ASSUME v[i] < w[i] PROVE Before(v, w, n)
    BY <2>4, <2>6 DEF Before
  <2> QED BY <1>1, <2>2, <2>4, <2>5, <2>6
<1> QED BY <1>1, <1>3, <1>4, FirstOrNone

LEMMA SignedDifference ==
  \A p, q \in 0 .. 127 : Signed(AsByte(Signed(p) - Signed(q))) = p - q
BY DEF Signed, AsByte

LEMMA LessIsBefore ==
  ASSUME NEW v \in Vec, NEW w \in Vec
  PROVE  less(v, w) <=> Before(v, w, 16)
<1>1. less(v, w) <=> /\ first_diff_mask(v, w, 16) < 16
                     /\ v[first_diff_mask(v, w, 16)] < w[first_diff_mask(v, w, 16)]
  BY SixteenLanes DEF less
<1>2. CASE first_diff_mask(v, w, 16) = 16 /\ ~Before(v, w, 16)
  BY <1>1, <1>2
<1>3. CASE \E i \in 0 .. 16 - 1 : /\ first_diff_mask(v, w, 16) = i
                                  /\ Before(v, w, 16) <=> v[i] < w[i]
  <2>1. PICK i \in 0 .. 15 : /\ first_diff_mask(v, w, 16) = i
                             /\ Before(v, w, 16) <=> v[i] < w[i]
    BY <1>3
  <2> QED BY <1>1, <2>1
<1> QED BY <1>2, <1>3, BeforeCases

LEMMA PartialIsBefore ==
  ASSUME NEW v \in Vec, NEW w \in Vec, NEW n \in 0 .. 16,
         \A i \in Lane : v[i] < 128 /\ w[i] < 128
  PROVE  less_partial(v, w, n) < 0 <=> Before(v, w, n)
<1> DEFINE d == first_diff_mask(v, w, n)
<1>1. less_partial(v, w, n) = IF d = 16 THEN 0 ELSE Signed(AsByte(Signed(v[d]) - Signed(w[d])))
  BY SixteenLanes DEF less_partial
<1> HIDE DEF d
<1>2. CASE d = 16 /\ ~Before(v, w, n)
  BY <1>1, <1>2
<1>3. CASE \E i \in 0 .. n - 1 : /\ d = i /\ i \in Lane
                                 /\ Before(v, w, n) <=> v[i] < w[i]
  <2>1. PICK i \in Lane : d = i /\ (Before(v, w, n) <=> v[i] < w[i])
    BY <1>3
  <2>2. v[i] \in 0 .. 127 /\ w[i] \in 0 .. 127 /\ d # 16
    <3>1. i \in 0 .. 15 /\ v[i] < 128 /\ w[i] < 128
      BY LaneRange
    <3>2. v[i] \in 0 .. 255 /\ w[i] \in 0 .. 255
      BY <3>1, ByteOfLane
    <3>3. v[i] \in 0 .. 127 /\ w[i] \in 0 .. 127
      BY <3>1, <3>2
    <3>4. \A p \in 0 .. 15 : p # 16
      OBVIOUS
    <3>5. d # 16
      BY <2>1, <3>1, <3>4, Zenon
    <3> QED BY <3>3, <3>5
  <2>3. less_partial(v, w, n) = v[i] - w[i]
    BY <1>1, <2>1, <2>2, SignedDifference
  <2>4. v[i] - w[i] < 0 <=> v[i] < w[i]
    <3>1. \A p, q \in 0 .. 127 : p - q < 0 <=> p < q
      OBVIOUS
    <3> QED BY <2>2, <3>1
  <2> QED BY <2>1, <2>3, <2>4
<1> QED BY <1>2, <1>3, BeforeCases DEF d

LEMMA EqualIsTie ==
  ASSUME NEW v \in Vec, NEW w \in Vec
  PROVE  /\ vg_equal(v, w) <=> v = w
         /\ v = w <=> ~less(v, w) /\ ~less(w, v)
<1>1. vg_equal(v, w) <=> first_diff_mask(v, w, 16) = 16
  BY SearchesAgree, SixteenLanes DEF vg_equal
<1>2. v = w <=> \A i \in 0 .. 15 : v[i] = w[i]
  BY SixteenLanes
<1>3. CASE v = w
  <2>1. ~\E i \in 0 .. 16 - 1 : v[i] # w[i]
    BY <1>2, <1>3
  <2>2. first_diff_mask(v, w, 16) = 16 /\ ~Before(v, w, 16)
    BY <2>1, BeforeCases
  <2> QED BY <1>1, <1>3, <2>2, LessIsBefore
<1>4. CASE v # w
  <2>1. ~\A i \in 0 .. 16 - 1 : v[i] = w[i]
    BY <1>2, <1>4
  <2>2. PICK i \in 0 .. 16 - 1 : /\ first_diff_mask(v, w, 16) = i
                                 /\ Before(v, w, 16) <=> v[i] < w[i]
    BY <2>1, BeforeCases
  <2>3. ~\A l \in 0 .. 16 - 1 : w[l] = v[l]
    BY <2>1
  <2>4. PICK j \in 0 .. 16 - 1 : /\ first_diff_mask(w, v, 16) = j
                                 /\ Before(w, v, 16) <=> w[j] < v[j]
    BY <2>3, BeforeCases
  <2>5. first_diff_mask(w, v, 16) = first_diff_mask(v, w, 16)
    <3>1. Differ(w, v) = Differ(v, w)
      BY DEF Differ
    <3> QED BY <3>1 DEF first_diff_mask
  <2>6. v[i] # w[i]
    <3>1. PICK l \in 0 .. 16 - 1 : first_diff_mask(v, w, 16) = l /\ v[l] # w[l]
      BY <2>1, BeforeCases
    <3> QED BY <2>2, <3>1
  <2>7. v[i] \in 0 .. 255 /\ w[i] \in 0 .. 255
    BY ByteOfLane
  <2>8. less(v, w) \/ less(w, v)
    <3>1. (less(v, w) <=> Before(v, w, 16)) /\ (less(w, v) <=> Before(w, v, 16))
      BY LessIsBefore
    <3>2. i = j
      BY <2>2, <2>4, <2>5
    <3>3. v[i] < w[i] \/ w[i] < v[i]
      <4>1. \A p, q \in 0 .. 255 : p < q \/ q < p \/ p = q
        OBVIOUS
      <4> QED BY <2>6, <2>7, <4>1
    <3> QED BY <2>2, <2>4, <3>1, <3>2, <3>3
  <2> QED BY <1>1, <1>4, <2>2, <2>8
<1> QED BY <1>3, <1>4

LEMMA GenericLess ==
  ASSUME NEW v \in Vec, NEW w \in Vec
  PROVE  /\ vg_less(v, w) <=> less(v, w)
         /\ \A n \in 0 .. 16 : vg_less_partial(v, w, n) = less_partial(v, w, n)
<1>1. \A n \in 0 .. 16 : vg_first_diff(v, w, n) = first_diff_mask(v, w, n)
  BY SearchesAgree
<1>2. first_diff_mask(v, w, 16) < 16 <=> first_diff_mask(v, w, 16) # 16
  <2>1. first_diff_mask(v, w, 16) \in 0 .. 16
    BY BeforeCases
  <2> QED BY <2>1
<1>3. vg_less(v, w) <=> less(v, w)
  BY <1>1, <1>2, SixteenLanes DEF vg_less, less
<1>4. \A n \in 0 .. 16 : vg_less_partial(v, w, n) = less_partial(v, w, n)
  BY <1>1 DEF vg_less_partial, less_partial
<1> QED BY <1>3, <1>4

LEMMA OrderAlways ==
  ASSUME NEW v \in Vec, NEW w \in Vec
  PROVE  OrderOn(v, w)
<1>1. (less(v, w) <=> Before(v, w, Size)) /\ (vg_less(v, w) <=> less(v, w))
  BY LessIsBefore, GenericLess, SixteenLanes
<1>2. vg_equal(v, w) <=> ~less(v, w) /\ ~less(w, v)
  BY EqualIsTie
<1>3. ASSUME NEW n \in 0 .. Size
      PROVE  /\ vg_less_partial(v, w, n) = less_partial(v, w, n)
             /\ (\A i \in Lane : v[i] < 128 /\ w[i] < 128) =>
                  (less_partial(v, w, n) < 0 <=> Before(v, w, n))
  <2>1. n \in 0 .. 16
    BY SixteenLanes
  <2>2. vg_less_partial(v, w, n) = less_partial(v, w, n)
    BY <2>1, GenericLess
  <2>3. ASSUME \A i \in Lane : v[i] < 128 /\ w[i] < 128
        PROVE  less_partial(v, w, n) < 0 <=> Before(v, w, n)
    BY <2>1, <2>3, PartialIsBefore
  <2> QED BY <2>2, <2>3
<1> QED BY <1>1, <1>2, <1>3 DEF OrderOn

LEMMA EqualsRight ==
  ASSUME NEW v \in Vec, NEW w \in Vec
  PROVE  equal(v, w) <=> v = w
<1> DEFINE d == [i \in Lane |-> IF i \in Differ(v, w) THEN 1 ELSE 0]
<1>1. Zeros(d) = Lane <=> \A i \in Lane : i \notin Differ(v, w)
  <2>1. \A i \in Lane : d[i] = 0 <=> i \notin Differ(v, w)
    OBVIOUS
  <2> HIDE DEF d
  <2> QED BY <2>1 DEF Zeros
<1>2. (\A i \in Lane : i \notin Differ(v, w)) <=> \A i \in Lane : v[i] = w[i]
  BY DEF Differ
<1>3. v = w <=> \A i \in Lane : v[i] = w[i]
  BY DEF Vec
<1> QED BY <1>1, <1>2, <1>3 DEF equal, is_all_zero

LEMMA RevertedLanes ==
  ASSUME NEW v \in Vec
  PROVE  reverted(v) \in Vec /\ \A i \in 0 .. 15 : reverted(v)[i] = v[15 - i]
<1>1. \A i \in 0 .. 15 : Rev[i] = 15 - i /\ 15 - i \in 0 .. 15
  BY SixteenLanes DEF Rev
<1>2. ASSUME NEW i \in 0 .. 15 PROVE reverted(v)[i] = v[15 - i]
  <2>1. i \in Lane /\ Rev[i] \in Lane /\ Rev[i] = 15 - i
    BY <1>1, SixteenLanes
  <2>2. reverted(v)[i] = v[Rev[i]]
    BY <2>1 DEF reverted, Permuted
  <2> QED BY <2>1, <2>2
<1>3. reverted(v) = [i \in Lane |-> reverted(v)[i]]
  BY DEF reverted, Permuted
<1>4. \A i \in Lane : reverted(v)[i] \in Byte
  BY <1>1, <1>2, SixteenLanes
<1> QED BY <1>2, <1>3, <1>4 DEF Vec

LEMMA MembersAgreeAlways ==
  ASSUME NEW v \in Vec, NEW w \in Vec
  PROVE  MembersAgreeOn(v, w)
<1>1. equal(v, w) <=> vg_equal(v, w)
  BY EqualsRight, EqualIsTie
<1>2. is_all_one(v) <=> v = VectGeneric(<<>>, FF)
  <2>1. VectGeneric(<<>>, FF) = [i \in Lane |-> FF]
    <3>1. \A i \in Lane : ~(i < Len(<<>>))
      BY SixteenLanes
    <3> QED BY <3>1 DEF VectGeneric
  <2>2. v = [i \in Lane |-> v[i]]
    BY DEF Vec
  <2> QED BY <2>1, <2>2 DEF is_all_one
<1>3. reverted(v) \in Vec /\ reverted(reverted(v)) \in Vec
  BY RevertedLanes
<1>4. reverted(reverted(v)) = v
  <2>1. ASSUME NEW i \in Lane PROVE reverted(reverted(v))[i] = v[i]
    <3>1. i \in 0 .. 15 /\ 15 - i \in 0 .. 15 /\ 15 - (15 - i) = i
      BY SixteenLanes
    <3>2. reverted(reverted(v))[i] = reverted(v)[15 - i]
      BY <1>3, <3>1, RevertedLanes
    <3>3. reverted(v)[15 - i] = v[15 - (15 - i)]
      BY <3>1, RevertedLanes
    <3> QED BY <3>1, <3>2, <3>3
  <2> QED BY <1>3, <2>1 DEF Vec
<1>5. equal(reverted(v), v) <=> \A i \in 0 .. 7 : v[i] = v[15 - i]
  <2>1. equal(reverted(v), v) <=> \A i \in 0 .. 15 : v[15 - i] = v[i]
    <3>1. reverted(v) = v <=> \A i \in Lane : reverted(v)[i] = v[i]
      <4> DEFINE f == reverted(v)
      <4>1. f = [i \in Lane |-> f[i]] /\ v = [i \in Lane |-> v[i]]
        BY <1>3, Zenon DEF Vec
      <4> HIDE DEF f
      <4>2. (\A i \in Lane : f[i] = v[i]) => f = v
        BY <4>1, VecsEqual, Zenon
      <4>3. f = v => \A i \in Lane : f[i] = v[i]
        OBVIOUS
      <4> QED BY <4>2, <4>3 DEF f
    <3>2. \A i \in 0 .. 15 : reverted(v)[i] = v[15 - i]
      BY RevertedLanes
    <3>3. equal(reverted(v), v) <=> reverted(v) = v
      BY <1>3, EqualsRight
    <3> QED BY <3>1, <3>2, <3>3, LaneRange
  <2>2. ASSUME \A i \in 0 .. 7 : v[i] = v[15 - i], NEW i \in 0 .. 15
        PROVE  v[15 - i] = v[i]
    <3>1. i \in 0 .. 7 \/ (15 - i \in 0 .. 7 /\ 15 - (15 - i) = i)
      OBVIOUS
    <3> QED BY <2>2, <3>1
  <2> QED BY <2>1, <2>2
<1>6. ASSUME NEW n \in 0 .. Size
      PROVE  v16_comparisons(v, w, n)
               = << vg_equal(v, w), ~vg_equal(v, w), vg_less(v, w), vg_less_partial(v, w, n) >>
  <2>1. equal(v, w) = vg_equal(v, w)
    BY <1>1 DEF equal, is_all_zero, vg_equal
  <2>2. not_equal(v, w) = ~vg_equal(v, w)
    BY <2>1 DEF not_equal
  <2>3. less(v, w) = vg_less(v, w)
    BY GenericLess DEF less, vg_less
  <2>4. less_partial(v, w, n) = vg_less_partial(v, w, n)
    BY GenericLess, SixteenLanes
  <2> QED BY <2>1, <2>2, <2>3, <2>4 DEF v16_comparisons
<1>7. ASSUME NEW n \in 0 .. Size
      PROVE  v16_searches(v, w, n)
               = << vg_first_diff(v, w, n), vg_last_diff(v, w, n), vg_first_zero(v, n),
                    vg_last_zero(v, n), vg_first_non_zero(v, n), vg_last_non_zero(v, n) >>
  <2>1. n \in 0 .. 16
    BY SixteenLanes
  <2>2. /\ first_diff(v, w, n) = vg_first_diff(v, w, n)
        /\ last_diff(v, w, n) = vg_last_diff(v, w, n)
    BY <2>1, SearchesAgree DEF first_diff, last_diff
  <2>3. /\ first_zero(v, n) = vg_first_zero(v, n)
        /\ last_zero(v, n) = vg_last_zero(v, n)
        /\ first_non_zero(v, n) = vg_first_non_zero(v, n)
        /\ last_non_zero(v, n) = vg_last_non_zero(v, n)
    BY <2>1, FirstZeroLoop, LastZeroLoop, FirstNonZeroLoop, LastNonZeroLoop
       DEF first_zero, last_zero, first_non_zero, last_non_zero
  <2> QED BY <2>2, <2>3 DEF v16_searches
<1> QED BY <1>1, <1>2, <1>4, <1>5, <1>6, <1>7 DEF MembersAgreeOn
-----------------------------------------------------------------------------
(***************************************************************************)
(* What sorted returns is a rearrangement in order: the one that inserting *)
(* one byte after the other makes.                                         *)
(***************************************************************************)
LEMMA SortedArranges ==
  ASSUME NEW v \in Vec
  PROVE  /\ Sorted(v) \in Vec /\ InOrder(Sorted(v), 16)
         /\ \E f : OntoAll(f) /\ \A i \in Lane : Sorted(v)[i] = v[f[i]]
<1> DEFINE Made == {n \in Nat : n <= 16 => \E t : Inserted(v, t, n)}
<1>1. 0 \in Made
  BY InsertedStart
<1>2. ASSUME NEW n \in Nat, n \in Made
      PROVE  n + 1 \in Made
  <2>1. SUFFICES ASSUME n + 1 <= 16 PROVE \E t : Inserted(v, t, n + 1)
    OBVIOUS
  <2>2. n \in 0 .. 15 /\ n <= 16
    BY <2>1
  <2>3. PICK t : Inserted(v, t, n)
    BY <1>2, <2>2
  <2> QED BY <2>2, <2>3, InsertedNext
<1> HIDE DEF Made
<1>3. \A n \in Nat : n \in Made
  BY <1>1, <1>2, NatSetInduction
<1>4. PICK t : Inserted(v, t, 16)
  BY <1>3 DEF Made
<1>5. Inserted(v, Sorted(v), 16)
  BY <1>4, InsertedFully
<1>6. PICK f : Brings(f, v, Sorted(v), 16)
  BY <1>5 DEF Inserted
<1> QED BY <1>5, <1>6 DEF Inserted, Brings

LEMMA DupsRemovedRight ==
  ASSUME NEW v \in Vec, InOrder(v, 16), NEW repl, \A i \in Lane : v[i] # repl,
         NEW z \in {v[i] : i \in Lane}
  PROVE  Cardinality({i \in Lane : remove_dups(v, repl)[i] = z}) = IF z = 0 THEN 0 ELSE 1
<1> DEFINE left == remove_dups(v, repl)
           S == {i \in Lane : v[i] = z}
           K == {i \in Lane : left[i] = z}
<1>1. ASSUME NEW i \in Lane
      PROVE  left[i] = z <=> v[i] = z /\ (IF i = 0 THEN v[i] # 0 ELSE v[i - 1] # v[i])
  <2>1. ShiftedRight(v)[i] = IF i = 0 THEN 0 ELSE v[i - 1]
    BY DEF ShiftedRight
  <2>2. left[i] = IF v[i] # ShiftedRight(v)[i] THEN v[i] ELSE repl
    BY DEF remove_dups
  <2>3. z # repl
    OBVIOUS
  <2> QED BY <2>1, <2>2, <2>3
<1>2. S \in SUBSET (0 .. 15) /\ S # {}
  BY SixteenLanes
<1>3. PICK m \in S : \A l \in S : m <= l
  <2> HIDE DEF S
  <2> QED BY <1>2, LeastOfLanes
<1>4. \A i \in Lane : v[i] \in Int /\ v[i] >= 0 /\ i \in Int /\ (i # 0 => i - 1 \in Lane /\ i - 1 < i)
  <2>1. ASSUME NEW i \in 0 .. 15
        PROVE  /\ v[i] \in Int /\ v[i] >= 0
               /\ i \in Int /\ (i # 0 => i - 1 \in 0 .. 15 /\ i - 1 < i)
    <3>1. v[i] \in 0 .. 255
      BY ByteOfLane
    <3> QED BY <3>1
  <2>2. Lane = 0 .. 15
    BY SixteenLanes
  <2> QED BY <2>1, <2>2
<1>5. \A i, j \in Lane : i < j => v[i] <= v[j]
  <2>1. \A j \in Lane : j < 16
    BY SixteenLanes
  <2> QED BY <2>1 DEF InOrder
<1>6. CASE z = 0
  <2>1. ASSUME NEW i \in Lane, v[i] = z, i # 0 PROVE v[i - 1] = v[i]
    <3>1. v[i - 1] <= v[i] /\ v[i - 1] >= 0 /\ v[i - 1] \in Int
      BY <1>4, <1>5, <2>1
    <3> QED BY <1>6, <2>1, <3>1
  <2>2. K = {}
    <3> HIDE DEF left
    <3> QED BY <1>1, <1>6, <2>1
  <2> QED BY <1>6, <2>2, FS_EmptySet
<1>7. CASE z # 0
  <2>1. left[m] = z
    <3>1. m \in Lane /\ v[m] = z
      OBVIOUS
    <3>2. ASSUME m # 0 PROVE v[m - 1] # z
      <4>1. m - 1 \in Lane /\ m - 1 < m /\ m \in Int
        BY <1>4, <3>1, <3>2
      <4>2. m - 1 \notin S
        <5>1. ~(m <= m - 1)
          BY <4>1
        <5> HIDE DEF S
        <5> QED BY <1>3, <5>1
      <4> QED BY <4>1, <4>2
    <3> HIDE DEF left, S
    <3> QED BY <1>1, <1>7, <3>1, <3>2
  <2>2. ASSUME NEW i \in Lane, left[i] = z PROVE i = m
    <3>1. v[i] = z /\ i \in S /\ v[m] = z /\ m \in Lane
      BY <1>1, <2>2
    <3>2. m <= i
      BY <1>3, <3>1
    <3>3. ASSUME m # i PROVE FALSE
      <4>1. m < i /\ m \in 0 .. 15 /\ i \in 0 .. 15
        BY <3>1, <3>2, <3>3, SixteenLanes
      <4>2. i # 0 /\ i - 1 \in Lane /\ m <= i - 1
        BY <4>1, SixteenLanes
      <4>3. v[i - 1] # v[i]
        <5> HIDE DEF left
        <5> QED BY <1>1, <2>2, <4>2
      <4>4. v[m] <= v[i - 1]
        <5>1. CASE m = i - 1
          BY <1>4, <4>2, <5>1
        <5>2. CASE m # i - 1
          <6>1. m < i - 1
            BY <4>1, <4>2, <5>2
          <6> QED BY <1>5, <3>1, <4>2, <6>1
        <5> QED BY <5>1, <5>2
      <4>5. v[i - 1] <= v[i]
        BY <1>4, <1>5, <4>2
      <4>6. v[i - 1] \in Int /\ z \in Int
        BY <1>4, <3>1, <4>2
      <4> QED BY <3>1, <4>3, <4>4, <4>5, <4>6
    <3> QED BY <3>3
  <2>3. K = {m}
    <3>1. m \in Lane
      OBVIOUS
    <3> HIDE DEF left, S
    <3> QED BY <2>1, <2>2, <3>1
  <2>4. Cardinality({m}) = 1
    BY FS_Singleton
  <2> QED BY <1>7, <2>3, <2>4
<1> QED BY <1>6, <1>7

LEMMA ShufflesAlways ==
  ASSUME NEW v \in Vec, NEW w \in Vec
  PROVE  ShufflesAgreeOn(v, w)
<1>1. SUFFICES ASSUME \A i \in Lane : w[i] \in Lane
               PROVE  permuted_ref(v, w) = Permuted(v, w) /\ vg_permuted(v, w, v) = Permuted(v, w)
  BY DEF ShufflesAgreeOn
<1>2. \A i \in Lane : w[i] < Size /\ w[i] % 16 = w[i]
  <2>1. \A n \in 0 .. 15 : n < 16 /\ n % 16 = n
    OBVIOUS
  <2> QED BY <1>1, <2>1, SixteenLanes
<1> QED BY <1>1, <1>2 DEF permuted_ref, vg_permuted, Permuted

LEMMA LoopSearches == LoopInv => SearchesRight
<1> SUFFICES ASSUME LoopInv PROVE SearchesRight
  OBVIOUS
<1>1. a \in Vec /\ b \in Vec
  BY DEF LoopInv, ArgumentsTyped
<1>2. SearchesAgreeOn(a, b) /\ OrderOn(a, b) /\ MembersAgreeOn(a, b) /\ ShufflesAgreeOn(b, a)
  BY <1>1, SearchesAgreeAlways, OrderAlways, MembersAgreeAlways, ShufflesAlways
<1>3. DupsRemovedOn(Sorted(a), 254)
  <2>1. Sorted(a) \in Vec /\ InOrder(Sorted(a), 16)
    BY <1>1, SortedArranges
  <2> QED BY <2>1, DupsRemovedRight DEF DupsRemovedOn
<1> QED BY <1>2, <1>3 DEF SearchesRight

(***************************************************************************)
(* Every search, mask, string instruction or loop, of epu8 or of           *)
(* VectGeneric, returns the same lane at every bound; less is the          *)
(* lexicographic order and the comparisons of Vect16 those of VectGeneric; *)
(* the shuffles agree, and remove_dups keeps one of each byte: for any two *)
(* vectors the functions are called with.                                  *)
(***************************************************************************)
THEOREM SearchesAlwaysRight == Spec => []SearchesRight
BY LoopAlways, LoopSearches, PTL
-----------------------------------------------------------------------------
(***************************************************************************)
(* Reductions.  The prefix networks after each of their rounds.            *)
(***************************************************************************)
LEMMA VectorRun ==
  ASSUME NEW v \in Vec, NEW n \in 0 .. 4, NEW step, \A r \in 1 .. 4, w \in Vec : step[r][w] \in Vec
  PROVE  \E h : IsRun(h, step, v, n) /\ \A r \in 0 .. n : h[r] \in Vec
<1>1. PICK h : IsRun(h, step, v, n)
  <2>1. RunOf(step, v, n)
    BY RunExists
  <2> QED BY <2>1 DEF RunOf
<1> DEFINE Typed == {r \in Nat : r <= n => h[r] \in Vec}
<1>2. 0 \in Typed
  BY <1>1 DEF IsRun
<1>3. ASSUME NEW r \in Nat, r \in Typed
      PROVE  r + 1 \in Typed
  <2>1. SUFFICES ASSUME r + 1 <= n PROVE h[r + 1] \in Vec
    OBVIOUS
  <2>2. r + 1 \in 0 .. n /\ r + 1 # 0 /\ (r + 1) - 1 = r /\ r <= n /\ r + 1 \in 1 .. 4
    BY <2>1
  <2>3. h[r + 1] = step[r + 1][h[r]]
    BY <1>1, <2>2 DEF IsRun
  <2> QED BY <1>3, <2>2, <2>3
<1> HIDE DEF Typed
<1>4. \A r \in Nat : r \in Typed
  BY <1>2, <1>3, NatSetInduction
<1>5. \A r \in 0 .. n : r \in Nat /\ r <= n
  OBVIOUS
<1>6. \A r \in 0 .. n : h[r] \in Vec
  BY <1>4, <1>5 DEF Typed
<1> QED BY <1>1, <1>6

LEMMA RoundTypes ==
  ASSUME NEW t \in Vec, NEW r \in 1 .. 4
  PROVE  /\ VAdd(t, Permuted(t, summing_rounds[r])) \in Vec
         /\ VMax(t, Permuted(t, summing_rounds[r])) \in Vec
         /\ VMin(t, Permuted(t, mining_rounds[r])) \in Vec
<1>1. r - 1 \in 0 .. 3 /\ (r - 1) + 1 = r
  OBVIOUS
<1>2. ASSUME NEW i \in Lane
      PROVE  /\ Permuted(t, summing_rounds[r])[i] \in Byte
             /\ Permuted(t, mining_rounds[r])[i] \in Byte
  <2>1. /\ Permuted(t, summing_rounds[r])[i]
              = IF Lower(r - 1, i) THEN 0 ELSE t[Origin(r - 1, i) - 1]
        /\ Permuted(t, mining_rounds[r])[i]
              = IF Lower(r - 1, i) THEN t[i] ELSE t[Origin(r - 1, i) - 1]
    BY <1>1, PrefixTaken
  <2>2. ~Lower(r - 1, i) => Origin(r - 1, i) - 1 \in Lane
    BY <1>1, BlockNext
  <2>3. 0 \in Byte
    BY SixteenLanes
  <2> QED BY <2>1, <2>2, <2>3 DEF Vec
<1>3. \A i \in Lane : t[i] \in Byte /\ t[i] \in Int
  <2>1. \A i \in Lane : t[i] \in Byte
    BY DEF Vec
  <2>2. \A i \in Lane : t[i] \in Int
    BY ByteOfLane, LaneRange
  <2> QED BY <2>1, <2>2
<1>4. Permuted(t, summing_rounds[r]) \in Vec /\ Permuted(t, mining_rounds[r]) \in Vec
  BY <1>2 DEF Vec, Permuted
<1>5. VAdd(t, Permuted(t, summing_rounds[r])) \in Vec
  <2>1. Vec = [Lane -> 0 .. 255]
    BY SixteenLanes
  <2> QED BY <1>4, <2>1, VAddType
<1> QED BY <1>2, <1>3, <1>5 DEF Vec, VMax, VMin

LEMMA SumPrefix ==
  ASSUME NEW v \in Vec, NEW n \in 0 .. 4
  PROVE  BlockSum(v, Prefix(VAdd, summing_rounds, n, v), n)
<1> DEFINE Body(f) == [r \in 0 .. n |->
                        IF r = 0 THEN v
                        ELSE LET w == f[r - 1] IN VAdd(w, Permuted(w, summing_rounds[r]))]
           F    == CHOOSE f : f = Body(f)
           step == [r \in 1 .. 4 |-> [w \in Vec |-> VAdd(w, Permuted(w, summing_rounds[r]))]]
<1>1. \A r \in 1 .. 4, w \in Vec : /\ step[r][w] = VAdd(w, Permuted(w, summing_rounds[r]))
                                  /\ step[r][w] \in Vec
  BY RoundTypes
<1>2. PICK h : IsRun(h, step, v, n) /\ \A r \in 0 .. n : h[r] \in Vec
  <2> HIDE DEF step
  <2> QED BY <1>1, VectorRun
<1> HIDE DEF step
<1>3. h = Body(h)
  <2>1. ASSUME NEW r \in 0 .. n
        PROVE  (IF r = 0 THEN v ELSE step[r][h[r - 1]])
                 = IF r = 0 THEN v ELSE VAdd(h[r - 1], Permuted(h[r - 1], summing_rounds[r]))
    <3>1. r # 0 => r \in 1 .. 4 /\ r - 1 \in 0 .. n
      OBVIOUS
    <3> QED BY <1>1, <1>2, <3>1
  <2> QED BY <1>2, <2>1 DEF IsRun
<1>4. F = Body(F)
  BY <1>3
<1>5. Prefix(VAdd, summing_rounds, n, v) = F[n]
  BY DEF Prefix
<1> HIDE DEF F
<1> DEFINE Reached == {r \in Nat : r <= n => BlockSum(v, F[r], r)}
<1>6. 0 \in Reached
  <2>1. F[0] = v
    BY <1>4
  <2> QED BY <2>1, BlockSumStart
<1>7. ASSUME NEW r \in Nat, r \in Reached
      PROVE  r + 1 \in Reached
  <2>1. SUFFICES ASSUME r + 1 <= n PROVE BlockSum(v, F[r + 1], r + 1)
    OBVIOUS
  <2>2. r + 1 \in 0 .. n /\ r + 1 # 0 /\ (r + 1) - 1 = r /\ r <= n /\ r \in 0 .. 3
    BY <2>1
  <2>3. F[r + 1] = VAdd(F[r], Permuted(F[r], summing_rounds[r + 1]))
    BY <1>4, <2>2
  <2>4. BlockSum(v, F[r], r)
    BY <1>7, <2>2
  <2> QED BY <2>2, <2>3, <2>4, BlockSumNext
<1> HIDE DEF Reached
<1>8. \A r \in Nat : r \in Reached
  BY <1>6, <1>7, NatSetInduction
<1>9. n \in Nat /\ n <= n
  OBVIOUS
<1> QED BY <1>5, <1>8, <1>9 DEF Reached

LEMMA MaxPrefix ==
  ASSUME NEW v \in Vec, NEW n \in 0 .. 4
  PROVE  BlockMax(v, Prefix(VMax, summing_rounds, n, v), n)
<1> DEFINE Body(f) == [r \in 0 .. n |->
                        IF r = 0 THEN v
                        ELSE LET w == f[r - 1] IN VMax(w, Permuted(w, summing_rounds[r]))]
           F    == CHOOSE f : f = Body(f)
           step == [r \in 1 .. 4 |-> [w \in Vec |-> VMax(w, Permuted(w, summing_rounds[r]))]]
<1>1. \A r \in 1 .. 4, w \in Vec : /\ step[r][w] = VMax(w, Permuted(w, summing_rounds[r]))
                                  /\ step[r][w] \in Vec
  BY RoundTypes
<1>2. PICK h : IsRun(h, step, v, n) /\ \A r \in 0 .. n : h[r] \in Vec
  <2> HIDE DEF step
  <2> QED BY <1>1, VectorRun
<1> HIDE DEF step
<1>3. h = Body(h)
  <2>1. ASSUME NEW r \in 0 .. n
        PROVE  (IF r = 0 THEN v ELSE step[r][h[r - 1]])
                 = IF r = 0 THEN v ELSE VMax(h[r - 1], Permuted(h[r - 1], summing_rounds[r]))
    <3>1. r # 0 => r \in 1 .. 4 /\ r - 1 \in 0 .. n
      OBVIOUS
    <3> QED BY <1>1, <1>2, <3>1
  <2> QED BY <1>2, <2>1 DEF IsRun
<1>4. F = Body(F)
  BY <1>3
<1>5. Prefix(VMax, summing_rounds, n, v) = F[n]
  BY DEF Prefix
<1> HIDE DEF F
<1> DEFINE Reached == {r \in Nat : r <= n => BlockMax(v, F[r], r)}
<1>6. 0 \in Reached
  <2>1. F[0] = v
    BY <1>4
  <2> QED BY <2>1, BlockExtremaStart
<1>7. ASSUME NEW r \in Nat, r \in Reached
      PROVE  r + 1 \in Reached
  <2>1. SUFFICES ASSUME r + 1 <= n PROVE BlockMax(v, F[r + 1], r + 1)
    OBVIOUS
  <2>2. r + 1 \in 0 .. n /\ r + 1 # 0 /\ (r + 1) - 1 = r /\ r <= n /\ r \in 0 .. 3
    BY <2>1
  <2>3. F[r + 1] = VMax(F[r], Permuted(F[r], summing_rounds[r + 1]))
    BY <1>4, <2>2
  <2>4. BlockMax(v, F[r], r)
    BY <1>7, <2>2
  <2> QED BY <2>2, <2>3, <2>4, BlockMaxNext
<1> HIDE DEF Reached
<1>8. \A r \in Nat : r \in Reached
  BY <1>6, <1>7, NatSetInduction
<1>9. n \in Nat /\ n <= n
  OBVIOUS
<1> QED BY <1>5, <1>8, <1>9 DEF Reached

LEMMA MinPrefix ==
  ASSUME NEW v \in Vec, NEW n \in 0 .. 4
  PROVE  BlockMin(v, Prefix(VMin, mining_rounds, n, v), n)
<1> DEFINE Body(f) == [r \in 0 .. n |->
                        IF r = 0 THEN v
                        ELSE LET w == f[r - 1] IN VMin(w, Permuted(w, mining_rounds[r]))]
           F    == CHOOSE f : f = Body(f)
           step == [r \in 1 .. 4 |-> [w \in Vec |-> VMin(w, Permuted(w, mining_rounds[r]))]]
<1>1. \A r \in 1 .. 4, w \in Vec : /\ step[r][w] = VMin(w, Permuted(w, mining_rounds[r]))
                                  /\ step[r][w] \in Vec
  BY RoundTypes
<1>2. PICK h : IsRun(h, step, v, n) /\ \A r \in 0 .. n : h[r] \in Vec
  <2> HIDE DEF step
  <2> QED BY <1>1, VectorRun
<1> HIDE DEF step
<1>3. h = Body(h)
  <2>1. ASSUME NEW r \in 0 .. n
        PROVE  (IF r = 0 THEN v ELSE step[r][h[r - 1]])
                 = IF r = 0 THEN v ELSE VMin(h[r - 1], Permuted(h[r - 1], mining_rounds[r]))
    <3>1. r # 0 => r \in 1 .. 4 /\ r - 1 \in 0 .. n
      OBVIOUS
    <3> QED BY <1>1, <1>2, <3>1
  <2> QED BY <1>2, <2>1 DEF IsRun
<1>4. F = Body(F)
  BY <1>3
<1>5. Prefix(VMin, mining_rounds, n, v) = F[n]
  BY DEF Prefix
<1> HIDE DEF F
<1> DEFINE Reached == {r \in Nat : r <= n => BlockMin(v, F[r], r)}
<1>6. 0 \in Reached
  <2>1. F[0] = v
    BY <1>4
  <2> QED BY <2>1, BlockExtremaStart
<1>7. ASSUME NEW r \in Nat, r \in Reached
      PROVE  r + 1 \in Reached
  <2>1. SUFFICES ASSUME r + 1 <= n PROVE BlockMin(v, F[r + 1], r + 1)
    OBVIOUS
  <2>2. r + 1 \in 0 .. n /\ r + 1 # 0 /\ (r + 1) - 1 = r /\ r <= n /\ r \in 0 .. 3
    BY <2>1
  <2>3. F[r + 1] = VMin(F[r], Permuted(F[r], mining_rounds[r + 1]))
    BY <1>4, <2>2
  <2>4. BlockMin(v, F[r], r)
    BY <1>7, <2>2
  <2> QED BY <2>2, <2>3, <2>4, BlockMinNext
<1> HIDE DEF Reached
<1>8. \A r \in Nat : r \in Reached
  BY <1>6, <1>7, NatSetInduction
<1>9. n \in Nat /\ n <= n
  OBVIOUS
<1> QED BY <1>5, <1>8, <1>9 DEF Reached
(***************************************************************************)
(* The loops over the lanes: after the first entry they hold what the      *)
(* running loops hold, whatever they start from.                           *)
(***************************************************************************)
LEMMA SumReduced ==
  ASSUME NEW v \in Vec
  PROVE  Reduced(Sum2, 0, v) = partial_sums_ref(v)[15]
<1> DEFINE Body(f) == [i \in 0 .. Size |-> IF i = 0 THEN 0 ELSE Sum2(f[i - 1], v[i - 1])]
           F == CHOOSE f : f = Body(f)
           h == [i \in 0 .. 16 |-> IF i = 0 THEN 0 ELSE partial_sums_ref(v)[i - 1]]
<1>1. ASSUME NEW i \in 0 .. 16
      PROVE  h[i] = IF i = 0 THEN 0 ELSE Sum2(h[i - 1], v[i - 1])
  <2>1. CASE i = 0
    BY <2>1
  <2>2. CASE i = 1
    <3>1. 0 \in 0 .. 15
      OBVIOUS
    <3>2. v[0] \in 0 .. 255
      BY <3>1, ByteOfLane
    <3>3. \A m \in 0 .. 255 : AsByte(0 + m) = m
      BY DEF AsByte
    <3>4. h[0] = 0 /\ h[1] = v[0]
      BY SumsFacts
    <3> QED BY <2>2, <3>2, <3>3, <3>4 DEF Sum2
  <2>3. CASE i \in 2 .. 16
    <3>1. i - 1 \in 1 .. 15 /\ i - 1 # 0 /\ i # 0 /\ i - 1 \in 0 .. 16
      BY <2>3
    <3>2. h[i] = partial_sums_ref(v)[i - 1] /\ h[i - 1] = partial_sums_ref(v)[(i - 1) - 1]
      BY <3>1
    <3>3. partial_sums_ref(v)[i - 1] = AsByte(partial_sums_ref(v)[(i - 1) - 1] + v[i - 1])
      BY <3>1, SumsFacts
    <3> QED BY <3>1, <3>2, <3>3 DEF Sum2
  <2>4. i = 0 \/ i = 1 \/ i \in 2 .. 16
    OBVIOUS
  <2> QED BY <2>1, <2>2, <2>3, <2>4
<1>2. h = [i \in 0 .. 16 |-> h[i]]
  OBVIOUS
<1>3. h[0] = 0 /\ h[16] = partial_sums_ref(v)[15]
  OBVIOUS
<1> HIDE DEF h
<1>4. h = Body(h)
  BY <1>1, <1>2, SixteenLanes
<1>5. F = Body(F)
  BY <1>4
<1>6. Reduced(Sum2, 0, v) = F[16]
  BY SixteenLanes DEF Reduced
<1>7. \A i \in 0 .. 16 : F[i] = IF i = 0 THEN 0 ELSE Sum2(F[i - 1], v[i - 1])
  BY <1>5, SixteenLanes
<1> HIDE DEF F
<1> DEFINE Same == {i \in Nat : i <= 16 => F[i] = h[i]}
<1>8. 0 \in Same
  BY <1>3, <1>7
<1>9. ASSUME NEW i \in Nat, i \in Same
      PROVE  i + 1 \in Same
  <2>1. SUFFICES ASSUME i + 1 <= 16 PROVE F[i + 1] = h[i + 1]
    OBVIOUS
  <2>2. i + 1 \in 0 .. 16 /\ i + 1 # 0 /\ (i + 1) - 1 = i /\ i <= 16
    BY <2>1
  <2> QED BY <1>1, <1>7, <1>9, <2>2
<1> HIDE DEF Same
<1>10. \A i \in Nat : i \in Same
  BY <1>8, <1>9, NatSetInduction
<1>11. F[16] = h[16]
  BY <1>10 DEF Same
<1> QED BY <1>3, <1>6, <1>11

LEMMA MaxReduced ==
  ASSUME NEW v \in Vec, NEW start \in 0 .. 255, start <= v[0]
  PROVE  Reduced(Max2, start, v) = partial_max_ref(v)[15]
<1> DEFINE Body(f) == [i \in 0 .. Size |-> IF i = 0 THEN start ELSE Max2(f[i - 1], v[i - 1])]
           F == CHOOSE f : f = Body(f)
           t == partial_max_ref(v)
           h == [i \in 0 .. 16 |-> IF i = 0 THEN start ELSE t[i - 1]]
<1>0. /\ t[0] = v[0] /\ t \in Vec
      /\ \A i \in 1 .. 15 : t[i] = Max2(t[i - 1], v[i])
  <2> DEFINE p == Prefix(VMax, summing_rounds, 4, v)
  <2>1. BlockMax(v, p, 4)
    BY MaxPrefix
  <2> HIDE DEF p
  <2>2. t = p
    BY <2>1, RunningMax2
  <2> HIDE DEF t
  <2>3. 0 \in Lane /\ \A i \in 1 .. 15 : i \in Lane /\ i # 0
    BY SixteenLanes
  <2>4. p \in Vec
    BY <2>1 DEF BlockMax
  <2>5. \A i \in Lane : p[i] = IF i = 0 THEN v[0] ELSE Max2(p[i - 1], v[i])
    BY <2>1, MaxGrows
  <2> QED BY <2>2, <2>3, <2>4, <2>5
<1> HIDE DEF t
<1>1. ASSUME NEW i \in 0 .. 16
      PROVE  h[i] = IF i = 0 THEN start ELSE Max2(h[i - 1], v[i - 1])
  <2>1. CASE i = 0
    BY <2>1
  <2>2. CASE i = 1
    <3>1. 0 \in 0 .. 15
      OBVIOUS
    <3>2. v[0] \in 0 .. 255
      BY <3>1, ByteOfLane
    <3>3. Max2(start, v[0]) = v[0]
      BY <3>2 DEF Max2
    <3>4. h[0] = start /\ h[1] = v[0]
      BY <1>0
    <3> QED BY <2>2, <3>3, <3>4
  <2>3. CASE i \in 2 .. 16
    <3>1. i - 1 \in 1 .. 15 /\ i - 1 # 0 /\ i # 0 /\ i - 1 \in 0 .. 16
      BY <2>3
    <3>2. h[i] = t[i - 1] /\ h[i - 1] = t[(i - 1) - 1]
      BY <3>1
    <3>3. t[i - 1] = Max2(t[(i - 1) - 1], v[i - 1])
      BY <1>0, <3>1
    <3> QED BY <3>1, <3>2, <3>3
  <2>4. i = 0 \/ i = 1 \/ i \in 2 .. 16
    OBVIOUS
  <2> QED BY <2>1, <2>2, <2>3, <2>4
<1>2. h = [i \in 0 .. 16 |-> h[i]]
  OBVIOUS
<1>3. h[0] = start /\ h[16] = t[15]
  OBVIOUS
<1> HIDE DEF h
<1>4. h = Body(h)
  BY <1>1, <1>2, SixteenLanes
<1>5. F = Body(F)
  BY <1>4
<1>6. Reduced(Max2, start, v) = F[16]
  BY SixteenLanes DEF Reduced
<1>7. \A i \in 0 .. 16 : F[i] = IF i = 0 THEN start ELSE Max2(F[i - 1], v[i - 1])
  BY <1>5, SixteenLanes
<1> HIDE DEF F
<1> DEFINE Same == {i \in Nat : i <= 16 => F[i] = h[i]}
<1>8. 0 \in Same
  BY <1>3, <1>7
<1>9. ASSUME NEW i \in Nat, i \in Same
      PROVE  i + 1 \in Same
  <2>1. SUFFICES ASSUME i + 1 <= 16 PROVE F[i + 1] = h[i + 1]
    OBVIOUS
  <2>2. i + 1 \in 0 .. 16 /\ i + 1 # 0 /\ (i + 1) - 1 = i /\ i <= 16
    BY <2>1
  <2> QED BY <1>1, <1>7, <1>9, <2>2
<1> HIDE DEF Same
<1>10. \A i \in Nat : i \in Same
  BY <1>8, <1>9, NatSetInduction
<1>11. F[16] = h[16]
  BY <1>10 DEF Same
<1> QED BY <1>3, <1>6, <1>11 DEF t

LEMMA MinReduced ==
  ASSUME NEW v \in Vec, NEW start \in 0 .. 255, v[0] <= start
  PROVE  Reduced(Min2, start, v) = partial_min_ref(v)[15]
<1> DEFINE Body(f) == [i \in 0 .. Size |-> IF i = 0 THEN start ELSE Min2(f[i - 1], v[i - 1])]
           F == CHOOSE f : f = Body(f)
           t == partial_min_ref(v)
           h == [i \in 0 .. 16 |-> IF i = 0 THEN start ELSE t[i - 1]]
<1>0. /\ t[0] = v[0] /\ t \in Vec
      /\ \A i \in 1 .. 15 : t[i] = Min2(t[i - 1], v[i])
  <2> DEFINE p == Prefix(VMin, mining_rounds, 4, v)
  <2>1. BlockMin(v, p, 4)
    BY MinPrefix
  <2> HIDE DEF p
  <2>2. t = p
    BY <2>1, RunningMin2
  <2> HIDE DEF t
  <2>3. 0 \in Lane /\ \A i \in 1 .. 15 : i \in Lane /\ i # 0
    BY SixteenLanes
  <2>4. p \in Vec
    BY <2>1 DEF BlockMin
  <2>5. \A i \in Lane : p[i] = IF i = 0 THEN v[0] ELSE Min2(p[i - 1], v[i])
    BY <2>1, MinFalls
  <2> QED BY <2>2, <2>3, <2>4, <2>5
<1> HIDE DEF t
<1>1. ASSUME NEW i \in 0 .. 16
      PROVE  h[i] = IF i = 0 THEN start ELSE Min2(h[i - 1], v[i - 1])
  <2>1. CASE i = 0
    BY <2>1
  <2>2. CASE i = 1
    <3>1. 0 \in 0 .. 15
      OBVIOUS
    <3>2. v[0] \in 0 .. 255
      BY <3>1, ByteOfLane
    <3>3. Min2(start, v[0]) = v[0]
      BY <3>2 DEF Min2
    <3>4. h[0] = start /\ h[1] = v[0]
      BY <1>0
    <3> QED BY <2>2, <3>3, <3>4
  <2>3. CASE i \in 2 .. 16
    <3>1. i - 1 \in 1 .. 15 /\ i - 1 # 0 /\ i # 0 /\ i - 1 \in 0 .. 16
      BY <2>3
    <3>2. h[i] = t[i - 1] /\ h[i - 1] = t[(i - 1) - 1]
      BY <3>1
    <3>3. t[i - 1] = Min2(t[(i - 1) - 1], v[i - 1])
      BY <1>0, <3>1
    <3> QED BY <3>1, <3>2, <3>3
  <2>4. i = 0 \/ i = 1 \/ i \in 2 .. 16
    OBVIOUS
  <2> QED BY <2>1, <2>2, <2>3, <2>4
<1>2. h = [i \in 0 .. 16 |-> h[i]]
  OBVIOUS
<1>3. h[0] = start /\ h[16] = t[15]
  OBVIOUS
<1> HIDE DEF h
<1>4. h = Body(h)
  BY <1>1, <1>2, SixteenLanes
<1>5. F = Body(F)
  BY <1>4
<1>6. Reduced(Min2, start, v) = F[16]
  BY SixteenLanes DEF Reduced
<1>7. \A i \in 0 .. 16 : F[i] = IF i = 0 THEN start ELSE Min2(F[i - 1], v[i - 1])
  BY <1>5, SixteenLanes
<1> HIDE DEF F
<1> DEFINE Same == {i \in Nat : i <= 16 => F[i] = h[i]}
<1>8. 0 \in Same
  BY <1>3, <1>7
<1>9. ASSUME NEW i \in Nat, i \in Same
      PROVE  i + 1 \in Same
  <2>1. SUFFICES ASSUME i + 1 <= 16 PROVE F[i + 1] = h[i + 1]
    OBVIOUS
  <2>2. i + 1 \in 0 .. 16 /\ i + 1 # 0 /\ (i + 1) - 1 = i /\ i <= 16
    BY <2>1
  <2> QED BY <1>1, <1>7, <1>9, <2>2
<1> HIDE DEF Same
<1>10. \A i \in Nat : i \in Same
  BY <1>8, <1>9, NatSetInduction
<1>11. F[16] = h[16]
  BY <1>10 DEF Same
<1> QED BY <1>3, <1>6, <1>11 DEF t
LEMMA ExtremaOfAll ==
  ASSUME NEW v \in Vec, NEW t
  PROVE  /\ BlockMax(v, t, 4) => t[15] = Max({v[i] : i \in Lane})
         /\ BlockMin(v, t, 4) => t[15] = Min({v[i] : i \in Lane})
<1> DEFINE S == {v[i] : i \in Lane}
<1>1. 15 \in Lane /\ Block(4, 15) = Lane
  BY BlockEnds, SixteenLanes
<1>2. S \in SUBSET Int
  BY SixteenLanes
<1>3. ASSUME BlockMax(v, t, 4) PROVE t[15] = Max(S)
  <2>1. t[15] \in S /\ \A n \in S : n <= t[15]
    BY <1>1, <1>3 DEF BlockMax
  <2> HIDE DEF S
  <2> QED BY <1>2, <2>1, MaxIs
<1>4. ASSUME BlockMin(v, t, 4) PROVE t[15] = Min(S)
  <2>1. t[15] \in S /\ \A n \in S : t[15] <= n
    BY <1>1, <1>4 DEF BlockMin
  <2> HIDE DEF S
  <2> QED BY <1>2, <2>1, MinIs
<1> QED BY <1>3, <1>4

\* After three rounds the last lanes of the two halves hold the halves' reductions.
LEMMA HalvesTogether ==
  ASSUME NEW v \in Vec, NEW t
  PROVE  /\ BlockSum(v, t, 3) => Sum2(t[7], t[15]) = partial_sums_ref(v)[15]
         /\ BlockMax(v, t, 3) => Max2(t[7], t[15]) = Max({v[i] : i \in Lane})
         /\ BlockMin(v, t, 3) => Min2(t[7], t[15]) = Min({v[i] : i \in Lane})
<1>1. 7 \in Lane /\ 15 \in Lane /\ 0 \in Lane
  BY SixteenLanes
<1>2. Origin(3, 7) = 0 /\ Origin(3, 15) = 8
  BY DEF Origin
<1>3. Block(3, 7) = 0 .. 7 /\ Block(3, 15) = 8 .. 15
  BY DEF Block
<1>4. ASSUME BlockSum(v, t, 3)
      PROVE  Sum2(t[7], t[15]) = partial_sums_ref(v)[15]
  <2> DEFINE s == partial_sums_ref(v)
  <2>1. s[7] \in 0 .. 255 /\ s[15] \in 0 .. 255
    <3>1. s \in Vec
      BY SumsFacts
    <3> HIDE DEF s
    <3>2. 7 \in 0 .. 15 /\ 15 \in 0 .. 15
      OBVIOUS
    <3> QED BY <3>1, <3>2, ByteOfLane
  <2>2. t[7] = AsByte(s[7] - 0) /\ t[15] = AsByte(s[15] - s[7])
    BY <1>1, <1>2, <1>4 DEF BlockSum, Ahead
  <2> HIDE DEF s
  <2>3. \A p, q \in 0 .. 255 : AsByte(AsByte(p - 0) + AsByte(q - p)) = q
    BY DEF AsByte
  <2>4. AsByte(AsByte(s[7] - 0) + AsByte(s[15] - s[7])) = s[15]
    BY <2>1, <2>3, Zenon
  <2>5. Sum2(t[7], t[15]) = s[15]
    BY <2>2, <2>4 DEF Sum2
  <2> QED BY <2>5 DEF s
<1>5. \A i \in Lane : v[i] \in Int
  BY SixteenLanes
<1>6. \A i \in Lane : i \in 0 .. 7 \/ i \in 8 .. 15
  BY SixteenLanes
<1>7. (\A i \in 0 .. 7 : i \in Lane) /\ (\A i \in 8 .. 15 : i \in Lane)
  BY SixteenLanes
<1> DEFINE S == {v[i] : i \in Lane}
<1>8. S \in SUBSET Int
  BY <1>5
<1>9. ASSUME BlockMax(v, t, 3)
      PROVE  Max2(t[7], t[15]) = Max(S)
  <2>1. /\ \E j \in 0 .. 7 : t[7] = v[j]
        /\ \E j \in 8 .. 15 : t[15] = v[j]
        /\ \A j \in 0 .. 7 : v[j] <= t[7]
        /\ \A j \in 8 .. 15 : v[j] <= t[15]
    BY <1>1, <1>3, <1>9 DEF BlockMax
  <2>2. t[7] \in S /\ t[15] \in S /\ t[7] \in Int /\ t[15] \in Int
    BY <1>5, <1>7, <2>1
  <2> DEFINE m == Max2(t[7], t[15])
  <2>3. m \in S /\ t[7] <= m /\ t[15] <= m /\ m \in Int
    BY <2>2 DEF Max2
  <2> HIDE DEF m
  <2>4. ASSUME NEW i \in Lane PROVE v[i] <= m
    <3>1. v[i] <= t[7] \/ v[i] <= t[15]
      BY <1>6, <2>1
    <3> QED BY <1>5, <2>2, <2>3, <3>1
  <2>5. \A n \in S : n <= m
    BY <2>4
  <2> HIDE DEF S
  <2>6. Max(S) = m
    BY <1>8, <2>3, <2>5, MaxIs
  <2> QED BY <2>6 DEF m
<1>10. ASSUME BlockMin(v, t, 3)
       PROVE  Min2(t[7], t[15]) = Min(S)
  <2>1. /\ \E j \in 0 .. 7 : t[7] = v[j]
        /\ \E j \in 8 .. 15 : t[15] = v[j]
        /\ \A j \in 0 .. 7 : t[7] <= v[j]
        /\ \A j \in 8 .. 15 : t[15] <= v[j]
    BY <1>1, <1>3, <1>10 DEF BlockMin
  <2>2. t[7] \in S /\ t[15] \in S /\ t[7] \in Int /\ t[15] \in Int
    BY <1>5, <1>7, <2>1
  <2> DEFINE m == Min2(t[7], t[15])
  <2>3. m \in S /\ m <= t[7] /\ m <= t[15] /\ m \in Int
    BY <2>2 DEF Min2
  <2> HIDE DEF m
  <2>4. ASSUME NEW i \in Lane PROVE m <= v[i]
    <3>1. t[7] <= v[i] \/ t[15] <= v[i]
      BY <1>6, <2>1
    <3> QED BY <1>5, <2>2, <2>3, <3>1
  <2>5. \A n \in S : m <= n
    BY <2>4
  <2> HIDE DEF S
  <2>6. Min(S) = m
    BY <1>8, <2>3, <2>5, MinIs
  <2> QED BY <2>6 DEF m
<1> QED BY <1>4, <1>9, <1>10

LEMMA ReductionsAlways ==
  ASSUME NEW v \in Vec
  PROVE  /\ ReductionsAgreeOn(v)
         /\ horiz_sum(v) = horiz_sum_gen(v) /\ partial_sums(v) = partial_sums_gen(v)
         /\ horiz_max(v) = horiz_max_gen(v) /\ partial_max(v) = partial_max_gen(v)
         /\ horiz_min(v) = horiz_min_gen(v) /\ partial_min(v) = partial_min_gen(v)
<1> DEFINE s == partial_sums_ref(v)
           m == Max({v[i] : i \in Lane})
           l == Min({v[i] : i \in Lane})
<1>1. v[0] \in 0 .. 255 /\ 0 \in 0 .. 255 /\ 255 \in 0 .. 255 /\ 0 <= v[0] /\ v[0] <= 255 /\ v[0] <= v[0]
  <2>1. 0 \in 0 .. 15
    OBVIOUS
  <2>2. v[0] \in 0 .. 255
    BY <2>1, ByteOfLane
  <2> QED BY <2>2
<1>2. /\ partial_sums_round(v) = s
      /\ partial_max_round(v) = partial_max_ref(v)
      /\ partial_min_round(v) = partial_min_ref(v)
  <2>1. /\ BlockSum(v, partial_sums_round(v), 4)
        /\ BlockMax(v, partial_max_round(v), 4)
        /\ BlockMin(v, partial_min_round(v), 4)
    BY SumPrefix, MaxPrefix, MinPrefix
       DEF partial_sums_round, partial_max_round, partial_min_round
  <2> QED BY <2>1, RunningSums, RunningMax2, RunningMin2
<1>3. partial_max_ref(v)[15] = m /\ partial_min_ref(v)[15] = l
  <2>1. BlockMax(v, partial_max_round(v), 4) /\ BlockMin(v, partial_min_round(v), 4)
    BY MaxPrefix, MinPrefix DEF partial_max_round, partial_min_round
  <2> QED BY <1>2, <2>1, ExtremaOfAll
<1>4. horiz_sum4(v) = s[15] /\ horiz_max4(v) = m /\ horiz_min4(v) = l
  BY <1>2, <1>3 DEF horiz_sum4, horiz_max4, horiz_min4
<1>5. horiz_sum3(v) = s[15] /\ horiz_max3(v) = m /\ horiz_min3(v) = l
  <2>1. /\ BlockSum(v, Prefix(VAdd, summing_rounds, 3, v), 3)
        /\ BlockMax(v, Prefix(VMax, summing_rounds, 3, v), 3)
        /\ BlockMin(v, Prefix(VMin, mining_rounds, 3, v), 3)
    BY SumPrefix, MaxPrefix, MinPrefix
  <2>2. \A t : /\ BlockSum(v, t, 3) => Sum2(t[7], t[15]) = s[15]
               /\ BlockMax(v, t, 3) => Max2(t[7], t[15]) = m
               /\ BlockMin(v, t, 3) => Min2(t[7], t[15]) = l
    BY HalvesTogether
  <2> HIDE DEF s, m, l
  <2> QED BY <2>1, <2>2 DEF horiz_sum3, horiz_max3, horiz_min3
<1>6. /\ horiz_sum_ref(v) = s[15] /\ vg_horiz_sum(v) = s[15]
      /\ horiz_max_ref(v) = m /\ vg_horiz_max(v) = m
      /\ horiz_min_ref(v) = l /\ vg_horiz_min(v) = l
  <2>1. horiz_sum_ref(v) = s[15] /\ vg_horiz_sum(v) = s[15]
    BY SumReduced DEF horiz_sum_ref, vg_horiz_sum
  <2>2. horiz_max_ref(v) = m /\ vg_horiz_max(v) = m
    BY <1>1, <1>3, MaxReduced DEF horiz_max_ref, vg_horiz_max
  <2>3. horiz_min_ref(v) = l /\ vg_horiz_min(v) = l
    BY <1>1, <1>3, MinReduced DEF horiz_min_ref, vg_horiz_min
  <2> QED BY <2>1, <2>2, <2>3
<1>7. /\ vg_partial_sums_inplace(v) = s
      /\ vg_partial_max_inplace(v) = partial_max_ref(v)
      /\ vg_partial_min_inplace(v) = partial_min_ref(v)
  BY DEF vg_partial_sums_inplace, vg_partial_max_inplace, vg_partial_min_inplace,
         partial_sums_ref, partial_max_ref, partial_min_ref
<1>8. vg_partial_sums(v)[15] = s[15]
  <2>1. 15 \in Lane
    BY SixteenLanes
  <2> QED BY <2>1 DEF vg_partial_sums, partial_sums_ref
<1> HIDE DEF s, m, l
<1>9. ReductionsAgreeOn(v)
  <2>1. /\ {horiz_sum3(v), horiz_sum4(v), horiz_sum_ref(v), vg_horiz_sum(v),
            vg_partial_sums(v)[15], vg_partial_sums_inplace(v)[15]} = {horiz_sum_ref(v)}
        /\ {horiz_max3(v), horiz_max4(v), horiz_max_ref(v), vg_horiz_max(v),
            vg_partial_max_inplace(v)[15]} = {m}
        /\ {horiz_min3(v), horiz_min4(v), horiz_min_ref(v), vg_horiz_min(v),
            vg_partial_min_inplace(v)[15]} = {l}
    BY <1>3, <1>4, <1>5, <1>6, <1>7, <1>8
  <2> QED BY <2>1 DEF ReductionsAgreeOn, m, l
<1> QED BY <1>2, <1>4, <1>5, <1>6, <1>7, <1>9
        DEF horiz_sum, horiz_sum_gen, partial_sums, partial_sums_gen, horiz_max, horiz_max_gen,
            partial_max, partial_max_gen, horiz_min, horiz_min_gen, partial_min, partial_min_gen
-----------------------------------------------------------------------------
(***************************************************************************)
(* Counting entries: one after the other, and the bits of a byte.          *)
(***************************************************************************)
HoldersBelow(v, n, i) == {j \in 0 .. n - 1 : v[j] = i}

LEMMA HoldersCount ==
  ASSUME NEW v, NEW n \in 0 .. 15, NEW i
  PROVE  /\ Cardinality(HoldersBelow(v, 0, i)) = 0
         /\ Cardinality(HoldersBelow(v, n, i)) \in Nat
         /\ Cardinality(HoldersBelow(v, n + 1, i))
              = Cardinality(HoldersBelow(v, n, i)) + IF v[n] = i THEN 1 ELSE 0
<1> DEFINE S == HoldersBelow(v, n, i)
<1>1. HoldersBelow(v, 0, i) = {}
  BY DEF HoldersBelow
<1>2. S \subseteq 0 .. 15 /\ n \notin S
  BY DEF HoldersBelow
<1>3. IsFiniteSet(S)
  <2>1. IsFiniteSet(0 .. 15)
    BY LanesFinite, SixteenLanes
  <2> HIDE DEF S
  <2> QED BY <1>2, <2>1, FS_Subset
<1>4. Cardinality(S) \in Nat
  <2> HIDE DEF S
  <2> QED BY <1>3, FS_CardinalityType
<1>5. HoldersBelow(v, n + 1, i) = IF v[n] = i THEN S \cup {n} ELSE S
  <2>1. \A j : j \in 0 .. (n + 1) - 1 <=> j \in 0 .. n - 1 \/ j = n
    OBVIOUS
  <2>2. n \in 0 .. (n + 1) - 1
    OBVIOUS
  <2> QED BY <2>1, <2>2 DEF HoldersBelow
<1> HIDE DEF S
<1>6. Cardinality(S \cup {n}) = Cardinality(S) + 1
  BY <1>2, <1>3, FS_AddElement
<1>7. Cardinality(HoldersBelow(v, n + 1, i)) = Cardinality(S) + IF v[n] = i THEN 1 ELSE 0
  BY <1>4, <1>5, <1>6
<1> QED BY <1>1, <1>4, <1>7, FS_EmptySet DEF S

LEMMA TallyCounts ==
  ASSUME NEW v \in Vec
  PROVE  Tally(v) = eval16_ref(v)
<1> DEFINE Body(t) == [n \in 0 .. Size |->
                        IF n = 0 THEN Zero
                        ELSE LET before == t[n - 1]
                             IN  IF v[n - 1] < Size THEN [before EXCEPT ![v[n - 1]] = @ + 1]
                                 ELSE before]
           F    == CHOOSE t : t = Body(t)
           C(n) == [i \in Lane |-> Cardinality(HoldersBelow(v, n, i))]
           h    == [n \in 0 .. 16 |-> C(n)]
<1>1. C(0) = Zero
  <2>1. 0 \in 0 .. 15
    OBVIOUS
  <2>2. \A i \in Lane : Cardinality(HoldersBelow(v, 0, i)) = 0
    BY <2>1, HoldersCount
  <2> QED BY <2>2 DEF Zero
<1>2. ASSUME NEW n \in 1 .. 16
      PROVE  C(n) = IF v[n - 1] < Size THEN [C(n - 1) EXCEPT ![v[n - 1]] = @ + 1] ELSE C(n - 1)
  <2>1. n - 1 \in 0 .. 15 /\ (n - 1) + 1 = n
    OBVIOUS
  <2>2. v[n - 1] \in 0 .. 255
    BY <2>1, ByteOfLane
  <2>3. \A i \in Lane : /\ Cardinality(HoldersBelow(v, n - 1, i)) \in Nat
                        /\ Cardinality(HoldersBelow(v, n, i))
                             = Cardinality(HoldersBelow(v, n - 1, i)) + IF v[n - 1] = i THEN 1 ELSE 0
    <3>1. ASSUME NEW i \in Lane
          PROVE  /\ Cardinality(HoldersBelow(v, n - 1, i)) \in Nat
                 /\ Cardinality(HoldersBelow(v, (n - 1) + 1, i))
                      = Cardinality(HoldersBelow(v, n - 1, i)) + IF v[n - 1] = i THEN 1 ELSE 0
      BY <2>1, HoldersCount
    <3> QED BY <2>1, <3>1
  <2>4. v[n - 1] < Size <=> v[n - 1] \in Lane
    BY <2>2, SixteenLanes
  <2>5. CASE v[n - 1] \in Lane
    BY <2>3, <2>4, <2>5
  <2>6. CASE v[n - 1] \notin Lane
    BY <2>3, <2>4, <2>6
  <2> QED BY <2>5, <2>6
<1> HIDE DEF C
<1>3. h = Body(h)
  <2>1. ASSUME NEW n \in 0 .. 16
        PROVE  C(n) = IF n = 0 THEN Zero
                      ELSE IF v[n - 1] < Size THEN [h[n - 1] EXCEPT ![v[n - 1]] = @ + 1]
                           ELSE h[n - 1]
    <3>1. n # 0 => n \in 1 .. 16 /\ h[n - 1] = C(n - 1)
      BY BelowSixteen, Zenon
    <3> HIDE DEF h
    <3> QED BY <1>1, <1>2, <3>1, Zenon
  <2> QED BY <2>1, SixteenLanes
<1>4. F = Body(F)
  BY <1>3
<1>5. Tally(v) = F[16]
  BY SixteenLanes DEF Tally
<1>6. \A n \in 0 .. 16 :
        /\ h[n] = C(n)
        /\ F[n] = IF n = 0 THEN Zero
                  ELSE IF v[n - 1] < Size THEN [F[n - 1] EXCEPT ![v[n - 1]] = @ + 1] ELSE F[n - 1]
  BY <1>4, SixteenLanes
<1> HIDE DEF F, h
<1> DEFINE Same == {n \in Nat : n <= 16 => F[n] = C(n)}
<1>7. 0 \in Same
  BY <1>1, <1>6
<1>8. ASSUME NEW n \in Nat, n \in Same
      PROVE  n + 1 \in Same
  <2>1. SUFFICES ASSUME n + 1 <= 16 PROVE F[n + 1] = C(n + 1)
    OBVIOUS
  <2>2. n + 1 \in 0 .. 16 /\ n + 1 # 0 /\ (n + 1) - 1 = n /\ n <= 16 /\ n + 1 \in 1 .. 16
    BY <2>1
  <2>3. F[n + 1] = IF v[n] < Size THEN [F[n] EXCEPT ![v[n]] = @ + 1] ELSE F[n]
    BY <1>6, <2>2
  <2>4. C(n + 1) = IF v[n] < Size THEN [C(n) EXCEPT ![v[n]] = @ + 1] ELSE C(n)
    BY <1>2, <2>2
  <2> QED BY <1>8, <2>2, <2>3, <2>4
<1> HIDE DEF Same
<1>9. \A n \in Nat : n \in Same
  BY <1>7, <1>8, NatSetInduction
<1>10. F[16] = C(16)
  BY <1>9 DEF Same
<1>11. C(16) = eval16_ref(v)
  <2>1. \A i \in Lane : HoldersBelow(v, 16, i) = {j \in Lane : v[j] = i}
    BY SixteenLanes DEF HoldersBelow
  <2> QED BY <2>1 DEF C, eval16_ref
<1> QED BY <1>5, <1>10, <1>11

\* Bit n of a byte.
BitOf(m, n) == IF (m \div 2^n) % 2 = 1 THEN 1 ELSE 0

LEMMA OnesSum ==
  ASSUME NEW m \in 0 .. 255
  PROVE  Ones(m) = BitOf(m, 0) + BitOf(m, 1) + BitOf(m, 2) + BitOf(m, 3)
                     + BitOf(m, 4) + BitOf(m, 5) + BitOf(m, 6) + BitOf(m, 7)
<1> DEFINE H    == {n \in Nat : (m \div 2^n) % 2 = 1}
           C(n) == Cardinality(Hits(H, 0, n))
<1>1. \A n \in Nat : (n \in H <=> BitOf(m, n) = 1) /\ (n \notin H <=> BitOf(m, n) = 0)
  BY DEF BitOf
<1>2. Ones(m) = C(7)
  <2>1. {n \in 0 .. 7 : (m \div 2^n) % 2 = 1} = Hits(H, 0, 7)
    <3>1. \A n \in 0 .. 7 : n \in Nat
      OBVIOUS
    <3> QED BY <3>1 DEF Hits
  <2> QED BY <2>1 DEF Ones
<1> HIDE DEF H
<1>3. \A n \in 0 .. 6 : C(n + 1) = C(n) + BitOf(m, n + 1) /\ C(n) \in 0 .. 8
  <2>1. ASSUME NEW n \in 0 .. 6
        PROVE  C(n + 1) = C(n) + BitOf(m, n + 1) /\ C(n) \in 0 .. 8
    <3>1. n \in Nat /\ n + 1 \in Nat /\ 0 \in 0 .. 1
      OBVIOUS
    <3>2. C(n + 1) = C(n) + (IF n + 1 \in H THEN 1 ELSE 0) /\ C(n) \in 0 .. n + 1
      BY <3>1, HitsCount
    <3>3. (IF n + 1 \in H THEN 1 ELSE 0) = BitOf(m, n + 1)
      BY <1>1, <3>1
    <3> HIDE DEF C
    <3> QED BY <3>2, <3>3
  <2> QED BY <2>1
<1>4. C(0) = BitOf(m, 0)
  <2>1. CASE 0 \in H
    <3>1. Hits(H, 0, 0) = {0}
      BY <2>1 DEF Hits
    <3> QED BY <1>1, <2>1, <3>1, FS_Singleton
  <2>2. CASE 0 \notin H
    <3>1. Hits(H, 0, 0) = {}
      BY <2>2 DEF Hits
    <3> QED BY <1>1, <2>2, <3>1, FS_EmptySet
  <2> QED BY <2>1, <2>2
<1> HIDE DEF C
<1>5. /\ C(1) = C(0) + BitOf(m, 1) /\ C(2) = C(1) + BitOf(m, 2) /\ C(3) = C(2) + BitOf(m, 3)
      /\ C(4) = C(3) + BitOf(m, 4) /\ C(5) = C(4) + BitOf(m, 5) /\ C(6) = C(5) + BitOf(m, 6)
      /\ C(7) = C(6) + BitOf(m, 7)
  <2>1. /\ 0 + 1 = 1 /\ 1 + 1 = 2 /\ 2 + 1 = 3 /\ 3 + 1 = 4 /\ 4 + 1 = 5 /\ 5 + 1 = 6 /\ 6 + 1 = 7
    OBVIOUS
  <2> QED BY <1>3, <2>1
<1> QED BY <1>2, <1>4, <1>5

LEMMA OnesNibbles ==
  ASSUME NEW m \in 0 .. 255
  PROVE  /\ AsByte(Ones(m % 16) + Ones(m \div 16)) = Ones(m)
         /\ m % 16 \in 0 .. 15 /\ m \div 16 \in 0 .. 15
<1>1. m % 16 \in 0 .. 15 /\ m \div 16 \in 0 .. 15
  OBVIOUS
<1>2. 2^0 = 1 /\ 2^1 = 2 /\ 2^2 = 4 /\ 2^3 = 8 /\ 2^4 = 16 /\ 2^5 = 32 /\ 2^6 = 64 /\ 2^7 = 128
  OBVIOUS
<1>3. \A n \in 0 .. 15 : /\ BitOf(n, 4) = 0 /\ BitOf(n, 5) = 0
                         /\ BitOf(n, 6) = 0 /\ BitOf(n, 7) = 0
  BY <1>2 DEF BitOf
<1>4. /\ BitOf(m % 16, 0) = BitOf(m, 0) /\ BitOf(m % 16, 1) = BitOf(m, 1)
      /\ BitOf(m % 16, 2) = BitOf(m, 2) /\ BitOf(m % 16, 3) = BitOf(m, 3)
  BY <1>2 DEF BitOf
<1>5. /\ BitOf(m \div 16, 0) = BitOf(m, 4) /\ BitOf(m \div 16, 1) = BitOf(m, 5)
      /\ BitOf(m \div 16, 2) = BitOf(m, 6) /\ BitOf(m \div 16, 3) = BitOf(m, 7)
  BY <1>2 DEF BitOf
<1>6. \A n : BitOf(m, n) \in 0 .. 1
  BY DEF BitOf
<1>7. /\ Ones(m % 16) = BitOf(m, 0) + BitOf(m, 1) + BitOf(m, 2) + BitOf(m, 3)
      /\ Ones(m \div 16) = BitOf(m, 4) + BitOf(m, 5) + BitOf(m, 6) + BitOf(m, 7)
  <2>1. \A n \in 0 .. 15 : n \in 0 .. 255
    OBVIOUS
  <2>2. /\ Ones(m % 16) = BitOf(m % 16, 0) + BitOf(m % 16, 1) + BitOf(m % 16, 2) + BitOf(m % 16, 3)
                     + BitOf(m % 16, 4) + BitOf(m % 16, 5) + BitOf(m % 16, 6) + BitOf(m % 16, 7)
        /\ Ones(m \div 16) = BitOf(m \div 16, 0) + BitOf(m \div 16, 1) + BitOf(m \div 16, 2)
                     + BitOf(m \div 16, 3) + BitOf(m \div 16, 4) + BitOf(m \div 16, 5)
                     + BitOf(m \div 16, 6) + BitOf(m \div 16, 7)
    BY <1>1, <2>1, OnesSum
  <2> QED BY <1>1, <1>3, <1>4, <1>5, <1>6, <2>2
<1>8. Ones(m) = Ones(m % 16) + Ones(m \div 16) /\ Ones(m) \in 0 .. 8
  <2>1. \A p, q, r, s, t, u, w, z \in 0 .. 1 :
          /\ p + q + r + s + t + u + w + z = (p + q + r + s) + (t + u + w + z)
          /\ p + q + r + s + t + u + w + z \in 0 .. 8
    OBVIOUS
  <2>2. Ones(m) = BitOf(m, 0) + BitOf(m, 1) + BitOf(m, 2) + BitOf(m, 3)
                    + BitOf(m, 4) + BitOf(m, 5) + BitOf(m, 6) + BitOf(m, 7)
    BY OnesSum
  <2>3. /\ BitOf(m, 0) \in 0 .. 1 /\ BitOf(m, 1) \in 0 .. 1 /\ BitOf(m, 2) \in 0 .. 1
        /\ BitOf(m, 3) \in 0 .. 1 /\ BitOf(m, 4) \in 0 .. 1 /\ BitOf(m, 5) \in 0 .. 1
        /\ BitOf(m, 6) \in 0 .. 1 /\ BitOf(m, 7) \in 0 .. 1
    BY <1>6
  <2> QED BY <1>7, <2>1, <2>2, <2>3
<1>9. \A n \in 0 .. 8 : AsByte(n) = n
  BY DEF AsByte
<1> QED BY <1>1, <1>8, <1>9

LEMMA PopcountRight ==
  ASSUME NEW v \in Vec
  PROVE  popcount16(v) = [i \in Lane |-> Ones(v[i])]
<1>1. ASSUME NEW i \in Lane
      PROVE  popcount16(v)[i] = Ones(v[i])
  <2>1. v[i] \in 0 .. 255
    BY SixteenLanes
  <2>2. v[i] % 16 \in Lane /\ v[i] \div 16 \in Lane
    BY <2>1, OnesNibbles, SixteenLanes
  <2>3. popcount[v[i] % 16] = Ones(v[i] % 16) /\ popcount[v[i] \div 16] = Ones(v[i] \div 16)
    BY <2>2 DEF popcount
  <2>4. /\ Permuted(popcount, [j \in Lane |-> v[j] % 16])[i] = popcount[v[i] % 16]
        /\ Permuted(popcount, [j \in Lane |-> v[j] \div 16])[i] = popcount[v[i] \div 16]
    BY <2>2 DEF Permuted
  <2>5. popcount16(v)[i] = AsByte(popcount[v[i] % 16] + popcount[v[i] \div 16])
    BY <2>4 DEF popcount16, VAdd
  <2> QED BY <2>1, <2>3, <2>5, OnesNibbles
<1>2. popcount16(v) = [i \in Lane |-> popcount16(v)[i]]
  BY DEF popcount16, VAdd
<1> QED BY <1>1, <1>2
-----------------------------------------------------------------------------
(***************************************************************************)
(* Recognisers.  A vector holds every lane number exactly if its bytes are *)
(* lane numbers and all different.                                         *)
(***************************************************************************)
HoldsAll(v) == \A j \in Lane : \E i \in Lane : v[i] = j
AllLanes(v) == \A i \in Lane : v[i] \in Lane

LEMMA HoldsAllIsPerm ==
  ASSUME NEW v \in Vec
  PROVE  HoldsAll(v) <=> AllLanes(v) /\ Injective(v)
<1>1. ASSUME AllLanes(v), Injective(v)
      PROVE  HoldsAll(v)
  <2>1. v \in [Lane -> Lane] /\ \A i, j \in Lane : v[i] = v[j] => i = j
    BY <1>1 DEF Vec, AllLanes, Injective
  <2>2. v \in Injection(Lane, Lane)
    BY <2>1 DEF Injection, IsInjective
  <2>3. v \in Surjection(Lane, Lane)
    BY <2>2, LanesFinite, FS_Injection
  <2> QED BY <2>3 DEF Surjection, HoldsAll
<1>2. ASSUME HoldsAll(v)
      PROVE  AllLanes(v) /\ Injective(v)
  <2> DEFINE g == [j \in Lane |-> CHOOSE i \in Lane : v[i] = j]
  <2>1. \A j \in Lane : g[j] \in Lane /\ v[g[j]] = j
    BY <1>2 DEF HoldsAll
  <2>2. g \in [Lane -> Lane]
    BY <2>1
  <2> HIDE DEF g
  <2>3. g \in Injection(Lane, Lane)
    BY <2>1, <2>2 DEF Injection, IsInjective
  <2>4. g \in Surjection(Lane, Lane)
    BY <2>3, LanesFinite, FS_Injection
  <2>5. \A i \in Lane : \E j \in Lane : g[j] = i
    BY <2>4 DEF Surjection
  <2>6. \A i \in Lane : v[i] \in Lane /\ g[v[i]] = i
    BY <2>1, <2>5
  <2> QED BY <2>6 DEF AllLanes, Injective
<1> QED BY <1>1, <1>2

LEMMA FewLanes ==
  ASSUME NEW S \in SUBSET Lane
  PROVE  /\ Cardinality(S) <= 1 <=> \A p, q \in S : p = q
         /\ Cardinality(S) = 1 <=> S # {} /\ \A p, q \in S : p = q
<1>1. IsFiniteSet(S) /\ Cardinality(S) \in Nat
  BY LanesFinite, FS_Subset, FS_CardinalityType
<1>2. Cardinality(S) = 0 <=> S = {}
  BY <1>1, FS_EmptySet
<1>3. ASSUME NEW p \in S, \A q \in S : p = q PROVE Cardinality(S) = 1
  <2>1. S = {p}
    BY <1>3
  <2> QED BY <2>1, FS_Singleton
<1>4. ASSUME NEW p \in S, NEW q \in S, p # q PROVE Cardinality(S) >= 2
  <2>1. IsFiniteSet({p}) /\ Cardinality({p}) = 1 /\ q \notin {p}
    BY <1>4, FS_Singleton
  <2>2. Cardinality({p} \cup {q}) = 2
    BY <2>1, FS_AddElement
  <2>3. {p} \cup {q} \subseteq S
    OBVIOUS
  <2>4. Cardinality({p} \cup {q}) <= Cardinality(S)
    BY <1>1, <2>3, FS_Subset
  <2> QED BY <1>1, <2>2, <2>4
<1>5. CASE S = {}
  BY <1>2, <1>5
<1>6. CASE S # {} /\ \A p, q \in S : p = q
  BY <1>3, <1>6
<1>7. CASE \E p, q \in S : p # q
  <2>1. Cardinality(S) >= 2
    BY <1>4, <1>7
  <2>2. ~(Cardinality(S) <= 1) /\ Cardinality(S) # 1
    BY <1>1, <2>1
  <2> QED BY <1>7, <2>2
<1> QED BY <1>5, <1>6, <1>7

LEMMA WithinFixed ==
  ASSUME NEW v \in Vec, NEW n \in 0 .. 16
  PROVE  Within(v, n) <=> \A i \in n .. 15 : v[i] = i
<1>1. Differ(v, Id) \in SUBSET Lane /\ \A i \in 0 .. 15 : i \in Differ(v, Id) <=> v[i] # i
  BY SixteenLanes DEF Differ, Id
<1>2. Within(v, n) <=> last_mask(Differ(v, Id), 16) = 16 \/ last_mask(Differ(v, Id), 16) < n
  BY SixteenLanes DEF Within, last_diff_mask
<1>3. CASE \A i \in 0 .. 16 - 1 : i \notin Differ(v, Id)
  <2>1. last_mask(Differ(v, Id), 16) = 16
    BY <1>1, <1>3, MasksSearch
  <2>2. \A i \in n .. 15 : i \in 0 .. 16 - 1
    OBVIOUS
  <2> QED BY <1>1, <1>2, <1>3, <2>1, <2>2
<1>4. CASE \E i \in 0 .. 16 - 1 : i \in Differ(v, Id)
                                  /\ \A l \in i + 1 .. 16 - 1 : l \notin Differ(v, Id)
  <2>1. PICK i \in 0 .. 16 - 1 : i \in Differ(v, Id)
                                 /\ \A l \in i + 1 .. 16 - 1 : l \notin Differ(v, Id)
    BY <1>4
  <2>2. last_mask(Differ(v, Id), 16) = i /\ i # 16
    BY <1>1, <2>1, MasksSearch
  <2>3. ASSUME i < n, NEW l \in n .. 15 PROVE v[l] = l
    <3>1. l \in i + 1 .. 16 - 1 /\ l \in 0 .. 15
      BY <2>3
    <3> QED BY <1>1, <2>1, <3>1
  <2>4. ASSUME \A l \in n .. 15 : v[l] = l PROVE i < n
    <3>1. i \notin n .. 15
      BY <1>1, <2>1, <2>4
    <3> QED BY <3>1
  <2> QED BY <1>2, <2>2, <2>3, <2>4
<1> QED BY <1>1, <1>3, <1>4, LastOrNone

LEMMA PartialBytes ==
  ASSUME NEW v \in Vec
  PROVE  /\ (\A i \in Lane : AsByte(v[i] + 1) <= 16) <=> \A i \in Lane : v[i] \in Lane \cup {255}
         /\ (\A i \in Lane : v[i] < 16) <=> AllLanes(v)
<1>1. \A m \in 0 .. 255 : /\ AsByte(m + 1) <= 16 <=> m \in 0 .. 15 \/ m = 255
                          /\ m < 16 <=> m \in 0 .. 15
  BY DEF AsByte
<1>2. \A i \in Lane : v[i] \in 0 .. 255
  BY SixteenLanes
<1>3. \A m : m \in Lane \cup {255} <=> m \in 0 .. 15 \/ m = 255
  BY SixteenLanes
<1>4. ASSUME NEW i \in Lane
      PROVE  /\ AsByte(v[i] + 1) <= 16 <=> v[i] \in Lane \cup {255}
             /\ v[i] < 16 <=> v[i] \in Lane
  <2>1. v[i] \in 0 .. 255
    BY <1>2
  <2>2. v[i] \in Lane <=> v[i] \in 0 .. 15
    BY SixteenLanes
  <2> QED BY <1>1, <1>3, <2>1, <2>2
<1> QED BY <1>4 DEF AllLanes

\* The four ways to recognise a permutation, but for the points that stay.
LEMMA PermutationWays ==
  ASSUME NEW v \in Vec
  PROVE  /\ EqualAny(Id, 16, v, 16) = Lane /\ EqualAny(v, 16, Id, 16) = Lane <=> HoldsAll(v)
         /\ Sorted(v) = Id <=> HoldsAll(v)
         /\ eval16_ref(v) = [i \in Lane |-> 1] <=> HoldsAll(v)
         /\ (\A i \in Lane : eval16_ref(v)[i] <= 1) <=> Injective(v)
<1>1. \A i \in Lane : i < 16 /\ Id[i] = i
  BY SixteenLanes DEF Id
<1>2. EqualAny(Id, 16, v, 16) = Lane <=> AllLanes(v)
  <2>1. \A j \in Lane : j \in EqualAny(Id, 16, v, 16) <=> v[j] \in Lane
    BY <1>1 DEF EqualAny
  <2>2. EqualAny(Id, 16, v, 16) \subseteq Lane
    BY DEF EqualAny
  <2> QED BY <2>1, <2>2 DEF AllLanes
<1>3. EqualAny(v, 16, Id, 16) = Lane <=> HoldsAll(v)
  <2>1. \A j \in Lane : j \in EqualAny(v, 16, Id, 16) <=> \E i \in Lane : v[i] = j
    BY <1>1 DEF EqualAny
  <2>2. EqualAny(v, 16, Id, 16) \subseteq Lane
    BY DEF EqualAny
  <2> QED BY <2>1, <2>2 DEF HoldsAll
<1>4. ASSUME Sorted(v) = Id PROVE HoldsAll(v)
  <2>1. PICK f : OntoAll(f) /\ \A i \in Lane : Sorted(v)[i] = v[f[i]]
    BY SortedArranges
  <2>2. \A i \in Lane : f[i] \in Lane /\ v[f[i]] = i
    BY <1>1, <1>4, <2>1 DEF OntoAll
  <2> QED BY <2>2 DEF HoldsAll
<1>5. ASSUME HoldsAll(v) PROVE Sorted(v) = Id
  <2> DEFINE g == [j \in Lane |-> CHOOSE i \in Lane : v[i] = j]
  <2>1. \A j \in Lane : g[j] \in Lane /\ v[g[j]] = j
    BY <1>5 DEF HoldsAll
  <2>2. g \in [Lane -> Lane]
    BY <2>1
  <2> HIDE DEF g
  <2>3. Injective(v) /\ AllLanes(v)
    BY <1>5, HoldsAllIsPerm
  <2>4. \A i \in Lane : v[i] \in Lane /\ g[v[i]] = i
    BY <2>1, <2>3 DEF Injective, AllLanes
  <2>5. OntoAll(g)
    BY <2>1, <2>2, <2>4 DEF OntoAll, LanesApart
  <2>6. Id \in Vec /\ InOrder(Id, 16)
    <3>1. \A i \in Lane : i \in Byte
      BY SixteenLanes
    <3>2. \A i, j \in Lane : i < j => i <= j
      BY SixteenLanes
    <3> QED BY <1>1, <3>1, <3>2 DEF Vec, Id, InOrder
  <2>7. \A c \in Lane : Id[c] = Sorted(v)[c]
    <3>1. \A i \in Lane : Id[i] = v[g[i]]
      BY <1>1, <2>1
    <3> QED BY <2>5, <2>6, <3>1, SortedIsOnly
  <2>8. Sorted(v) = [c \in Lane |-> Sorted(v)[c]]
    BY DEF Sorted
  <2>9. Id = [c \in Lane |-> Id[c]]
    BY DEF Id
  <2> QED BY <2>7, <2>8, <2>9
<1>6. \A i \in Lane : {j \in Lane : v[j] = i} \in SUBSET Lane
  OBVIOUS
<1>7. \A i \in Lane : eval16_ref(v)[i] = Cardinality({j \in Lane : v[j] = i})
  BY DEF eval16_ref
<1>8. (\A i \in Lane : eval16_ref(v)[i] <= 1) <=> Injective(v)
  <2>1. ASSUME NEW i \in Lane
        PROVE  eval16_ref(v)[i] <= 1 <=> \A p, q \in Lane : v[p] = i /\ v[q] = i => p = q
    <3> DEFINE S == {j \in Lane : v[j] = i}
    <3>1. (\A p, q \in S : p = q) <=> \A p, q \in Lane : v[p] = i /\ v[q] = i => p = q
      OBVIOUS
    <3>2. S \in SUBSET Lane
      OBVIOUS
    <3>3. eval16_ref(v)[i] = Cardinality(S)
      BY <1>7
    <3> HIDE DEF S
    <3> QED BY <3>1, <3>2, <3>3, FewLanes
  <2>2. Injective(v) <=> \A i \in Lane : \A p, q \in Lane : v[p] = i /\ v[q] = i => p = q
    BY DEF Injective
  <2> QED BY <2>1, <2>2
<1>9. eval16_ref(v) = [i \in Lane |-> 1] <=> HoldsAll(v)
  <2>1. eval16_ref(v) = [i \in Lane |-> 1] <=> \A i \in Lane : eval16_ref(v)[i] = 1
    BY DEF eval16_ref
  <2>2. ASSUME NEW i \in Lane
        PROVE  eval16_ref(v)[i] = 1 <=> /\ \E p \in Lane : v[p] = i
                                        /\ \A p, q \in Lane : v[p] = i /\ v[q] = i => p = q
    <3> DEFINE S == {j \in Lane : v[j] = i}
    <3>1. /\ (\A p, q \in S : p = q) <=> \A p, q \in Lane : v[p] = i /\ v[q] = i => p = q
          /\ S # {} <=> \E p \in Lane : v[p] = i
      OBVIOUS
    <3>2. S \in SUBSET Lane
      OBVIOUS
    <3>3. eval16_ref(v)[i] = Cardinality(S)
      BY <1>7
    <3> HIDE DEF S
    <3> QED BY <3>1, <3>2, <3>3, FewLanes
  <2>3. ASSUME HoldsAll(v), NEW i \in Lane
        PROVE  \A p, q \in Lane : v[p] = i /\ v[q] = i => p = q
    BY <2>3, HoldsAllIsPerm DEF Injective
  <2> QED BY <2>1, <2>2, <2>3 DEF HoldsAll
<1> QED BY <1>2, <1>3, <1>4, <1>5, <1>8, <1>9, HoldsAllIsPerm

LEMMA RecognisersAlways ==
  ASSUME NEW v \in Vec, NEW n \in 0 .. 16
  PROVE  LET fixed == \A i \in n .. Size - 1 : v[i] = i
             total == \A i \in Lane : v[i] \in Lane
             maybe == \A i \in Lane : v[i] \in Lane \cup {255}
         IN  /\ is_partial_transformation(v, n) <=> maybe /\ fixed
             /\ is_transformation(v, n) <=> total /\ fixed
             /\ is_partial_permutation(v, n) <=> maybe /\ fixed /\ Injective(v)
             /\ is_permutation_cmpestri(v, n) <=> total /\ fixed /\ Injective(v)
             /\ is_permutation_sort(v, n) <=> total /\ fixed /\ Injective(v)
             /\ is_permutation_eval(v, n) <=> total /\ fixed /\ Injective(v)
             /\ vg_is_permutation(v, n) <=> total /\ fixed /\ Injective(v)
<1> DEFINE fixed == \A i \in n .. Size - 1 : v[i] = i
           maybe == \A i \in Lane : v[i] \in Lane \cup {255}
<1>1. Within(v, n) <=> fixed
  <2>1. Size - 1 = 15
    BY SixteenLanes
  <2>2. Within(v, n) <=> \A i \in n .. 15 : v[i] = i
    BY WithinFixed
  <2> QED BY <2>1, <2>2
<1>2. is_partial_transformation(v, n) <=> maybe /\ fixed
  BY <1>1, PartialBytes DEF is_partial_transformation
<1>3. is_transformation(v, n) <=> AllLanes(v) /\ fixed
  BY <1>1, PartialBytes DEF is_transformation
<1>4. is_partial_permutation(v, n) <=> maybe /\ fixed /\ Injective(v)
  BY <1>1, PartialBytes, PermutationWays DEF is_partial_permutation
<1>5. /\ is_permutation_cmpestri(v, n) <=> HoldsAll(v) /\ fixed
      /\ is_permutation_sort(v, n) <=> HoldsAll(v) /\ fixed
      /\ is_permutation_eval(v, n) <=> HoldsAll(v) /\ fixed
  BY <1>1, PermutationWays DEF is_permutation_cmpestri, is_permutation_sort, is_permutation_eval
<1>6. vg_is_permutation(v, n) <=> HoldsAll(v) /\ fixed
  BY PermutationWays DEF vg_is_permutation, sorted_vect
<1> HIDE DEF fixed, maybe
<1>7. HoldsAll(v) <=> AllLanes(v) /\ Injective(v)
  BY HoldsAllIsPerm
<1> QED BY <1>2, <1>3, <1>4, <1>5, <1>6, <1>7 DEF fixed, maybe, AllLanes
LEMMA WaysTogether ==
  ASSUME NEW v \in Vec, NEW n \in 0 .. 16
  PROVE  LET fixed == \A i \in n .. Size - 1 : v[i] = i
             total == \A i \in Lane : v[i] \in Lane
         IN  {is_permutation_cmpestri(v, n), is_permutation_sort(v, n),
              is_permutation_eval(v, n), vg_is_permutation(v, n)} = {total /\ fixed /\ Injective(v)}
<1> DEFINE fixed == \A i \in n .. Size - 1 : v[i] = i
           total == \A i \in Lane : v[i] \in Lane
           all   == total /\ fixed /\ Injective(v)
<1>1. /\ is_permutation_cmpestri(v, n) \in BOOLEAN
      /\ is_permutation_sort(v, n) \in BOOLEAN
      /\ is_permutation_eval(v, n) \in BOOLEAN
      /\ vg_is_permutation(v, n) \in BOOLEAN
  BY DEF is_permutation_cmpestri, is_permutation_sort, is_permutation_eval, vg_is_permutation
<1>2. all \in BOOLEAN
  OBVIOUS
<1>3. /\ is_permutation_cmpestri(v, n) <=> all
      /\ is_permutation_sort(v, n) <=> all
      /\ is_permutation_eval(v, n) <=> all
      /\ vg_is_permutation(v, n) <=> all
  BY RecognisersAlways
<1> HIDE DEF all
<1>4. /\ is_permutation_cmpestri(v, n) = all /\ is_permutation_sort(v, n) = all
      /\ is_permutation_eval(v, n) = all /\ vg_is_permutation(v, n) = all
  BY <1>1, <1>2, <1>3
<1>5. {is_permutation_cmpestri(v, n), is_permutation_sort(v, n),
       is_permutation_eval(v, n), vg_is_permutation(v, n)} = {all}
  BY <1>4
<1> QED BY <1>5 DEF all

LEMMA RecognisersRightAlways ==
  ASSUME NEW v \in Vec
  PROVE  RecognisersRightOn(v)
<1>1. {eval16_arr(v), vg_eval(v), eval16_popcount(v)} = {eval16_ref(v)}
  <2>1. eval16_popcount(v) = eval16_ref(v)
    BY DEF eval16_popcount, eval16_ref
  <2>2. eval16_arr(v) = eval16_ref(v) /\ vg_eval(v) = eval16_ref(v)
    BY TallyCounts DEF eval16_arr, vg_eval
  <2> QED BY <2>1, <2>2
<1>2. ASSUME NEW n \in 0 .. Size
      PROVE  LET fixed == \A i \in n .. Size - 1 : v[i] = i
                 total == \A i \in Lane : v[i] \in Lane
                 maybe == \A i \in Lane : v[i] \in Lane \cup {255}
             IN  /\ is_partial_transformation(v, n) <=> maybe /\ fixed
                 /\ is_transformation(v, n) <=> total /\ fixed
                 /\ is_partial_permutation(v, n) <=> maybe /\ fixed /\ Injective(v)
                 /\ {is_permutation_cmpestri(v, n), is_permutation_sort(v, n),
                     is_permutation_eval(v, n), vg_is_permutation(v, n)}
                      = {total /\ fixed /\ Injective(v)}
  <2>1. n \in 0 .. 16
    BY SixteenLanes
  <2>2. LET fixed == \A i \in n .. Size - 1 : v[i] = i
            total == \A i \in Lane : v[i] \in Lane
            maybe == \A i \in Lane : v[i] \in Lane \cup {255}
        IN  /\ is_partial_transformation(v, n) <=> maybe /\ fixed
            /\ is_transformation(v, n) <=> total /\ fixed
            /\ is_partial_permutation(v, n) <=> maybe /\ fixed /\ Injective(v)
    BY <2>1, RecognisersAlways
  <2>3. LET fixed == \A i \in n .. Size - 1 : v[i] = i
            total == \A i \in Lane : v[i] \in Lane
        IN  {is_permutation_cmpestri(v, n), is_permutation_sort(v, n),
             is_permutation_eval(v, n), vg_is_permutation(v, n)} = {total /\ fixed /\ Injective(v)}
    BY <2>1, WaysTogether
  <2> QED BY <2>2, <2>3, Zenon
<1> QED BY <1>1, <1>2, PopcountRight DEF RecognisersRightOn

\* A vector that stays from n on is the list of its first n entries.
LEMMA FirstEntries ==
  ASSUME NEW v \in Vec, NEW n \in 0 .. 16, \A i \in n .. Size - 1 : v[i] = i
  PROVE  LET first == [m \in 1 .. n |-> LET i == m - 1 IN v[i]]
         IN  v = PTransf16(first) /\ v = PermGeneric(first)
<1> DEFINE first == [m \in 1 .. n |-> LET i == m - 1 IN v[i]]
<1>1. Len(first) = n
  <2>1. first \in Seq(0 .. 255) /\ DOMAIN first = 1 .. n
    <3>1. ASSUME NEW m \in 1 .. n PROVE v[m - 1] \in 0 .. 255
      <4>1. m - 1 \in 0 .. 15
        OBVIOUS
      <4> QED BY <4>1, ByteOfLane
    <3>2. first \in [1 .. n -> 0 .. 255] /\ n \in Nat
      BY <3>1
    <3> QED BY <3>2
  <2> QED BY <2>1
<1>2. ASSUME NEW i \in Lane
      PROVE  v[i] = IF i < Len(first) THEN first[i + 1] ELSE i
  <2>1. CASE i < n
    <3>1. PICK m \in 1 .. n : m = i + 1 /\ m - 1 = i
      BY <2>1, SixteenLanes
    <3>2. first[m] = v[m - 1]
      OBVIOUS
    <3> HIDE DEF first
    <3>3. first[i + 1] = v[i]
      BY <3>1, <3>2
    <3> QED BY <1>1, <2>1, <3>3
  <2>2. CASE ~(i < n)
    <3>1. i \in n .. Size - 1
      BY <2>2, SixteenLanes
    <3>2. v[i] = i
      BY <3>1
    <3> HIDE DEF first
    <3> QED BY <1>1, <2>2, <3>2
  <2> QED BY <2>1, <2>2
<1>3. v = [i \in Lane |-> v[i]]
  BY DEF Vec
<1> HIDE DEF first
<1>4. v = PTransf16(first) /\ v = PermGeneric(first)
  BY <1>2, <1>3 DEF PTransf16, PermGeneric
<1> QED BY <1>4 DEF first

LEMMA ChoicesAgreeAlways ==
  ASSUME NEW v \in Vec, NEW w \in Vec
  PROVE  ChoicesAgreeOn(v, w)
<1>1. v16_results(v, w) = << Permuted(v, w), horiz_sum_gen(v), partial_sums_gen(v) >>
  BY ReductionsAlways DEF v16_results
<1>2. /\ << horiz_max(v), horiz_min(v) >> = << horiz_max_gen(v), horiz_min_gen(v) >>
      /\ << partial_max(v), partial_min(v) >> = << partial_max_gen(v), partial_min_gen(v) >>
  BY ReductionsAlways
<1>3. eval16_gen(v) = eval16_ref(v)
  BY TallyCounts DEF eval16_gen, vg_eval
<1>4. ASSUME NEW n \in 0 .. Size
      PROVE  LET first == [m \in 1 .. n |-> LET i == m - 1 IN v[i]]
             IN  /\ v16_is_permutation(TRUE, v, n) <=> v16_is_permutation(FALSE, v, n)
                 /\ PTransf16_validate(v, n) => v = PTransf16(first)
                 /\ Perm16_validate(FALSE, v, n) => v = PermGeneric(first)
  <2>1. n \in 0 .. 16
    BY SixteenLanes
  <2>2. v16_is_permutation(TRUE, v, n) <=> v16_is_permutation(FALSE, v, n)
    BY <2>1, RecognisersAlways DEF v16_is_permutation, is_permutation
  <2>3. PTransf16_validate(v, n) => \A i \in n .. Size - 1 : v[i] = i
    BY <2>1, RecognisersAlways DEF PTransf16_validate
  <2>4. Perm16_validate(FALSE, v, n) => \A i \in n .. Size - 1 : v[i] = i
    BY <2>1, RecognisersAlways DEF Perm16_validate, is_permutation
  <2> QED BY <2>1, <2>2, <2>3, <2>4, FirstEntries
<1> QED BY <1>1, <1>2, <1>3, <1>4 DEF ChoicesAgreeOn

LEMMA LoopRecognises == LoopInv => RecognisersRight
<1> SUFFICES ASSUME LoopInv PROVE RecognisersRight
  OBVIOUS
<1>1. a \in Vec /\ b \in Vec
  BY DEF LoopInv, ArgumentsTyped
<1>2. ReductionsAgreeOn(a) /\ RecognisersRightOn(a) /\ ChoicesAgreeOn(a, b)
  BY <1>1, ReductionsAlways, RecognisersRightAlways, ChoicesAgreeAlways
<1> QED BY <1>2 DEF RecognisersRight

(***************************************************************************)
(* For any vector the functions are called with, every form of every       *)
(* reduction returns the same bytes and does not depend on the build, the  *)
(* evaluations count alike, each recogniser accepts exactly the maps its   *)
(* documentation describes, and what validates for k points is the list of *)
(* its first k.                                                            *)
(***************************************************************************)
THEOREM RecognisersAlwaysRight == Spec => []RecognisersRight
BY LoopAlways, LoopRecognises, PTL
(***************************************************************************)
(* Partial maps.  Products and one-sided identities, point by point.       *)
(***************************************************************************)
LEMMA NoPoint == FF = 255 /\ FF \notin Lane
BY SixteenLanes DEF FF

LEMMA TimesForm ==
  ASSUME NEW v, NEW p
  PROVE  Times(v, p) = [i \in Lane |-> Times(v, p)[i]]
BY DEF Times, Undefined

LEMMA TimesLane ==
  ASSUME NEW v, NEW p, IsPartial(p), NEW i \in Lane
  PROVE  Times(v, p)[i] = IF p[i] = FF THEN FF ELSE v[p[i]]
<1>1. Times(v, p)[i] = IF p[i] = FF THEN FF ELSE Permuted(v, p)[i]
  BY DEF Times, Undefined
<1>2. p[i] \in Lane \/ p[i] = FF
  BY DEF IsPartial
<1>3. p[i] \in Lane => Permuted(v, p)[i] = v[p[i]]
  BY DEF Permuted
<1> QED BY <1>1, <1>2, <1>3

LEMMA TimesPartial ==
  ASSUME NEW v, NEW p, IsPartial(v), IsPartial(p)
  PROVE  Times(v, p) \in Vec /\ IsPartial(Times(v, p))
<1>1. ASSUME NEW i \in Lane PROVE Times(v, p)[i] \in Lane \cup {FF}
  <2>1. Times(v, p)[i] = IF p[i] = FF THEN FF ELSE v[p[i]]
    BY TimesLane
  <2>2. p[i] \in Lane \/ p[i] = FF
    BY DEF IsPartial
  <2>3. p[i] \in Lane => v[p[i]] \in Lane \cup {FF}
    BY DEF IsPartial
  <2> QED BY <2>1, <2>2, <2>3
<1>2. \A n : n \in Lane \cup {FF} => n \in 0 .. 255
  BY NoPoint, SixteenLanes
<1>3. Times(v, p) \in Vec
  <2>1. \A i \in Lane : Times(v, p)[i] \in 0 .. 255
    BY <1>1, <1>2
  <2> QED BY <2>1, TimesForm, FormsVec
<1> QED BY <1>1, <1>3 DEF IsPartial

LEMMA ImageByMask ==
  ASSUME NEW v, IsPartial(v)
  PROVE  /\ EqualAny(v, 16, Id, 16) = ImageOf(v)
         /\ ImageOf(v) \subseteq Lane
         /\ \A j \in Lane : j \in ImageOf(v) <=> \E i \in Lane : v[i] = j
<1>1. \A i \in Lane : i < 16 /\ Id[i] = i
  BY SixteenLanes DEF Id
<1>2. ImageOf(v) \subseteq Lane
  BY DEF ImageOf, DefinedOn, IsPartial
<1>3. \A j \in Lane : j \in ImageOf(v) <=> \E i \in Lane : v[i] = j
  BY NoPoint DEF ImageOf, DefinedOn
<1>4. \A j \in Lane : j \in EqualAny(v, 16, Id, 16) <=> \E i \in Lane : v[i] = j
  BY <1>1 DEF EqualAny
<1>5. EqualAny(v, 16, Id, 16) \subseteq Lane
  BY DEF EqualAny
<1> QED BY <1>2, <1>3, <1>4, <1>5

LEMMA OnesByLane ==
  ASSUME NEW v, IsPartial(v), NEW i \in Lane
  PROVE  /\ right_one(v)[i] = IF v[i] = FF THEN FF ELSE i
         /\ left_one(v)[i] = IF i \in ImageOf(v) THEN i ELSE FF
<1>1. domain_mask(v, TRUE) = {l \in Lane : v[l] = FF}
  BY DEF domain_mask
<1>2. right_one(v)[i] = IF v[i] = FF THEN FF ELSE i
  BY <1>1 DEF right_one, Undefined, Id
<1>3. image_mask_cmpestrm(v, TRUE) = Lane \ ImageOf(v)
  BY ImageByMask DEF image_mask_cmpestrm
<1>4. left_one(v)[i] = IF i \in ImageOf(v) THEN i ELSE FF
  BY <1>3 DEF left_one, Undefined, Id
<1> QED BY <1>2, <1>4

LEMMA OnesForm ==
  ASSUME NEW v, IsPartial(v)
  PROVE  /\ right_one(v) \in Vec /\ IsPartial(right_one(v))
         /\ left_one(v) \in Vec /\ IsPartial(left_one(v))
<1>1. /\ right_one(v) = [i \in Lane |-> right_one(v)[i]]
      /\ left_one(v) = [i \in Lane |-> left_one(v)[i]]
  BY DEF right_one, left_one, Undefined
<1>2. ASSUME NEW i \in Lane
      PROVE  right_one(v)[i] \in Lane \cup {FF} /\ left_one(v)[i] \in Lane \cup {FF}
  BY OnesByLane
<1>3. \A n : n \in Lane \cup {FF} => n \in 0 .. 255
  BY NoPoint, SixteenLanes
<1>4. (\A i \in Lane : right_one(v)[i] \in 0 .. 255) /\ \A i \in Lane : left_one(v)[i] \in 0 .. 255
  BY <1>2, <1>3
<1>5. right_one(v) \in Vec /\ left_one(v) \in Vec
  BY <1>1, <1>4, FormsVec
<1> QED BY <1>2, <1>5 DEF IsPartial

LEMMA CompositionAlways ==
  ASSUME NEW v \in Vec, NEW p \in Vec
  PROVE  CompositionOn(v, p)
<1> SUFFICES ASSUME IsPartial(v), IsPartial(p)
             PROVE  /\ Times(v, p) = [i \in Lane |-> IF p[i] = FF THEN FF ELSE v[p[i]]]
                    /\ Times(Times(p, v), p) = Times(p, Times(v, p))
                    /\ IsTotal(v) /\ IsTotal(p) => TransfTimes(v, p) = Times(v, p)
                    /\ Times(v, right_one(v)) = v /\ Times(left_one(v), v) = v
                    /\ DefinedOn(right_one(v)) = DefinedOn(v) /\ DefinedOn(left_one(v)) = ImageOf(v)
  BY DEF CompositionOn
<1>1. v = [i \in Lane |-> v[i]] /\ p = [i \in Lane |-> p[i]]
  BY DEF Vec
<1>2. Times(v, p) = [i \in Lane |-> IF p[i] = FF THEN FF ELSE v[p[i]]]
  BY TimesForm, TimesLane
<1>3. Times(Times(p, v), p) = Times(p, Times(v, p))
  <2>1. ASSUME NEW i \in Lane
        PROVE  Times(Times(p, v), p)[i] = Times(p, Times(v, p))[i]
    <3>1. Times(Times(p, v), p)[i] = IF p[i] = FF THEN FF ELSE Times(p, v)[p[i]]
      BY TimesLane
    <3>2. Times(p, Times(v, p))[i] = IF Times(v, p)[i] = FF THEN FF ELSE p[Times(v, p)[i]]
      BY TimesPartial, TimesLane
    <3>3. Times(v, p)[i] = IF p[i] = FF THEN FF ELSE v[p[i]]
      BY TimesLane
    <3>4. p[i] \in Lane \/ p[i] = FF
      BY DEF IsPartial
    <3>5. ASSUME p[i] \in Lane
          PROVE  Times(p, v)[p[i]] = IF v[p[i]] = FF THEN FF ELSE p[v[p[i]]]
      BY <3>5, TimesLane
    <3> QED BY <3>1, <3>2, <3>3, <3>4, <3>5, NoPoint
  <2> QED BY <2>1, TimesForm, VecsEqual
<1>4. ASSUME IsTotal(v), IsTotal(p)
      PROVE  TransfTimes(v, p) = Times(v, p)
  <2>1. ASSUME NEW i \in Lane PROVE TransfTimes(v, p)[i] = Times(v, p)[i]
    <3>1. p[i] \in Lane
      BY <1>4 DEF IsTotal
    <3>2. TransfTimes(v, p)[i] = v[p[i]]
      BY <3>1 DEF TransfTimes, Permuted
    <3>3. Times(v, p)[i] = v[p[i]]
      BY <3>1, TimesLane, NoPoint
    <3> QED BY <3>2, <3>3
  <2>2. TransfTimes(v, p) = [i \in Lane |-> TransfTimes(v, p)[i]]
    BY DEF TransfTimes, Permuted
  <2> QED BY <2>1, <2>2, TimesForm, VecsEqual
<1>5. Times(v, right_one(v)) = v
  <2>1. ASSUME NEW i \in Lane PROVE Times(v, right_one(v))[i] = v[i]
    <3>1. Times(v, right_one(v))[i]
            = IF right_one(v)[i] = FF THEN FF ELSE v[right_one(v)[i]]
      BY OnesForm, TimesLane
    <3>2. right_one(v)[i] = IF v[i] = FF THEN FF ELSE i
      BY OnesByLane
    <3> QED BY <3>1, <3>2, NoPoint
  <2> QED BY <1>1, <2>1, TimesForm, VecsEqual
<1>6. Times(left_one(v), v) = v
  <2>1. ASSUME NEW i \in Lane PROVE Times(left_one(v), v)[i] = v[i]
    <3>1. Times(left_one(v), v)[i] = IF v[i] = FF THEN FF ELSE left_one(v)[v[i]]
      BY TimesLane
    <3>2. v[i] \in Lane \/ v[i] = FF
      BY DEF IsPartial
    <3>3. ASSUME v[i] \in Lane PROVE left_one(v)[v[i]] = v[i]
      <4>1. v[i] \in ImageOf(v)
        BY <3>3, ImageByMask
      <4> QED BY <3>3, <4>1, OnesByLane
    <3> QED BY <3>1, <3>2, <3>3
  <2> QED BY <1>1, <2>1, TimesForm, VecsEqual
<1>7. DefinedOn(right_one(v)) = DefinedOn(v)
  <2>1. \A i \in Lane : right_one(v)[i] # FF <=> v[i] # FF
    BY OnesByLane, NoPoint
  <2> QED BY <2>1 DEF DefinedOn
<1>8. DefinedOn(left_one(v)) = ImageOf(v)
  <2>1. \A i \in Lane : left_one(v)[i] # FF <=> i \in ImageOf(v)
    BY OnesByLane, NoPoint
  <2> QED BY <2>1, ImageByMask DEF DefinedOn
<1> QED BY <1>2, <1>3, <1>4, <1>5, <1>6, <1>7, <1>8
LEMMA SixteenSteps ==
  ASSUME NEW F, NEW G, F[0] = G[0], \A n \in 1 .. 16 : F[n - 1] = G[n - 1] => F[n] = G[n]
  PROVE  F[16] = G[16]
<1> DEFINE Same == {n \in Nat : n <= 16 => F[n] = G[n]}
<1>1. 0 \in Same
  OBVIOUS
<1>2. ASSUME NEW n \in Nat, n \in Same
      PROVE  n + 1 \in Same
  <2>1. SUFFICES ASSUME n + 1 <= 16 PROVE F[n + 1] = G[n + 1]
    OBVIOUS
  <2>2. n + 1 \in 1 .. 16 /\ (n + 1) - 1 = n /\ n <= 16
    BY <2>1
  <2> QED BY <1>2, <2>2
<1> HIDE DEF Same
<1>3. \A n \in Nat : n \in Same
  BY <1>1, <1>2, NatSetInduction
<1> QED BY <1>3 DEF Same

\* One less than no bit.
LEMMA NoBit == AsByte(-1) = FF
<1>1. \A n \in Int : n + 1 = 0 => n % 256 = 255
  OBVIOUS
<1>2. \E n \in Int : n = -1 /\ n + 1 = 0
  OBVIOUS
<1> QED BY <1>1, <1>2 DEF AsByte, FF

\* The lowest and the highest of the points that move are those of the searches.
LEMMA MovedPoints ==
  ASSUME NEW v \in Vec
  PROVE  LET diff == first_diff_mask(v, Id, Size)
             last == last_diff_mask(v, Id, Size)
         IN  /\ smallest_moved_point(v) = IF diff = Size THEN FF ELSE diff
             /\ largest_moved_point(v) = IF last = Size THEN FF ELSE last
<1> DEFINE H == Differ(v, Id)
<1>1. fix_points_mask(v, TRUE) = H /\ H \in SUBSET Lane
  BY DEF fix_points_mask, Differ, Id
<1>2. /\ first_diff_mask(v, Id, Size) = first_mask(H, 16)
      /\ last_diff_mask(v, Id, Size) = last_mask(H, 16)
      /\ Size = 16
  BY SixteenLanes DEF first_diff_mask, last_diff_mask
<1> HIDE DEF H
<1>3. H \in SUBSET Int /\ \A i : i \in H => i \in 0 .. 16 - 1 /\ i # 16
  <2>1. \A i \in 0 .. 15 : i \in Int /\ i \in 0 .. 16 - 1 /\ i # 16
    OBVIOUS
  <2>2. H \in SUBSET (0 .. 15)
    BY <1>1, SixteenLanes
  <2> QED BY <2>1, <2>2
<1>4. AsByte(-1) = FF
  BY NoBit
<1>5. LowestBit(H) = IF first_mask(H, 16) = 16 THEN FF ELSE first_mask(H, 16)
  <2>1. CASE \A i \in 0 .. 16 - 1 : i \notin H
    <3>1. H = {}
      BY <1>3, <2>1
    <3>2. first_mask(H, 16) = 16
      BY <1>1, <2>1, MasksSearch
    <3> QED BY <1>4, <3>1, <3>2 DEF LowestBit
  <2>2. CASE \E i \in 0 .. 16 - 1 : i \in H /\ \A l \in 0 .. i - 1 : l \notin H
    <3>1. PICK i \in 0 .. 16 - 1 : i \in H /\ \A l \in 0 .. i - 1 : l \notin H
      BY <2>2
    <3>2. first_mask(H, 16) = i
      BY <1>1, <3>1, MasksSearch
    <3>3. \A l \in H : i <= l
      BY <1>3, <3>1
    <3>4. Min(H) = i
      BY <1>3, <3>1, <3>3, MinIs
    <3> QED BY <1>3, <3>1, <3>2, <3>4 DEF LowestBit
  <2> QED BY <1>1, <2>1, <2>2, FirstOrNone
<1>6. HighestBit(H) = IF last_mask(H, 16) = 16 THEN FF ELSE last_mask(H, 16)
  <2>1. CASE \A i \in 0 .. 16 - 1 : i \notin H
    <3>1. H = {}
      BY <1>3, <2>1
    <3>2. last_mask(H, 16) = 16
      BY <1>1, <2>1, MasksSearch
    <3> QED BY <3>1, <3>2 DEF HighestBit
  <2>2. CASE \E i \in 0 .. 16 - 1 : i \in H /\ \A l \in i + 1 .. 16 - 1 : l \notin H
    <3>1. PICK i \in 0 .. 16 - 1 : i \in H /\ \A l \in i + 1 .. 16 - 1 : l \notin H
      BY <2>2
    <3>2. last_mask(H, 16) = i
      BY <1>1, <3>1, MasksSearch
    <3>3. \A l \in H : l <= i
      BY <1>3, <3>1
    <3>4. Max(H) = i
      BY <1>3, <3>1, <3>3, MaxIs
    <3> QED BY <1>3, <3>1, <3>2, <3>4 DEF HighestBit
  <2> QED BY <1>1, <2>1, <2>2, LastOrNone
<1> QED BY <1>1, <1>2, <1>5, <1>6 DEF smallest_moved_point, largest_moved_point

\* No bit is 0xFF in both directions, and some bit never is.
LEMMA NoFixedPoint ==
  ASSUME NEW v \in Vec
  PROVE  /\ nb_fix_points(v) = 0 <=> smallest_fix_point(v) = FF
         /\ smallest_fix_point(v) = FF <=> largest_fix_point(v) = FF
<1> DEFINE S == fix_points_mask(v, FALSE)
<1>1. S \in SUBSET (0 .. 15) /\ S \in SUBSET Lane
  BY SixteenLanes DEF fix_points_mask
<1>2. nb_fix_points(v) = Cardinality(S)
  BY DEF nb_fix_points
<1>3. smallest_fix_point(v) = LowestBit(S) /\ largest_fix_point(v) = HighestBit(S)
  BY DEF smallest_fix_point, largest_fix_point
<1> HIDE DEF S
<1>4. Cardinality(S) = 0 <=> S = {}
  <2>1. IsFiniteSet(S)
    BY <1>1, LanesFinite, FS_Subset
  <2> QED BY <2>1, FS_EmptySet
<1>5. AsByte(-1) = FF /\ FF = 255
  BY NoBit, NoPoint
<1>6. S = {} => LowestBit(S) = FF /\ HighestBit(S) = FF
  BY <1>5 DEF LowestBit, HighestBit
<1>7. ASSUME S # {} PROVE LowestBit(S) # FF /\ HighestBit(S) # FF
  <2>1. PICK m \in S : \A l \in S : m <= l
    BY <1>1, <1>7, LeastOfLanes
  <2>2. PICK g \in S : \A l \in S : l <= g
    BY <1>1, <1>7, GreatestOfSome
  <2>3. S \in SUBSET Int /\ m \in 0 .. 15 /\ g \in 0 .. 15
    BY <1>1
  <2>4. Min(S) = m /\ Max(S) = g
    BY <2>1, <2>2, <2>3, MinIs, MaxIs
  <2> QED BY <1>5, <1>7, <2>3, <2>4 DEF LowestBit, HighestBit
<1> QED BY <1>2, <1>3, <1>4, <1>6, <1>7
\* The pairs of a point and its image, in the order of the points, rebuild a map.
LEMMA PairsRebuild ==
  ASSUME NEW v \in Vec, NEW dom, NEW rng, Len(dom) = 16,
         \A n \in 1 .. 16 : dom[n] = n - 1 /\ rng[n] = v[n - 1]
  PROVE  PTransf16Of(dom, rng) = v
<1> DEFINE Body(set) == [n \in 0 .. Len(dom) |->
                          IF n = 0 THEN [i \in Lane |-> FF]
                          ELSE LET before == set[n - 1] IN [before EXCEPT ![dom[n]] = rng[n]]]
           F    == CHOOSE set : set = Body(set)
           C(n) == [i \in Lane |-> IF i < n THEN v[i] ELSE FF]
           h    == [n \in 0 .. 16 |-> C(n)]
<1>1. C(0) = [i \in Lane |-> FF]
  <2>1. \A i \in Lane : ~(i < 0)
    BY SixteenLanes
  <2> QED BY <2>1
<1>2. ASSUME NEW n \in 1 .. 16
      PROVE  C(n) = [C(n - 1) EXCEPT ![dom[n]] = rng[n]]
  <2>1. dom[n] = n - 1 /\ rng[n] = v[n - 1] /\ n - 1 \in Lane
    BY SixteenLanes
  <2>2. \A i \in Lane : i < n <=> i < n - 1 \/ i = n - 1
    BY SixteenLanes
  <2> QED BY <2>1, <2>2
<1> HIDE DEF C
<1>3. h = Body(h)
  <2>1. ASSUME NEW n \in 0 .. 16
        PROVE  C(n) = IF n = 0 THEN [i \in Lane |-> FF] ELSE [h[n - 1] EXCEPT ![dom[n]] = rng[n]]
    <3>1. n # 0 => n \in 1 .. 16 /\ h[n - 1] = C(n - 1)
      BY BelowSixteen, Zenon
    <3> HIDE DEF h
    <3> QED BY <1>1, <1>2, <3>1, Zenon
  <2> QED BY <2>1
<1>4. F = Body(F)
  BY <1>3
<1>5. PTransf16Of(dom, rng) = F[16]
  BY DEF PTransf16Of
<1>6. \A n \in 0 .. 16 :
        /\ h[n] = C(n)
        /\ F[n] = IF n = 0 THEN [i \in Lane |-> FF] ELSE [F[n - 1] EXCEPT ![dom[n]] = rng[n]]
  BY <1>4
<1> HIDE DEF F, h
<1>7. F[16] = h[16]
  <2>1. F[0] = h[0]
    BY <1>1, <1>6
  <2>2. ASSUME NEW n \in 1 .. 16, F[n - 1] = h[n - 1]
        PROVE  F[n] = h[n]
    <3>1. n \in 0 .. 16 /\ n - 1 \in 0 .. 16 /\ n # 0
      OBVIOUS
    <3>2. F[n] = [F[n - 1] EXCEPT ![dom[n]] = rng[n]]
      BY <1>6, <3>1
    <3>3. h[n] = C(n) /\ h[n - 1] = C(n - 1)
      BY <1>6, <3>1
    <3> QED BY <1>2, <2>2, <3>2, <3>3
  <2> QED BY <2>1, <2>2, SixteenSteps
<1>8. C(16) = v
  <2>1. \A i \in Lane : i < 16
    BY SixteenLanes
  <2>2. v = [i \in Lane |-> v[i]]
    BY DEF Vec
  <2> QED BY <2>1, <2>2 DEF C
<1> QED BY <1>5, <1>6, <1>7, <1>8

\* A byte of the compressed form: two images, one a nibble higher.
LEMMA CompressedBytes ==
  ASSUME NEW v \in Vec, IsTotal(v), NEW i \in 0 .. 7
  PROVE  Compress(v)[i] = 16 * v[i + 8] + v[i]
<1> DEFINE shifted == [l \in Lane |-> AsByte(16 * v[l]) + IF l % 4 = 0 THEN 0 ELSE v[l - 1] \div 16]
           total   == VAdd(Permuted(shifted, hilo_exchng), v)
<1>1. \A l \in 0 .. 15 : v[l] \in 0 .. 15
  BY SixteenLanes DEF IsTotal
<1>2. i \in Lane /\ i + 8 \in Lane /\ hilo_exchng[i] = i + 8
  <2>1. i \in Lane /\ i + 8 \in Lane /\ i < 8
    BY SixteenLanes
  <2> QED BY <2>1 DEF hilo_exchng
<1>3. Compress(v)[i] = total[i]
  BY DEF Compress
<1>4. total[i] = AsByte(Permuted(shifted, hilo_exchng)[i] + v[i])
  BY <1>2 DEF VAdd
<1>5. Permuted(shifted, hilo_exchng)[i] = shifted[i + 8]
  BY <1>2 DEF Permuted
<1>6. shifted[i + 8] = 16 * v[i + 8]
  <2>1. shifted[i + 8] = AsByte(16 * v[i + 8])
                           + IF (i + 8) % 4 = 0 THEN 0 ELSE v[(i + 8) - 1] \div 16
    BY <1>2
  <2>2. (i + 8) - 1 \in 0 .. 15 /\ i + 8 \in 0 .. 15
    OBVIOUS
  <2>3. v[(i + 8) - 1] \div 16 = 0
    <3>1. \A n \in 0 .. 15 : n \div 16 = 0
      OBVIOUS
    <3> QED BY <1>1, <2>2, <3>1
  <2>4. AsByte(16 * v[i + 8]) = 16 * v[i + 8] /\ 16 * v[i + 8] + 0 = 16 * v[i + 8]
    <3>1. \A n \in 0 .. 15 : AsByte(16 * n) = 16 * n /\ 16 * n + 0 = 16 * n
      BY DEF AsByte
    <3> QED BY <1>1, <2>2, <3>1
  <2> HIDE DEF shifted
  <2> QED BY <2>1, <2>3, <2>4
<1> HIDE DEF shifted, total
<1>7. AsByte(16 * v[i + 8] + v[i]) = 16 * v[i + 8] + v[i]
  <2>1. \A m, n \in 0 .. 15 : AsByte(16 * m + n) = 16 * m + n
    BY DEF AsByte
  <2>2. i + 8 \in 0 .. 15 /\ i \in 0 .. 15
    OBVIOUS
  <2> QED BY <1>1, <2>1, <2>2
<1> QED BY <1>3, <1>4, <1>5, <1>6, <1>7

LEMMA ExpandCompress ==
  ASSUME NEW v \in Vec, IsTotal(v)
  PROVE  Expand(Compress(v)) = v
<1> DEFINE c == Compress(v)
<1>1. \A l \in 0 .. 15 : v[l] \in 0 .. 15
  BY SixteenLanes DEF IsTotal
<1>2. \A m, n \in 0 .. 15 : (16 * m + n) % 16 = n /\ (16 * m + n) \div 16 = m
  OBVIOUS
<1>3. ASSUME NEW i \in Lane
      PROVE  Expand(c)[i] = v[i]
  <2>1. Expand(c)[i] = IF hilo_mask[i] THEN c[i % 8] \div 16 ELSE c[i % 8] % 16
    BY DEF Expand, Blend
  <2>2. hilo_mask[i] <=> i >= 8
    BY DEF hilo_mask
  <2> HIDE DEF c
  <2>3. CASE i >= 8
    <3>1. i - 8 \in 0 .. 7 /\ i % 8 = i - 8 /\ (i - 8) + 8 = i /\ i \in 0 .. 15 /\ i - 8 \in 0 .. 15
      BY <2>3, SixteenLanes
    <3>2. c[i - 8] = 16 * v[(i - 8) + 8] + v[i - 8]
      BY <3>1, CompressedBytes DEF c
    <3>3. c[i % 8] \div 16 = v[i]
      BY <1>1, <1>2, <3>1, <3>2
    <3> QED BY <2>1, <2>2, <2>3, <3>3
  <2>4. CASE ~(i >= 8)
    <3>1. i \in 0 .. 7 /\ i % 8 = i /\ i + 8 \in 0 .. 15 /\ i \in 0 .. 15
      BY <2>4, SixteenLanes
    <3>2. c[i] = 16 * v[i + 8] + v[i]
      BY <3>1, CompressedBytes DEF c
    <3>3. c[i % 8] % 16 = v[i]
      BY <1>1, <1>2, <3>1, <3>2
    <3> QED BY <2>1, <2>2, <2>4, <3>3
  <2> QED BY <2>3, <2>4
<1>4. Expand(c) = [i \in Lane |-> Expand(c)[i]] /\ v = [i \in Lane |-> v[i]]
  BY DEF Expand, Blend, Vec
<1> HIDE DEF c
<1>5. Expand(c) = v
  BY <1>3, <1>4, VecsEqual
<1> QED BY <1>5 DEF c
LEMMA ImageMasks ==
  ASSUME NEW v, IsPartial(v)
  PROVE  /\ \A c \in BOOLEAN : image_mask_cmpestrm(v, c) = image_mask_ref(v, c)
         /\ rank_cmpestrm(v) = rank_ref(v)
         /\ rank_cmpestrm(v) = Cardinality(ImageOf(v))
<1>1. domain_mask(v, FALSE) = DefinedOn(v)
  BY DEF domain_mask, DefinedOn
<1>2. {v[i] : i \in domain_mask(v, FALSE)} = ImageOf(v)
  BY <1>1 DEF ImageOf
<1>3. EqualAny(v, 16, Id, 16) = ImageOf(v)
  BY ImageByMask
<1>4. \A c \in BOOLEAN : image_mask_cmpestrm(v, c) = image_mask_ref(v, c)
  BY <1>2, <1>3 DEF image_mask_cmpestrm, image_mask_ref
<1>5. rank_cmpestrm(v) = Cardinality(ImageOf(v))
  BY <1>3 DEF rank_cmpestrm, image_mask_cmpestrm
<1>6. rank_ref(v) = Cardinality(ImageOf(v))
  BY DEF rank_ref, ImageOf, DefinedOn
<1> QED BY <1>4, <1>5, <1>6

LEMMA PointsAlways ==
  ASSUME NEW v \in Vec
  PROVE  PointsOn(v)
<1> DEFINE diff  == first_diff_mask(v, Id, Size)
           last  == last_diff_mask(v, Id, Size)
           At(n) == v[n - 1]
<1>1. SUFFICES ASSUME IsPartial(v)
               PROVE  /\ \A c \in BOOLEAN : image_mask_cmpestrm(v, c) = image_mask_ref(v, c)
                      /\ rank_cmpestrm(v) = rank_ref(v)
                      /\ smallest_moved_point(v) = IF diff = Size THEN FF ELSE diff
                      /\ largest_moved_point(v) = IF last = Size THEN FF ELSE last
                      /\ nb_fix_points(v) = 0 <=> smallest_fix_point(v) = FF
                      /\ smallest_fix_point(v) = FF <=> largest_fix_point(v) = FF
                      /\ PTransf16([n \in 1 .. Size |-> At(n)]) = v
                      /\ IsTotal(v) =>
                           /\ PTransf16Of([n \in 1 .. Size |-> n - 1], [n \in 1 .. Size |-> At(n)]) = v
                           /\ Expand(Compress(v)) = v
  BY DEF PointsOn
<1>2. /\ smallest_moved_point(v) = IF diff = Size THEN FF ELSE diff
      /\ largest_moved_point(v) = IF last = Size THEN FF ELSE last
  BY MovedPoints
<1>3. PTransf16([n \in 1 .. Size |-> At(n)]) = v
  <2>1. Size = 16 /\ 16 \in 0 .. 16 /\ \A i \in 16 .. Size - 1 : v[i] = i
    BY SixteenLanes
  <2>2. v = PTransf16([m \in 1 .. 16 |-> LET i == m - 1 IN v[i]])
    BY <2>1, FirstEntries
  <2> QED BY <2>1, <2>2, Zenon
<1>4. ASSUME IsTotal(v)
      PROVE  /\ PTransf16Of([n \in 1 .. Size |-> n - 1], [n \in 1 .. Size |-> At(n)]) = v
             /\ Expand(Compress(v)) = v
  <2> DEFINE dom == [n \in 1 .. Size |-> n - 1]
             rng == [n \in 1 .. Size |-> At(n)]
  <2>1. Size = 16 /\ 16 \in Nat
    BY SixteenLanes
  <2>2. \A n \in 1 .. 16 : dom[n] = n - 1 /\ rng[n] = v[n - 1]
    BY <2>1
  <2>3. Len(dom) = 16
    <3>1. dom \in [1 .. 16 -> Int]
      BY <2>1
    <3>2. DOMAIN dom = 1 .. 16 /\ dom \in Seq(Int)
      BY <2>1, <3>1
    <3> HIDE DEF dom
    <3> QED BY <3>2
  <2> HIDE DEF dom, rng
  <2>4. PTransf16Of(dom, rng) = v
    BY <2>2, <2>3, PairsRebuild
  <2>5. Expand(Compress(v)) = v
    BY <1>4, ExpandCompress
  <2> QED BY <2>4, <2>5 DEF dom, rng
<1> HIDE DEF diff, last
<1> QED BY <1>1, <1>2, <1>3, <1>4, ImageMasks, NoFixedPoint

\* As many images as points: no two points share one.
LEMMA ImageCount ==
  ASSUME NEW v, IsPartial(v)
  PROVE  /\ Cardinality(ImageOf(v)) = Cardinality(DefinedOn(v)) <=> Injective(v)
         /\ IsFiniteSet(DefinedOn(v))
<1> DEFINE S == DefinedOn(v)
           T == ImageOf(v)
           f == [i \in S |-> v[i]]
<1>1. IsFiniteSet(S)
  <2>1. S \subseteq Lane
    BY DEF DefinedOn
  <2> HIDE DEF S
  <2> QED BY <2>1, LanesFinite, FS_Subset
<1>2. \A i \in Lane : i \in S <=> v[i] \in Lane
  BY NoPoint DEF DefinedOn, IsPartial
<1>3. S \subseteq Lane
  BY DEF DefinedOn
<1>4. T = {v[i] : i \in S}
  BY DEF ImageOf
<1> HIDE DEF S, T
<1>5. f \in [S -> T] /\ (\A t \in T : \E i \in S : f[i] = t) /\ \A i \in S : f[i] = v[i]
  BY <1>4
<1> HIDE DEF f
<1>6. f \in Surjection(S, T)
  BY <1>5 DEF Surjection
<1>7. Cardinality(T) = Cardinality(S) <=> f \in Injection(S, T)
  BY <1>1, <1>6, FS_Surjection
<1>8. f \in Injection(S, T) <=> \A i, j \in S : f[i] = f[j] => i = j
  <2>1. DOMAIN f = S
    BY <1>5
  <2> QED BY <1>5, <2>1 DEF Injection, IsInjective
<1>9. (\A i, j \in S : f[i] = f[j] => i = j) <=> Injective(v)
  BY <1>2, <1>3, <1>5 DEF Injective
<1> QED BY <1>1, <1>7, <1>8, <1>9 DEF S, T
\* Some lane before n holds j.
HeldBelow(v, n, j) == \E i \in Lane : i < n /\ v[i] = j

\* The loop leaves the lane of each point that is an image, and 0xFF elsewhere.
LEMMA InverseRefLanes ==
  ASSUME NEW v \in Vec, Injective(v)
  PROVE  /\ inverse_ref(v) = [j \in Lane |-> inverse_ref(v)[j]]
         /\ \A i \in Lane : v[i] \in Lane => inverse_ref(v)[v[i]] = i
         /\ \A j \in Lane : (\A i \in Lane : v[i] # j) => inverse_ref(v)[j] = FF
<1> DEFINE Body(set) == [n \in 0 .. Size |->
                          IF n = 0 THEN [i \in Lane |-> FF]
                          ELSE LET before == set[n - 1]
                               IN  IF v[n - 1] < 16 THEN [before EXCEPT ![v[n - 1]] = n - 1]
                                   ELSE before]
           F    == CHOOSE set : set = Body(set)
           W(j) == CHOOSE i \in Lane : v[i] = j
           C(n) == [j \in Lane |-> IF HeldBelow(v, n, j) THEN W(j) ELSE FF]
           h    == [n \in 0 .. 16 |-> C(n)]
<1>1. C(0) = [i \in Lane |-> FF]
  <2>1. \A j \in Lane : ~HeldBelow(v, 0, j)
    BY SixteenLanes DEF HeldBelow
  <2> QED BY <2>1
<1>2. \A i \in Lane : v[i] \in Lane => W(v[i]) = i
  BY DEF Injective
<1> HIDE DEF W
<1>3. ASSUME NEW n \in 1 .. 16
      PROVE  C(n) = IF v[n - 1] < 16 THEN [C(n - 1) EXCEPT ![v[n - 1]] = n - 1] ELSE C(n - 1)
  <2>1. n - 1 \in 0 .. 15 /\ n - 1 \in Lane
    BY SixteenLanes
  <2>2. v[n - 1] < 16 <=> v[n - 1] \in Lane
    <3>1. v[n - 1] \in 0 .. 255
      BY <2>1, ByteOfLane
    <3> QED BY <3>1, SixteenLanes
  <2>3. ASSUME NEW j \in Lane
        PROVE  HeldBelow(v, n, j) <=> HeldBelow(v, n - 1, j) \/ v[n - 1] = j
    <3>1. \A i \in Lane : i < n <=> i < n - 1 \/ i = n - 1
      BY SixteenLanes
    <3> QED BY <2>1, <3>1 DEF HeldBelow
  <2>4. CASE v[n - 1] \in Lane
    <3>1. W(v[n - 1]) = n - 1
      BY <1>2, <2>1, <2>4
    <3> QED BY <2>2, <2>3, <2>4, <3>1
  <2>5. CASE v[n - 1] \notin Lane
    BY <2>2, <2>3, <2>5
  <2> QED BY <2>4, <2>5
<1> HIDE DEF C
<1>4. h = Body(h)
  <2>1. ASSUME NEW n \in 0 .. 16
        PROVE  C(n) = IF n = 0 THEN [i \in Lane |-> FF]
                      ELSE IF v[n - 1] < 16 THEN [h[n - 1] EXCEPT ![v[n - 1]] = n - 1] ELSE h[n - 1]
    <3>1. n # 0 => n \in 1 .. 16 /\ h[n - 1] = C(n - 1)
      BY BelowSixteen, Zenon
    <3> HIDE DEF h
    <3> QED BY <1>1, <1>3, <3>1, Zenon
  <2> QED BY <2>1, SixteenLanes
<1>5. F = Body(F)
  BY <1>4
<1>6. inverse_ref(v) = F[16]
  BY SixteenLanes DEF inverse_ref
<1>7. \A n \in 0 .. 16 :
        /\ h[n] = C(n)
        /\ F[n] = IF n = 0 THEN [i \in Lane |-> FF]
                  ELSE IF v[n - 1] < 16 THEN [F[n - 1] EXCEPT ![v[n - 1]] = n - 1] ELSE F[n - 1]
  BY <1>5, SixteenLanes
<1> HIDE DEF F, h
<1>8. F[16] = h[16]
  <2>1. F[0] = h[0]
    BY <1>1, <1>7
  <2>2. ASSUME NEW n \in 1 .. 16, F[n - 1] = h[n - 1]
        PROVE  F[n] = h[n]
    <3>1. n \in 0 .. 16 /\ n - 1 \in 0 .. 16 /\ n # 0
      OBVIOUS
    <3>2. F[n] = IF v[n - 1] < 16 THEN [F[n - 1] EXCEPT ![v[n - 1]] = n - 1] ELSE F[n - 1]
      BY <1>7, <3>1
    <3>3. h[n] = C(n) /\ h[n - 1] = C(n - 1)
      BY <1>7, <3>1
    <3> QED BY <1>3, <2>2, <3>2, <3>3
  <2> QED BY <2>1, <2>2, SixteenSteps
<1>9. inverse_ref(v) = [j \in Lane |-> IF HeldBelow(v, 16, j) THEN W(j) ELSE FF]
  <2>1. h[16] = C(16)
    BY <1>7
  <2> QED BY <1>6, <1>8, <2>1 DEF C
<1>10. \A j \in Lane : HeldBelow(v, 16, j) <=> \E i \in Lane : v[i] = j
  BY SixteenLanes DEF HeldBelow
<1> QED BY <1>2, <1>9, <1>10

\* What permutation_of answers of the points that are images once.
Locates(position, v) ==
  \A i \in Lane : v[i] \in Lane /\ (\A l \in Lane \ {i} : v[l] # v[i]) => position[v[i]] = i

LEMMA InverseAlways ==
  ASSUME NEW v \in Vec, NEW position, Locates(position, v)
  PROVE  InverseOn(v, position)
<1> DEFINE inv == inverse_find(v, position)
<1>1. SUFFICES ASSUME IsPartialPerm(v)
               PROVE  /\ inv = inverse_ref(v)
                      /\ Times(v, Times(inv, v)) = v
                      /\ Times(inv, Times(v, inv)) = inv
  BY DEF InverseOn
<1>2. IsPartial(v) /\ Injective(v)
  BY <1>1, ImageCount DEF IsPartialPerm
<1>3. ASSUME NEW i \in Lane, v[i] \in Lane
      PROVE  inv[v[i]] = i
  <2>1. \A l \in Lane \ {i} : v[l] # v[i]
    BY <1>2, <1>3 DEF Injective
  <2>2. position[v[i]] = i
    BY <1>3, <2>1 DEF Locates
  <2>3. v[i] \in EqualAny(v, 16, Id, 16)
    BY <1>2, <1>3, ImageByMask
  <2> QED BY <1>3, <2>2, <2>3 DEF inverse_find, Undefined
<1>4. ASSUME NEW j \in Lane, \A i \in Lane : v[i] # j
      PROVE  inv[j] = FF
  <2>1. j \notin EqualAny(v, 16, Id, 16)
    BY <1>2, <1>4, ImageByMask
  <2> QED BY <2>1 DEF inverse_find, Undefined
<1>5. inv = [j \in Lane |-> inv[j]]
  BY DEF inverse_find, Undefined
<1> HIDE DEF inv
<1>6. inv = inverse_ref(v)
  <2>1. ASSUME NEW j \in Lane PROVE inv[j] = inverse_ref(v)[j]
    <3>1. CASE \E i \in Lane : v[i] = j
      BY <1>2, <1>3, <3>1, InverseRefLanes
    <3>2. CASE \A i \in Lane : v[i] # j
      BY <1>2, <1>4, <3>2, InverseRefLanes
    <3> QED BY <3>1, <3>2
  <2>2. inverse_ref(v) = [j \in Lane |-> inverse_ref(v)[j]]
    BY <1>2, InverseRefLanes
  <2> QED BY <1>5, <2>1, <2>2, VecsEqual
<1>7. IsPartial(inv) /\ \A j \in Lane : inv[j] = FF \/ (inv[j] \in Lane /\ v[inv[j]] = j)
  <2>1. ASSUME NEW j \in Lane PROVE inv[j] = FF \/ (inv[j] \in Lane /\ v[inv[j]] = j)
    <3>1. CASE \E i \in Lane : v[i] = j
      BY <1>3, <3>1
    <3>2. CASE \A i \in Lane : v[i] # j
      BY <1>4, <3>2
    <3> QED BY <3>1, <3>2
  <2> QED BY <2>1 DEF IsPartial
<1>8. Times(v, Times(inv, v)) = v
  <2>1. ASSUME NEW i \in Lane PROVE Times(v, Times(inv, v))[i] = v[i]
    <3>1. Times(inv, v)[i] = IF v[i] = FF THEN FF ELSE inv[v[i]]
      BY <1>2, TimesLane
    <3>2. Times(v, Times(inv, v))[i]
            = IF Times(inv, v)[i] = FF THEN FF ELSE v[Times(inv, v)[i]]
      BY <1>2, <1>7, TimesPartial, TimesLane
    <3>3. v[i] \in Lane \/ v[i] = FF
      BY <1>2 DEF IsPartial
    <3> QED BY <1>3, <3>1, <3>2, <3>3, NoPoint
  <2>2. v = [i \in Lane |-> v[i]]
    BY DEF Vec
  <2> QED BY <2>1, <2>2, TimesForm, VecsEqual
<1>9. Times(inv, Times(v, inv)) = inv
  <2>1. ASSUME NEW j \in Lane PROVE Times(inv, Times(v, inv))[j] = inv[j]
    <3>1. Times(v, inv)[j] = IF inv[j] = FF THEN FF ELSE v[inv[j]]
      BY <1>7, TimesLane
    <3>2. Times(inv, Times(v, inv))[j]
            = IF Times(v, inv)[j] = FF THEN FF ELSE inv[Times(v, inv)[j]]
      BY <1>2, <1>7, TimesPartial, TimesLane
    <3> QED BY <1>7, <3>1, <3>2, NoPoint
  <2> QED BY <1>5, <2>1, TimesForm, VecsEqual
<1> QED BY <1>6, <1>8, <1>9
\* No point from n on moves.
Stays(v, n) == \A i \in n .. Size - 1 : v[i] = i

LEMMA ClassesAre ==
  ASSUME NEW v \in Vec, NEW n \in 0 .. 16
  PROVE  /\ PTransf16_validate(v, n) <=> IsPartial(v) /\ Stays(v, n)
         /\ Transf16_validate(v, n) <=> IsTotal(v) /\ Stays(v, n)
         /\ PPerm16_validate(v, n) <=> IsPartial(v) /\ Stays(v, n) /\ Injective(v)
         /\ Perm16_validate(TRUE, v, n) <=> IsTotal(v) /\ Stays(v, n) /\ Injective(v)
<1>1. /\ is_partial_transformation(v, n)
           <=> (\A i \in Lane : v[i] \in Lane \cup {255}) /\ \A i \in n .. Size - 1 : v[i] = i
      /\ is_transformation(v, n)
           <=> (\A i \in Lane : v[i] \in Lane) /\ \A i \in n .. Size - 1 : v[i] = i
      /\ is_partial_permutation(v, n)
           <=> /\ \A i \in Lane : v[i] \in Lane \cup {255}
               /\ \A i \in n .. Size - 1 : v[i] = i
               /\ Injective(v)
      /\ is_permutation_cmpestri(v, n)
           <=> /\ \A i \in Lane : v[i] \in Lane
               /\ \A i \in n .. Size - 1 : v[i] = i
               /\ Injective(v)
  BY RecognisersAlways
<1>2. IsPartial(v) <=> \A i \in Lane : v[i] \in Lane \cup {255}
  BY NoPoint DEF IsPartial
<1> QED BY <1>1, <1>2 DEF PTransf16_validate, Transf16_validate, PPerm16_validate,
                          Perm16_validate, is_permutation, IsTotal, Stays

LEMMA TotalIsPartial ==
  ASSUME NEW v, IsTotal(v)
  PROVE  IsPartial(v)
BY DEF IsTotal, IsPartial

\* A product stays where both factors do, and shares an image only if they do.
LEMMA ProductClosed ==
  ASSUME NEW v \in Vec, NEW p \in Vec, IsPartial(v), IsPartial(p), NEW n \in 0 .. 16
  PROVE  /\ Stays(v, n) /\ Stays(p, n) => Stays(Times(v, p), n)
         /\ Injective(v) /\ Injective(p) => Injective(Times(v, p))
<1>1. \A i \in Lane : Times(v, p)[i] = IF p[i] = FF THEN FF ELSE v[p[i]]
  BY TimesLane
<1>2. ASSUME Stays(v, n), Stays(p, n), NEW i \in n .. Size - 1
      PROVE  Times(v, p)[i] = i
  <2>1. i \in Lane /\ i # FF
    <3>1. i \in Lane
      BY SixteenLanes
    <3> QED BY <3>1, NoPoint
  <2>2. v[i] = i /\ p[i] = i
    BY <1>2 DEF Stays
  <2> QED BY <1>1, <2>1, <2>2
<1>3. ASSUME Injective(v), Injective(p), NEW i \in Lane, NEW j \in Lane,
             Times(v, p)[i] = Times(v, p)[j], Times(v, p)[i] \in Lane
      PROVE  i = j
  <2>1. p[i] # FF /\ p[j] # FF
    BY <1>1, <1>3, NoPoint
  <2>2. p[i] \in Lane /\ p[j] \in Lane
    BY <2>1 DEF IsPartial
  <2>3. v[p[i]] = v[p[j]] /\ v[p[i]] \in Lane
    BY <1>1, <1>3, <2>1
  <2>4. p[i] = p[j]
    BY <1>3, <2>2, <2>3 DEF Injective
  <2> QED BY <1>3, <2>2, <2>4 DEF Injective
<1>4. Stays(v, n) /\ Stays(p, n) => Stays(Times(v, p), n)
  BY <1>2 DEF Stays
<1>5. Injective(v) /\ Injective(p) => Injective(Times(v, p))
  BY <1>3 DEF Injective
<1> QED BY <1>4, <1>5

LEMMA TotalProduct ==
  ASSUME NEW v \in Vec, NEW p \in Vec, IsTotal(v), IsTotal(p)
  PROVE  Permuted(v, p) = Times(v, p) /\ Permuted(v, p) \in Vec /\ IsTotal(Permuted(v, p))
<1>1. IsPartial(v) /\ IsPartial(p)
  BY TotalIsPartial
<1>2. Permuted(v, p) = Times(v, p)
  BY <1>1, CompositionAlways DEF CompositionOn, TransfTimes
<1>3. \A i \in Lane : Permuted(v, p)[i] \in Lane
  BY DEF IsTotal, Permuted
<1> QED BY <1>1, <1>2, <1>3, TimesPartial DEF IsTotal

\* As many points are images of one identity as of the other.
LEMMA SameRank ==
  ASSUME NEW v \in Vec, IsPartial(v), Injective(v)
  PROVE  rank_cmpestrm(left_one(v)) = rank_cmpestrm(right_one(v))
<1>1. /\ IsPartial(left_one(v)) /\ IsPartial(right_one(v))
  BY OnesForm
<1>2. /\ \A j \in Lane : j \in ImageOf(left_one(v)) <=> \E i \in Lane : left_one(v)[i] = j
      /\ \A j \in Lane : j \in ImageOf(right_one(v)) <=> \E i \in Lane : right_one(v)[i] = j
      /\ ImageOf(left_one(v)) \subseteq Lane /\ ImageOf(right_one(v)) \subseteq Lane
      /\ ImageOf(v) \subseteq Lane
  BY <1>1, ImageByMask
<1>3. ASSUME NEW i \in Lane
      PROVE  /\ left_one(v)[i] = IF i \in ImageOf(v) THEN i ELSE FF
             /\ right_one(v)[i] = IF v[i] = FF THEN FF ELSE i
  BY OnesByLane
<1>4. ImageOf(left_one(v)) = ImageOf(v)
  BY <1>2, <1>3, NoPoint
<1>5. ImageOf(right_one(v)) = DefinedOn(v)
  <2>1. \A j \in Lane : j \in ImageOf(right_one(v)) <=> v[j] # FF
    BY <1>2, <1>3, NoPoint
  <2> QED BY <1>2, <2>1 DEF DefinedOn
<1>6. Cardinality(ImageOf(v)) = Cardinality(DefinedOn(v))
  BY ImageCount
<1> QED BY <1>1, <1>4, <1>5, <1>6, ImageMasks

LEMMA CompressTells ==
  ASSUME NEW v \in Vec, NEW p \in Vec, IsTotal(v), IsTotal(p)
  PROVE  Compress(v) = Compress(p) <=> equal(v, p)
<1>1. Expand(Compress(v)) = v /\ Expand(Compress(p)) = p
  BY ExpandCompress
<1> QED BY <1>1, EqualsRight

\* The classes of maps are closed under their own products.
LEMMA ClassesClosedAlways ==
  ASSUME NEW v \in Vec, NEW p \in Vec
  PROVE  ClassesClosedOn(v, p)
<1>1. 8 \in 0 .. 16 /\ 16 \in 0 .. 16 /\ Size = 16
  BY SixteenLanes
<1>2. ASSUME PTransf16_validate(v, Size)
      PROVE  /\ rank(TRUE, v) = rank(FALSE, v)
             /\ \A c \in BOOLEAN : image_mask(TRUE, v, c) = image_mask(FALSE, v, c)
  <2>1. IsPartial(v)
    BY <1>1, <1>2, ClassesAre
  <2> QED BY <2>1, ImageMasks DEF rank, image_mask
<1>3. ASSUME NEW n \in 0 .. 16, PTransf16_validate(v, n), PTransf16_validate(p, n)
      PROVE  PTransf16_validate(Times(v, p), n)
  <2>1. IsPartial(v) /\ Stays(v, n) /\ IsPartial(p) /\ Stays(p, n)
    BY <1>3, ClassesAre
  <2>2. Times(v, p) \in Vec /\ IsPartial(Times(v, p)) /\ Stays(Times(v, p), n)
    BY <2>1, TimesPartial, ProductClosed
  <2> QED BY <2>2, ClassesAre
<1>4. ASSUME NEW n \in 0 .. 16, PPerm16_validate(v, n)
      PROVE  /\ PPerm16_validate(PPermTimes(v, v), n)
             /\ PPerm16_validate(PPermTimes(v, PPerm_right_one(v)), n)
             /\ rank(TRUE, PPerm_left_one(v)) = rank(TRUE, PPerm_right_one(v))
  <2>1. IsPartial(v) /\ Stays(v, n) /\ Injective(v)
    BY <1>4, ClassesAre
  <2>2. /\ Times(v, v) \in Vec /\ IsPartial(Times(v, v))
        /\ Stays(Times(v, v), n) /\ Injective(Times(v, v))
    BY <2>1, TimesPartial, ProductClosed
  <2>3. PPerm16_validate(PPermTimes(v, v), n)
    BY <2>2, ClassesAre DEF PPermTimes
  <2>4. Times(v, right_one(v)) = v
    BY <2>1, CompositionAlways DEF CompositionOn
  <2>5. PPerm16_validate(PPermTimes(v, PPerm_right_one(v)), n)
    BY <1>4, <2>4 DEF PPermTimes, PPerm_right_one
  <2>6. rank(TRUE, PPerm_left_one(v)) = rank(TRUE, PPerm_right_one(v))
    BY <2>1, SameRank DEF rank, PPerm_left_one, PPerm_right_one
  <2> QED BY <2>3, <2>5, <2>6
<1>5. ASSUME NEW n \in 0 .. 16, Perm16_validate(TRUE, v, n)
      PROVE  Perm16_validate(TRUE, PermTimes(v, v), n)
  <2>1. IsTotal(v) /\ Stays(v, n) /\ Injective(v)
    BY <1>5, ClassesAre
  <2>2. IsPartial(v)
    BY <2>1, TotalIsPartial
  <2>3. Permuted(v, v) = Times(v, v) /\ Permuted(v, v) \in Vec /\ IsTotal(Permuted(v, v))
    BY <2>1, TotalProduct
  <2>4. Stays(Permuted(v, v), n) /\ Injective(Permuted(v, v))
    BY <2>1, <2>2, <2>3, ProductClosed
  <2> QED BY <2>3, <2>4, ClassesAre DEF PermTimes
<1>6. ASSUME Transf16_validate(v, Size), Transf16_validate(p, Size)
      PROVE  /\ hash_Transf16(v) = hash_Transf16(p) <=> equal(v, p)
             /\ hash_Perm16(PermTimes(v, p)) = hash_Perm16(PermTimes(p, v)) <=>
                  equal(PermTimes(v, p), PermTimes(p, v))
  <2>1. IsTotal(v) /\ IsTotal(p)
    BY <1>1, <1>6, ClassesAre
  <2>2. /\ Permuted(v, p) \in Vec /\ IsTotal(Permuted(v, p))
        /\ Permuted(p, v) \in Vec /\ IsTotal(Permuted(p, v))
    BY <2>1, TotalProduct
  <2>3. hash_Transf16(v) = hash_Transf16(p) <=> equal(v, p)
    BY <2>1, CompressTells DEF hash_Transf16
  <2>4. hash_Perm16(PermTimes(v, p)) = hash_Perm16(PermTimes(p, v)) <=>
          equal(PermTimes(v, p), PermTimes(p, v))
    BY <2>2, CompressTells DEF hash_Perm16, PermTimes
  <2> QED BY <2>3, <2>4
<1>7. \A n \in {8, Size} : n \in 0 .. 16
  BY <1>1
<1> QED BY <1>2, <1>3, <1>4, <1>5, <1>6, <1>7 DEF ClassesClosedOn

LEMMA BuildsAgreeAlways ==
  ASSUME NEW v \in Vec, NEW matched \in Vec, Locates(matched, v)
  PROVE  BuildsAgreeOn(v, matched)
<1> SUFFICES ASSUME Perm16_validate(TRUE, v, Size)
             PROVE  matched = permutation_of_ref(v, Id)
  BY DEF BuildsAgreeOn, permutation_of
<1>1. IsTotal(v) /\ Injective(v)
  <2>1. Size \in 0 .. 16
    BY SixteenLanes
  <2> QED BY <2>1, ClassesAre
<1>2. HoldsAll(v)
  BY <1>1, HoldsAllIsPerm DEF IsTotal, AllLanes
<1>3. Id \in Vec /\ \A j \in Lane : Id[j] = j
  <2>1. Id = [i \in Lane |-> Id[i]] /\ \A j \in Lane : Id[j] = j
    BY DEF Id
  <2>2. \A j \in Lane : Id[j] \in 0 .. 255
    <3>1. \A j \in Lane : j \in 0 .. 255
      BY SixteenLanes
    <3> QED BY <2>1, <3>1
  <2> QED BY <2>1, <2>2, FormsVec
<1>4. ASSUME NEW j \in Lane
      PROVE  matched[j] = permutation_of_ref(v, Id)[j]
  <2>1. PICK i \in Lane : v[i] = j
    BY <1>2 DEF HoldsAll
  <2>2. \A l \in Lane \ {i} : v[l] # v[i]
    BY <1>1, <2>1 DEF Injective
  <2>3. matched[j] = i
    BY <2>1, <2>2 DEF Locates
  <2>4. permutation_of_ref(v, Id)[j] = i
    BY <1>3, <2>1, <2>2, PositionOfRef
  <2> QED BY <2>3, <2>4
<1>5. /\ matched = [j \in Lane |-> matched[j]]
      /\ permutation_of_ref(v, Id) = [j \in Lane |-> permutation_of_ref(v, Id)[j]]
  BY DEF Vec, permutation_of_ref
<1> QED BY <1>4, <1>5, VecsEqual

LEMMA LoopMaps == LoopInv => PartialMapsRight
<1> SUFFICES ASSUME LoopInv PROVE PartialMapsRight
  OBVIOUS
<1>1. a \in Vec /\ b \in Vec /\ res \in Vec
  BY DEF LoopInv, ArgumentsTyped, VectorsTyped
<1>2. CompositionOn(a, b) /\ PointsOn(a) /\ ClassesClosedOn(a, b)
  BY <1>1, CompositionAlways, PointsAlways, ClassesClosedAlways
<1>3. ASSUME Finished("permutation_of"), b = Id
      PROVE  InverseOn(a, res) /\ BuildsAgreeOn(a, res)
  <2>1. ASSUME NEW j \in Lane, Cardinality({i \in Lane : a[i] = b[j]}) = 1
        PROVE  res[j] = permutation_of_ref(a, b)[j]
    <3>1. AnswerAtReturn /\ done /\ prog = "permutation_of"
      BY <1>3, LoopAnswers DEF Finished
    <3> QED BY <2>1, <3>1 DEF AnswerAtReturn
  <2>2. ASSUME NEW i \in Lane, a[i] \in Lane, \A l \in Lane \ {i} : a[l] # a[i]
        PROVE  res[a[i]] = i
    <3>1. b[a[i]] = a[i]
      BY <1>3, <2>2 DEF Id
    <3>2. {l \in Lane : a[l] = b[a[i]]} = {i}
      BY <2>2, <3>1
    <3>3. Cardinality({l \in Lane : a[l] = b[a[i]]}) = 1
      BY <3>2, FS_Singleton
    <3>4. permutation_of_ref(a, b)[a[i]] = i
      BY <1>1, <2>2, <3>1, PositionOfRef
    <3> QED BY <2>1, <2>2, <3>3, <3>4
  <2>3. Locates(res, a)
    BY <2>2 DEF Locates
  <2> QED BY <1>1, <2>3, InverseAlways, BuildsAgreeAlways
<1> QED BY <1>2, <1>3 DEF PartialMapsRight

(***************************************************************************)
(* For any two vectors the functions are called with: partial maps         *)
(* compose associatively with the one-sided identities of their domain and *)
(* image, image, rank and moved points by mask are those by loop, maps are *)
(* rebuilt from their points and from 64 bits, the classes are closed      *)
(* under their products, and inverse_find inverts every partial            *)
(* permutation by what permutation_of has found, whatever that says of the *)
(* points without a preimage.                                              *)
(***************************************************************************)
THEOREM MapsAlwaysRight == Spec => []PartialMapsRight
BY LoopAlways, LoopMaps, PTL
=============================================================================
