---------------------------- MODULE ProgramProofs ----------------------------
(***************************************************************************)
(* Proofs about two of the programs.  The parallel count of PermTree loses *)
(* no permutation and counts none twice, however its strands interleave:   *)
(* for every number of points and every call.  The enumerations of         *)
(* Enumeration find every product of the generators, read shortest words   *)
(* back while the table grows, and count idempotents with them: for every  *)
(* list of generators.                                                     *)
(***************************************************************************)
EXTENDS PermTree, Enumeration, Epu8Proofs, SequenceTheorems

-----------------------------------------------------------------------------
(* One-to-one vectors, and those that agree beyond a position.             *)

OneToOne == {p \in [Lane -> Lane] : \A i, j \in Lane : p[i] = p[j] => i = j}

\* The orders of the first n entries of p.
Agree(p, n) == {x \in OneToOne : \A i \in Lane : i >= n => x[i] = p[i]}

\* A one-to-one vector misses no point.
LEMMA Onto ==
  ASSUME NEW p \in OneToOne, NEW y \in Lane
  PROVE  \E j \in Lane : p[j] = y
<1>1. IsFiniteSet(Lane)
  BY FS_Interval, SizeAssumption DEF Lane
<1>2. p \in Injection(Lane, Lane)
  BY DEF OneToOne, Injection, IsInjective
<1>3. p \in Surjection(Lane, Lane)
  BY <1>1, <1>2, FS_Injection
<1> QED BY <1>3 DEF Surjection

\* permuteij exchanges two entries.
LEMMA Exchange ==
  ASSUME NEW p \in OneToOne, NEW i \in Lane, NEW j \in Lane
  PROVE  /\ permuteij(p, i, j) \in OneToOne
         /\ permuteij(p, i, j)[j] = p[i]
         /\ \A k \in Lane : k # i /\ k # j => permuteij(p, i, j)[k] = p[k]
<1> DEFINE t == transposition(i, j)
           r == permuteij(p, i, j)
<1>1. t = [k \in Lane |-> IF k = j THEN i ELSE IF k = i THEN j ELSE k]
  BY DEF transposition, Id
<1>2. t \in [Lane -> Lane]
  BY <1>1
<1>3. r = [k \in Lane |-> p[t[k]]]
  BY <1>2, PermutedLane DEF permuteij
<1> HIDE DEF r, t
<1>4. p \in [Lane -> Lane] /\ \A k, l \in Lane : p[k] = p[l] => k = l
  BY DEF OneToOne
<1>5. \A k, l \in Lane : t[k] = t[l] => k = l
  BY <1>1
<1>6. r \in [Lane -> Lane] /\ \A k, l \in Lane : r[k] = r[l] => k = l
  BY <1>2, <1>3, <1>4, <1>5
<1>7. r \in OneToOne
  BY <1>6 DEF OneToOne
<1>8. r[j] = p[i] /\ \A k \in Lane : k # i /\ k # j => r[k] = p[k]
  BY <1>1, <1>3
<1> QED BY <1>7, <1>8 DEF r

\* Composing with the permutations of n points gives the orders of n entries.
LEMMA OrdersAgree ==
  ASSUME NEW p \in OneToOne, NEW n \in 0 .. Size
  PROVE  {Permuted(p, q) : q \in PermsOf[n]} = Agree(p, n)
<1>1. PermsOf[n] = {q \in [Lane -> Lane] : /\ \A i \in Lane : i >= n => q[i] = i
                                           /\ \A i, j \in Lane : q[i] = q[j] => i = j}
  BY DEF PermsOf
<1>2. p \in [Lane -> Lane] /\ \A k, l \in Lane : p[k] = p[l] => k = l
  BY DEF OneToOne
<1>3. ASSUME NEW q \in PermsOf[n]
      PROVE  Permuted(p, q) \in Agree(p, n)
  <2>1. q \in [Lane -> Lane] /\ Permuted(p, q) = [i \in Lane |-> p[q[i]]]
    BY <1>1, PermutedLane
  <2> QED BY <1>1, <1>2, <2>1 DEF Agree, OneToOne
<1>4. ASSUME NEW x \in Agree(p, n)
      PROVE  \E q \in PermsOf[n] : Permuted(p, q) = x
  <2> DEFINE q == [i \in Lane |-> CHOOSE j \in Lane : p[j] = x[i]]
  <2>1. /\ x \in [Lane -> Lane]
        /\ \A k, l \in Lane : x[k] = x[l] => k = l
        /\ \A i \in Lane : i >= n => x[i] = p[i]
    BY DEF Agree, OneToOne
  <2>2. \A i \in Lane : q[i] \in Lane /\ p[q[i]] = x[i]
    <3>1. ASSUME NEW i \in Lane PROVE \E j \in Lane : p[j] = x[i]
      BY <2>1, Onto
    <3> QED BY <3>1
  <2>3. q \in [Lane -> Lane]
    BY <2>2
  <2> HIDE DEF q
  <2>4. Permuted(p, q) = [i \in Lane |-> p[q[i]]]
    BY <2>3, PermutedLane
  <2>5. Permuted(p, q) = x
    BY <2>1, <2>2, <2>4
  <2>6. q \in PermsOf[n]
    BY <1>1, <1>2, <2>1, <2>2, <2>3
  <2> QED BY <2>5, <2>6
<1> QED BY <1>3, <1>4

\* The choice of entry n - 1 splits the orders of n entries ...
LEMMA SplitByChoice ==
  ASSUME NEW p \in OneToOne, NEW n \in 1 .. Size
  PROVE  \A x : x \in Agree(p, n) <=> \E i \in 0 .. n - 1 : x \in Agree(permuteij(p, i, n - 1), n - 1)
<1>1. n - 1 \in Lane /\ n \in Nat /\ \A i \in 0 .. n - 1 : i \in Lane
  BY SizeAssumption DEF Lane
<1>2. ASSUME NEW x \in Agree(p, n)
      PROVE  \E i \in 0 .. n - 1 : x \in Agree(permuteij(p, i, n - 1), n - 1)
  <2>1. x \in OneToOne /\ \A k \in Lane : k >= n => x[k] = p[k]
    BY DEF Agree
  <2>2. PICK i \in Lane : p[i] = x[n - 1]
    BY <1>1, <2>1, Onto DEF OneToOne
  <2>3. i \in 0 .. n - 1
    <3>1. SUFFICES ASSUME i >= n PROVE FALSE
      BY <1>1 DEF Lane
    <3>2. x[i] = x[n - 1] /\ i # n - 1
      BY <1>1, <2>1, <2>2, <3>1
    <3> QED BY <1>1, <2>1, <3>2 DEF OneToOne
  <2>4. \A k \in Lane : k >= n - 1 => x[k] = permuteij(p, i, n - 1)[k]
    <3>1. ASSUME NEW k \in Lane, k >= n - 1 PROVE x[k] = permuteij(p, i, n - 1)[k]
      <4>1. CASE k = n - 1
        BY <1>1, <2>2, <4>1, Exchange
      <4>2. CASE k # n - 1
        <5>1. k >= n /\ k # i
          BY <1>1, <2>3, <3>1, <4>2 DEF Lane
        <5> QED BY <1>1, <2>1, <4>2, <5>1, Exchange
      <4> QED BY <4>1, <4>2
    <3> QED BY <3>1
  <2> QED BY <2>1, <2>3, <2>4 DEF Agree
<1>3. ASSUME NEW i \in 0 .. n - 1, NEW x \in Agree(permuteij(p, i, n - 1), n - 1)
      PROVE  x \in Agree(p, n)
  <2>1. x \in OneToOne /\ \A k \in Lane : k >= n - 1 => x[k] = permuteij(p, i, n - 1)[k]
    BY DEF Agree
  <2>2. ASSUME NEW k \in Lane, k >= n PROVE x[k] = p[k]
    <3>1. k >= n - 1 /\ k # i /\ k # n - 1
      BY <1>1, <2>2 DEF Lane
    <3> QED BY <1>1, <2>1, <3>1, Exchange
  <2> QED BY <2>1, <2>2 DEF Agree
<1> QED BY <1>2, <1>3

\* ... into sets that have nothing in common.
LEMMA ChoicesApart ==
  ASSUME NEW p \in OneToOne, NEW n \in 1 .. Size, NEW i \in 0 .. n - 1, NEW j \in 0 .. n - 1,
         i # j
  PROVE  Agree(permuteij(p, i, n - 1), n - 1) \cap Agree(permuteij(p, j, n - 1), n - 1) = {}
<1>1. n - 1 \in Lane /\ n - 1 >= n - 1 /\ i \in Lane /\ j \in Lane
  BY SizeAssumption DEF Lane
<1>2. p[i] # p[j]
  BY <1>1 DEF OneToOne
<1>3. permuteij(p, i, n - 1)[n - 1] = p[i] /\ permuteij(p, j, n - 1)[n - 1] = p[j]
  BY <1>1, Exchange
<1> QED BY <1>1, <1>2, <1>3 DEF Agree

\* Once all but one entry is placed there is no choice left.
LEMMA NoChoice ==
  ASSUME NEW p \in OneToOne
  PROVE  Agree(p, 0) = {p} /\ Agree(p, 1) = {p}
<1>1. p \in Agree(p, 0) /\ p \in Agree(p, 1)
  BY DEF Agree
<1>2. ASSUME NEW x \in Agree(p, 1) PROVE x = p
  <2>1. /\ x \in [Lane -> Lane] /\ p \in [Lane -> Lane]
        /\ \A k, l \in Lane : x[k] = x[l] => k = l
        /\ \A k \in Lane : k >= 1 => x[k] = p[k]
    BY DEF Agree, OneToOne
  <2>2. 0 \in Lane
    BY SizeAssumption DEF Lane
  <2>3. PICK j \in Lane : p[j] = x[0]
    BY <2>1, <2>2, Onto
  <2>4. j = 0
    BY <2>1, <2>2, <2>3 DEF Lane
  <2>5. \A k \in Lane : x[k] = p[k]
    BY <2>1, <2>3, <2>4 DEF Lane
  <2> QED BY <2>1, <2>5
<1>3. Agree(p, 0) \subseteq Agree(p, 1)
  BY DEF Agree, Lane
<1> QED BY <1>1, <1>2, <1>3

-----------------------------------------------------------------------------
(* The nested loops run through every order once.                          *)

\* What one loop makes of the vectors S.
Extended(S, m) == UNION {{permuteij(q, i, m) : i \in 0 .. m} : q \in S}

\* The vectors S lead to the orders of n entries of p when m entries are left.
Lead(p, n, S, m) ==
  /\ S \subseteq OneToOne
  /\ \A x : x \in Agree(p, n) <=> \E q \in S : x \in Agree(q, m)

LEMMA OneLoop ==
  ASSUME NEW p \in OneToOne, NEW n \in 1 .. Size, NEW m \in 1 .. n - 1,
         NEW S, Lead(p, n, S, m + 1)
  PROVE  Lead(p, n, Extended(S, m), m)
<1>1. m \in Lane /\ m + 1 \in 1 .. Size /\ (m + 1) - 1 = m /\ \A i \in 0 .. m : i \in Lane
  BY SizeAssumption DEF Lane
<1>2. S \subseteq OneToOne /\ \A x : x \in Agree(p, n) <=> \E q \in S : x \in Agree(q, m + 1)
  BY DEF Lead
<1>3. \A r : r \in Extended(S, m) <=> \E q \in S : \E i \in 0 .. m : r = permuteij(q, i, m)
  BY DEF Extended
<1>4. Extended(S, m) \subseteq OneToOne
  BY <1>1, <1>2, <1>3, Exchange
<1>5. ASSUME NEW q \in S, NEW x
      PROVE  x \in Agree(q, m + 1) <=> \E i \in 0 .. m : x \in Agree(permuteij(q, i, m), m)
  <2>1. \A y : y \in Agree(q, m + 1) <=> \E i \in 0 .. (m + 1) - 1 :
                 y \in Agree(permuteij(q, i, (m + 1) - 1), (m + 1) - 1)
    BY <1>1, <1>2, SplitByChoice
  <2> QED BY <1>1, <2>1
<1>6. ASSUME NEW x
      PROVE  x \in Agree(p, n) <=> \E r \in Extended(S, m) : x \in Agree(r, m)
  <2>1. ASSUME x \in Agree(p, n) PROVE \E r \in Extended(S, m) : x \in Agree(r, m)
    <3>1. PICK q \in S : x \in Agree(q, m + 1)
      BY <1>2, <2>1
    <3>2. PICK i \in 0 .. m : x \in Agree(permuteij(q, i, m), m)
      BY <1>5, <3>1
    <3> QED BY <1>3, <3>2
  <2>2. ASSUME NEW r \in Extended(S, m), x \in Agree(r, m) PROVE x \in Agree(p, n)
    <3>1. PICK q \in S, i \in 0 .. m : r = permuteij(q, i, m)
      BY <1>3
    <3>2. x \in Agree(q, m + 1)
      BY <1>5, <2>2, <3>1
    <3> QED BY <1>2, <3>2
  <2> QED BY <2>1, <2>2
<1> QED BY <1>4, <1>6 DEF Lead

\* h tells the vectors the loops n - 1 .. n - k make.
Partway(p, n, h, k) ==
  /\ h = [m \in n - k .. n |-> h[m]]
  /\ h[n] = {p}
  /\ \A m \in n - k .. n - 1 : h[m] = Extended(h[m + 1], m)
Possible(p, n, k) == \E h : Partway(p, n, h, k)

LEMMA LoopsAgree ==
  ASSUME NEW p \in OneToOne, NEW n \in 1 .. Size
  PROVE  Loops(p, n) = Agree(p, n)
<1> DEFINE Body(h) == [m \in 1 .. n |-> IF m = n THEN {p} ELSE Extended(h[m + 1], m)]
           F == CHOOSE h : h = Body(h)
           Long == {k \in Nat : k <= n - 1 => Possible(p, n, k)}
<1>1. n \in Nat /\ n >= 1
  OBVIOUS
<1>2. 0 \in Long
  <2> DEFINE t == [m \in n - 0 .. n |-> {p}]
  <2>1. Partway(p, n, t, 0)
    BY <1>1 DEF Partway
  <2> QED BY <2>1 DEF Possible
<1>3. ASSUME NEW k \in Nat, k \in Long
      PROVE  k + 1 \in Long
  <2> SUFFICES ASSUME k + 1 <= n - 1
               PROVE  Possible(p, n, k + 1)
    OBVIOUS
  <2>0. Possible(p, n, k)
    BY <1>1, <1>3
  <2>1. PICK h : Partway(p, n, h, k)
    BY <2>0 DEF Possible
  <2> DEFINE l == n - (k + 1)
             t == [m \in l .. n |-> IF m = l THEN Extended(h[l + 1], l) ELSE h[m]]
  <2>2. l \in Int /\ n - k = l + 1 /\ l < n /\ l + 1 <= n /\ n \in l .. n
    BY <1>1
  <2> HIDE DEF l
  <2>3. t[n] = {p}
    BY <2>1, <2>2 DEF Partway
  <2>4. ASSUME NEW m \in l .. n - 1 PROVE t[m] = Extended(t[m + 1], m)
    <3>1. m \in l .. n /\ m + 1 \in l .. n /\ m + 1 # l /\ t[m + 1] = h[m + 1]
      BY <1>1, <2>2
    <3>2. CASE m = l
      BY <3>1, <3>2
    <3>3. CASE m # l
      <4>1. m \in n - k .. n - 1 /\ t[m] = h[m]
        BY <1>1, <2>2, <3>1, <3>3
      <4> QED BY <2>1, <3>1, <4>1 DEF Partway
    <3> QED BY <3>2, <3>3
  <2>5. t = [m \in l .. n |-> t[m]]
    OBVIOUS
  <2> HIDE DEF t
  <2>6. Partway(p, n, t, k + 1)
    BY <2>3, <2>4, <2>5 DEF l, Partway
  <2> QED BY <2>6 DEF Possible
<1> HIDE DEF Long
<1>4. \A k \in Nat : k \in Long
  BY <1>2, <1>3, NatSetInduction
<1>5. \E h : h = Body(h)
  <2>1. n - 1 \in Long /\ n - (n - 1) = 1
    BY <1>1, <1>4
  <2>2. Possible(p, n, n - 1)
    BY <1>1, <2>1 DEF Long
  <2>3. PICK h : Partway(p, n, h, n - 1)
    BY <2>2 DEF Possible
  <2>4. /\ h = [m \in 1 .. n |-> h[m]]
        /\ h[n] = {p}
        /\ \A m \in 1 .. n - 1 : h[m] = Extended(h[m + 1], m)
    BY <2>1, <2>3 DEF Partway
  <2>5. ASSUME NEW m \in 1 .. n
        PROVE  h[m] = IF m = n THEN {p} ELSE Extended(h[m + 1], m)
    <3>1. CASE m = n
      BY <2>4, <3>1
    <3>2. CASE m # n
      <4>1. m \in 1 .. n - 1
        BY <1>1, <3>2
      <4>2. h[m] = Extended(h[m + 1], m)
        BY <2>4, <4>1
      <4> QED BY <3>2, <4>2
    <3> QED BY <3>1, <3>2
  <2>6. h = Body(h)
    BY <2>4, <2>5
  <2> QED BY <2>6
<1>6. F = Body(F)
  BY <1>5
<1>7. Loops(p, n) = F[1]
  BY DEF Loops, Extended
<1> HIDE DEF F
<1>8. F[n] = {p} /\ \A m \in 1 .. n - 1 : F[m] = Extended(F[m + 1], m)
  <2>1. ASSUME NEW m \in 1 .. n PROVE F[m] = IF m = n THEN {p} ELSE Extended(F[m + 1], m)
    <3>1. Body(F)[m] = IF m = n THEN {p} ELSE Extended(F[m + 1], m)
      OBVIOUS
    <3> HIDE DEF Body
    <3> QED BY <1>6, <3>1
  <2> HIDE DEF Body
  <2>2. F[n] = {p}
    BY <1>1, <2>1
  <2>3. ASSUME NEW m \in 1 .. n - 1 PROVE F[m] = Extended(F[m + 1], m)
    <3>1. m \in 1 .. n /\ m # n
      BY <1>1
    <3>2. F[m] = IF m = n THEN {p} ELSE Extended(F[m + 1], m)
      BY <2>1, <3>1
    <3> QED BY <3>1, <3>2
  <2> QED BY <2>2, <2>3
<1> DEFINE Right == {k \in Nat : k <= n - 1 => Lead(p, n, F[n - k], n - k)}
<1>9. 0 \in Right
  BY <1>1, <1>8 DEF Lead
<1>10. ASSUME NEW k \in Nat, k \in Right
       PROVE  k + 1 \in Right
  <2> SUFFICES ASSUME k + 1 <= n - 1 PROVE Lead(p, n, F[n - (k + 1)], n - (k + 1))
    OBVIOUS
  <2>1. n - (k + 1) \in 1 .. n - 1 /\ (n - (k + 1)) + 1 = n - k
    BY <1>1
  <2>2. Lead(p, n, F[n - k], n - k)
    BY <1>1, <1>10
  <2> QED BY <1>8, <2>1, <2>2, OneLoop
<1> HIDE DEF Right
<1>11. n - 1 \in Right
  <2>1. \A k \in Nat : k \in Right
    BY <1>9, <1>10, NatSetInduction
  <2> QED BY <1>1, <2>1
<1>12. n - (n - 1) = 1 /\ n - 1 <= n - 1
  BY <1>1
<1>13. Lead(p, n, F[1], 1)
  BY <1>11, <1>12 DEF Right
<1>14. ASSUME NEW x PROVE x \in Agree(p, n) <=> x \in F[1]
  <2>1. x \in Agree(p, n) <=> \E q \in F[1] : x \in Agree(q, 1)
    BY <1>13 DEF Lead
  <2>2. \A q \in F[1] : Agree(q, 1) = {q}
    BY <1>13, NoChoice DEF Lead
  <2> QED BY <2>1, <2>2
<1> QED BY <1>7, <1>14

-----------------------------------------------------------------------------
(* Counts.                                                                 *)

LEMMA VectorsFinite == IsFiniteSet(OneToOne)
<1> DEFINE graph == [p \in OneToOne |-> {<<i, p[i]>> : i \in Lane}]
<1>1. IsFiniteSet(Lane)
  BY FS_Interval, SizeAssumption DEF Lane
<1>2. IsFiniteSet(SUBSET (Lane \X Lane))
  BY <1>1, FS_Product, FS_SUBSET
<1>3. graph \in [OneToOne -> SUBSET (Lane \X Lane)]
  BY DEF OneToOne
<1>4. ASSUME NEW p \in OneToOne, NEW q \in OneToOne, graph[p] = graph[q]
      PROVE  p = q
  <2>1. p \in [Lane -> Lane] /\ q \in [Lane -> Lane]
    BY DEF OneToOne
  <2>2. ASSUME NEW i \in Lane PROVE p[i] = q[i]
    <3>1. <<i, p[i]>> \in {<<j, q[j]>> : j \in Lane}
      BY <1>4
    <3> QED BY <3>1
  <2> QED BY <2>1, <2>2
<1> HIDE DEF graph
<1>5. graph \in Injection(OneToOne, SUBSET (Lane \X Lane))
  BY <1>3, <1>4 DEF Injection, IsInjective
<1> QED BY <1>2, <1>5, FS_Injection

\* Those of S that have d descents.
With(S, d) == {q \in S : perm_nb_descents(q) = d}

LEMMA CountedFacts ==
  ASSUME NEW S \in SUBSET OneToOne
  PROVE  /\ Counted(S) \in [Lane -> Nat]
         /\ \A d \in Lane : /\ IsFiniteSet(With(S, d))
                            /\ Counted(S)[d] = Cardinality(With(S, d))
<1>1. Counted(S) = [d \in Lane |-> Cardinality(With(S, d))]
  BY DEF Counted, With
<1>2. ASSUME NEW d \in Lane
      PROVE  IsFiniteSet(With(S, d)) /\ Cardinality(With(S, d)) \in Nat
  <2>1. With(S, d) \in SUBSET OneToOne
    BY DEF With
  <2>2. IsFiniteSet(With(S, d))
    BY <2>1, VectorsFinite, FS_Subset
  <2> QED BY <2>2, FS_CardinalityType
<1> QED BY <1>1, <1>2

\* Counts of sets that have nothing in common add up.
LEMMA CountedUnion ==
  ASSUME NEW S \in SUBSET OneToOne, NEW T \in SUBSET OneToOne, S \cap T = {},
         NEW d \in Lane
  PROVE  Counted(S \cup T)[d] = Counted(S)[d] + Counted(T)[d]
<1>1. S \cup T \in SUBSET OneToOne
  OBVIOUS
<1>2. /\ IsFiniteSet(With(S, d)) /\ Counted(S)[d] = Cardinality(With(S, d))
      /\ IsFiniteSet(With(T, d)) /\ Counted(T)[d] = Cardinality(With(T, d))
      /\ Counted(S \cup T)[d] = Cardinality(With(S \cup T, d))
  BY <1>1, CountedFacts
<1>3. With(S \cup T, d) = With(S, d) \cup With(T, d) /\ With(S, d) \cap With(T, d) = {}
  BY DEF With
<1>4. Cardinality(With(S, d) \cup With(T, d))
        = Cardinality(With(S, d)) + Cardinality(With(T, d)) - Cardinality(With(S, d) \cap With(T, d))
  BY <1>2, FS_Union
<1>5. Cardinality(With(S, d) \cap With(T, d)) = 0
  BY <1>3, FS_EmptySet
<1>6. Cardinality(With(S, d)) \in Nat /\ Cardinality(With(T, d)) \in Nat
  BY <1>2, FS_CardinalityType
<1>7. Counted(S \cup T)[d] = Cardinality(With(S, d) \cup With(T, d))
  BY <1>2, <1>3
<1> QED BY <1>2, <1>4, <1>5, <1>6, <1>7

LEMMA CountedEmpty == Counted({}) = NoCounts
<1>1. \A d \in Lane : Counted({})[d] = Cardinality(With({}, d))
  BY DEF Counted, With
<1>2. \A d \in Lane : With({}, d) = {}
  BY DEF With
<1>3. \A d \in Lane : Counted({})[d] = 0
  BY <1>1, <1>2, FS_EmptySet
<1>4. Counted({}) = [d \in Lane |-> Counted({})[d]]
  BY DEF Counted
<1> QED BY <1>3, <1>4 DEF NoCounts

-----------------------------------------------------------------------------
(* Sums.                                                                   *)

Without(t, f) == [e \in DOMAIN t \ {f} |-> t[e]]
Block(t, f)   == {<<f, n>> : n \in 1 .. t[f]}
Blocks(t)     == UNION {Block(t, f) : f \in DOMAIN t}
Summable(t)   == IsFiniteSet(DOMAIN t) /\ \A f \in DOMAIN t : t[f] \in Nat

LEMMA TotalBlocks == ASSUME NEW t PROVE Total(t) = Cardinality(Blocks(t))
BY DEF Total, Blocks, Block

LEMMA BlockSize ==
  ASSUME NEW t, NEW f, t[f] \in Nat
  PROVE  IsFiniteSet(Block(t, f)) /\ Cardinality(Block(t, f)) = t[f]
<1> DEFINE pair == [n \in 1 .. t[f] |-> <<f, n>>]
<1>1. pair \in Injection(1 .. t[f], Block(t, f)) /\ pair \in Surjection(1 .. t[f], Block(t, f))
  BY DEF Block, Injection, IsInjective, Surjection
<1>2. ExistsBijection(1 .. t[f], Block(t, f))
  BY <1>1 DEF ExistsBijection, Bijection
<1>3. IsFiniteSet(1 .. t[f]) /\ Cardinality(1 .. t[f]) = t[f]
  <2>1. 1 \in Int /\ t[f] \in Int
    OBVIOUS
  <2>2. Cardinality(1 .. t[f]) = IF 1 > t[f] THEN 0 ELSE t[f] - 1 + 1
    BY <2>1, FS_Interval
  <2>3. IsFiniteSet(1 .. t[f])
    BY <2>1, FS_Interval
  <2> QED BY <2>2, <2>3
<1> QED BY <1>2, <1>3, FS_Bijection

LEMMA BlocksFinite ==
  ASSUME NEW t, Summable(t)
  PROVE  IsFiniteSet(Blocks(t)) /\ Total(t) \in Nat
<1> DEFINE S == {Block(t, f) : f \in DOMAIN t}
           h == [f \in DOMAIN t |-> Block(t, f)]
<1>1. h \in Surjection(DOMAIN t, S)
  BY DEF Surjection
<1>2. IsFiniteSet(S)
  BY <1>1, FS_Surjection DEF Summable
<1>3. \A T \in S : IsFiniteSet(T)
  BY BlockSize DEF Summable
<1>4. IsFiniteSet(Blocks(t))
  BY <1>2, <1>3, FS_UNION DEF Blocks
<1> QED BY <1>4, FS_CardinalityType, TotalBlocks

\* A sum is a term and the sum of the others.
LEMMA TotalSplit ==
  ASSUME NEW t, Summable(t), NEW f \in DOMAIN t
  PROVE  /\ Summable(Without(t, f))
         /\ Total(Without(t, f)) \in Nat
         /\ Total(t) = t[f] + Total(Without(t, f))
<1> DEFINE h == Without(t, f)
<1>1. DOMAIN h = DOMAIN t \ {f} /\ \A e \in DOMAIN h : h[e] = t[e]
  BY DEF Without
<1>2. Summable(h)
  BY <1>1, FS_RemoveElement DEF Summable
<1> HIDE DEF h
<1>3. IsFiniteSet(Blocks(h)) /\ Total(h) \in Nat /\ Total(h) = Cardinality(Blocks(h))
  BY <1>2, BlocksFinite, TotalBlocks
<1>4. IsFiniteSet(Block(t, f)) /\ Cardinality(Block(t, f)) = t[f] /\ t[f] \in Nat
  BY BlockSize DEF Summable
<1>5. \A e \in DOMAIN h : Block(h, e) = Block(t, e)
  BY <1>1 DEF Block
<1>6. Blocks(t) = Block(t, f) \cup Blocks(h)
  <2>1. \A x : x \in Blocks(t) <=> \E e \in DOMAIN t : x \in Block(t, e)
    BY DEF Blocks
  <2>2. \A x : x \in Blocks(h) <=> \E e \in DOMAIN h : x \in Block(h, e)
    BY DEF Blocks
  <2> QED BY <1>1, <1>5, <2>1, <2>2
<1>7. Block(t, f) \cap Blocks(h) = {}
  <2>1. \A x \in Block(t, f) : x[1] = f
    BY DEF Block
  <2>2. ASSUME NEW x \in Blocks(h) PROVE x[1] # f
    <3>1. PICK e \in DOMAIN h : x \in Block(h, e)
      BY DEF Blocks
    <3>2. x[1] = e
      BY <3>1 DEF Block
    <3> QED BY <1>1, <3>2
  <2> QED BY <2>1, <2>2
<1>8. Cardinality(Block(t, f) \cup Blocks(h))
        = Cardinality(Block(t, f)) + Cardinality(Blocks(h))
            - Cardinality(Block(t, f) \cap Blocks(h))
  BY <1>3, <1>4, FS_Union
<1>9. Cardinality(Block(t, f) \cap Blocks(h)) = 0
  BY <1>7, FS_EmptySet
<1>10. Total(t) = Cardinality(Block(t, f) \cup Blocks(h))
  BY <1>6, TotalBlocks
<1>11. Total(t) = t[f] + Total(h)
  BY <1>3, <1>4, <1>8, <1>9, <1>10
<1> QED BY <1>2, <1>3, <1>11 DEF h

LEMMA TotalEmpty ==
  ASSUME NEW t, DOMAIN t = {}
  PROVE  Total(t) = 0
<1>1. Blocks(t) = {}
  BY DEF Blocks
<1> QED BY <1>1, TotalBlocks, FS_EmptySet

-----------------------------------------------------------------------------
(* What is still to come from a strand.                                    *)

LEMMA CallFacts ==
  ASSUME call \in Calls
  PROVE  /\ call[1] \in {"allperm", "allperm_derec"}
         /\ call[2] \in 0 .. Size
         /\ Cut \in 1 .. Size
BY CallsAssumption DEF Cut

LEMMA OrdersFacts ==
  ASSUME call \in Calls, NEW p \in OneToOne, NEW n \in 0 .. Size
  PROVE  /\ Orders(p, n) = IF call[1] # "allperm" /\ n < Cut THEN {} ELSE Agree(p, n)
         /\ Orders(p, n) \subseteq Agree(p, n)
<1>1. CASE call[1] # "allperm" /\ n < Cut
  <2>1. Wanted(n) = {}
    BY <1>1 DEF Wanted
  <2> QED BY <1>1, <2>1 DEF Orders
<1>2. CASE ~(call[1] # "allperm" /\ n < Cut)
  <2>1. Wanted(n) = PermsOf[n]
    BY <1>2 DEF Wanted
  <2>2. Orders(p, n) = {Permuted(p, q) : q \in PermsOf[n]}
    BY <2>1 DEF Orders
  <2> QED BY <1>2, <2>2, OrdersAgree
<1> QED BY <1>1, <1>2

\* What the choices i .. n - 1 of entry n - 1 have to come.
Rest(p, n, i) == UNION {Orders(permuteij(p, k, n - 1), n - 1) : k \in i .. n - 1}

LEMMA RestFacts ==
  ASSUME call \in Calls, NEW p \in OneToOne, NEW n \in 0 .. Size, NEW i \in 0 .. n
  PROVE  /\ Rest(p, n, i) \in SUBSET OneToOne
         /\ i = n => Rest(p, n, i) = {}
         /\ i < n => LET q == permuteij(p, i, n - 1)
                     IN  /\ q \in OneToOne
                         /\ Orders(q, n - 1) \in SUBSET OneToOne
                         /\ Rest(p, n, i) = Orders(q, n - 1) \cup Rest(p, n, i + 1)
                         /\ Orders(q, n - 1) \cap Rest(p, n, i + 1) = {}
<1> DEFINE Q(k) == permuteij(p, k, n - 1)
<1>1. n \in Nat /\ i \in Nat
  OBVIOUS
<1>2. ASSUME NEW l \in Nat
      PROVE  \A x : x \in Rest(p, n, l) <=> \E k \in l .. n - 1 : x \in Orders(Q(k), n - 1)
  BY DEF Rest
<1>3. ASSUME NEW k \in 0 .. n - 1
      PROVE  /\ Q(k) \in OneToOne
             /\ Orders(Q(k), n - 1) \subseteq Agree(Q(k), n - 1)
             /\ Orders(Q(k), n - 1) \in SUBSET OneToOne
  <2>1. k \in Lane /\ n - 1 \in Lane /\ n - 1 \in 0 .. Size
    BY <1>1, SizeAssumption DEF Lane
  <2>2. Q(k) \in OneToOne
    BY <2>1, Exchange
  <2> HIDE DEF Q
  <2> QED BY <2>1, <2>2, OrdersFacts DEF Agree
<1>4. ASSUME NEW k \in 0 .. n - 1, NEW l \in 0 .. n - 1, k # l
      PROVE  Orders(Q(k), n - 1) \cap Orders(Q(l), n - 1) = {}
  <2>1. n \in 1 .. Size
    BY <1>1, <1>4
  <2>2. Agree(Q(k), n - 1) \cap Agree(Q(l), n - 1) = {}
    BY <1>4, <2>1, ChoicesApart
  <2> HIDE DEF Q
  <2> QED BY <1>3, <2>2
<1> HIDE DEF Q
<1>5. Rest(p, n, i) \in SUBSET OneToOne
  <2>1. i .. n - 1 \subseteq 0 .. n - 1
    BY <1>1
  <2> QED BY <1>1, <1>2, <1>3, <2>1
<1>6. ASSUME i = n PROVE Rest(p, n, i) = {}
  <2>1. i .. n - 1 = {}
    BY <1>1, <1>6
  <2> QED BY <1>1, <1>2, <2>1
<1>7. ASSUME i < n
      PROVE  /\ Rest(p, n, i) = Orders(Q(i), n - 1) \cup Rest(p, n, i + 1)
             /\ Orders(Q(i), n - 1) \cap Rest(p, n, i + 1) = {}
  <2>1. \A k : k \in i .. n - 1 <=> k = i \/ k \in i + 1 .. n - 1
    BY <1>1, <1>7
  <2>2. i \in 0 .. n - 1 /\ i + 1 \in Nat /\ \A k \in i + 1 .. n - 1 : k \in 0 .. n - 1 /\ k # i
    BY <1>1, <1>7
  <2>3. Rest(p, n, i) = Orders(Q(i), n - 1) \cup Rest(p, n, i + 1)
    BY <1>1, <1>2, <2>1, <2>2
  <2>4. Orders(Q(i), n - 1) \cap Rest(p, n, i + 1) = {}
    BY <1>2, <1>4, <2>2
  <2> QED BY <2>3, <2>4
<1>8. i < n => Q(i) \in OneToOne /\ Orders(Q(i), n - 1) \in SUBSET OneToOne
  <2>1. i < n => i \in 0 .. n - 1
    BY <1>1
  <2> QED BY <1>3, <2>1
<1> QED BY <1>5, <1>6, <1>7, <1>8 DEF Q

\* A strand that has not spawned yet has all the orders of its entries to come.
LEMMA RestOfAll ==
  ASSUME call \in Calls, NEW p \in OneToOne, NEW n \in 0 .. Size,
         n # IF call[1] = "allperm" THEN 0 ELSE Cut
  PROVE  Rest(p, n, 0) = Orders(p, n)
<1>1. /\ call[1] \in {"allperm", "allperm_derec"} /\ Cut \in 1 .. Size /\ n \in Nat
      /\ Cut \in Nat /\ Cut >= 1
  BY CallFacts
<1>2. \A x : x \in Rest(p, n, 0) <=> \E k \in 0 .. n - 1 : x \in Orders(permuteij(p, k, n - 1), n - 1)
  BY DEF Rest
<1>3. ASSUME NEW k \in 0 .. n - 1
      PROVE  Orders(permuteij(p, k, n - 1), n - 1)
               = IF call[1] # "allperm" /\ n - 1 < Cut THEN {} ELSE Agree(permuteij(p, k, n - 1), n - 1)
  <2>1. k \in Lane /\ n - 1 \in Lane /\ n - 1 \in 0 .. Size
    BY <1>1, SizeAssumption DEF Lane
  <2> QED BY <2>1, Exchange, OrdersFacts
<1>4. Orders(p, n) = IF call[1] # "allperm" /\ n < Cut THEN {} ELSE Agree(p, n)
  BY OrdersFacts
<1>5. CASE call[1] # "allperm" /\ n < Cut
  <2>1. n - 1 < Cut
    BY <1>1, <1>5
  <2>2. \A k \in 0 .. n - 1 : Orders(permuteij(p, k, n - 1), n - 1) = {}
    BY <1>3, <1>5, <2>1
  <2> QED BY <1>2, <1>4, <1>5, <2>2
<1>6. CASE ~(call[1] # "allperm" /\ n < Cut)
  <2>1. n \in 1 .. Size /\ ~(call[1] # "allperm" /\ n - 1 < Cut)
    BY <1>1, <1>6
  <2>2. \A k \in 0 .. n - 1 :
          Orders(permuteij(p, k, n - 1), n - 1) = Agree(permuteij(p, k, n - 1), n - 1)
    BY <1>3, <2>1
  <2>3. \A x : x \in Agree(p, n) <=> \E k \in 0 .. n - 1 : x \in Agree(permuteij(p, k, n - 1), n - 1)
    BY <2>1, SplitByChoice
  <2>4. Orders(p, n) = Agree(p, n)
    BY <1>4, <1>6
  <2> QED BY <1>2, <2>2, <2>3, <2>4
<1> QED BY <1>5, <1>6

Strands == [p : OneToOne, n : 0 .. Size, i : 0 .. Size, view : [Lane -> Nat]]
Fit(fr) == /\ fr \in Strands
           /\ fr.i <= fr.n
           /\ IsLeaf(fr) => fr.view = NoCounts

LEMMA ToComeLeaf ==
  ASSUME call \in Calls, NEW fr, Fit(fr), IsLeaf(fr)
  PROVE  LeafCounts(fr) = ToCome(fr)
<1>1. fr.p \in OneToOne /\ fr.n \in 0 .. Size
  BY DEF Fit, Strands
<1>2. /\ call[1] \in {"allperm", "allperm_derec"} /\ Cut \in 1 .. Size
      /\ fr.n = IF call[1] = "allperm" THEN 0 ELSE Cut
  BY CallFacts DEF IsLeaf
<1>3. ~(call[1] # "allperm" /\ fr.n < Cut)
  BY <1>2
<1>4. Orders(fr.p, fr.n) = Agree(fr.p, fr.n)
  BY <1>1, <1>3, OrdersFacts
<1>5. ToCome(fr) = Counted(Agree(fr.p, fr.n))
  BY <1>4 DEF ToCome
<1>6. CASE fr.n = 0
  <2>1. Agree(fr.p, fr.n) = {fr.p}
    BY <1>1, <1>6, NoChoice
  <2> QED BY <1>5, <1>6, <2>1 DEF LeafCounts
<1>7. CASE fr.n # 0
  <2>1. fr.n \in 1 .. Size
    BY <1>1, <1>7
  <2>2. Loops(fr.p, fr.n) = Agree(fr.p, fr.n)
    BY <1>1, <2>1, LoopsAgree
  <2> QED BY <1>5, <1>7, <2>2 DEF LeafCounts, allperm_iter
<1> QED BY <1>6, <1>7

LEMMA ToComeInner ==
  ASSUME NEW fr, ~IsLeaf(fr)
  PROVE  ToCome(fr) = Counted(Rest(fr.p, fr.n, fr.i))
BY DEF ToCome, Rest

\* A new strand.
LEMMA ToComeStart ==
  ASSUME call \in Calls, NEW p \in OneToOne, NEW n \in 0 .. Size
  PROVE  /\ Fit(Strand(p, n))
         /\ ToCome(Strand(p, n)) = Counted(Orders(p, n))
<1> DEFINE fr == Strand(p, n)
<1>1. fr.p = p /\ fr.n = n /\ fr.i = 0 /\ fr.view = NoCounts /\ fr \in Strands
  BY SizeAssumption DEF Strand, Strands, NoCounts
<1> HIDE DEF fr
<1>2. Fit(fr)
  BY <1>1 DEF Fit
<1>3. ASSUME IsLeaf(fr) PROVE ToCome(fr) = Counted(Orders(p, n))
  BY <1>1, <1>3 DEF ToCome
<1>4. ASSUME ~IsLeaf(fr) PROVE ToCome(fr) = Counted(Orders(p, n))
  <2>1. n # IF call[1] = "allperm" THEN 0 ELSE Cut
    BY <1>1, <1>4 DEF IsLeaf
  <2>2. ToCome(fr) = Counted(Rest(p, n, 0))
    BY <1>1, <1>4, ToComeInner
  <2> QED BY <2>1, <2>2, RestOfAll
<1>5. ToCome(fr) = Counted(Orders(p, n))
  BY <1>3, <1>4
<1> QED BY <1>2, <1>5 DEF fr

LEMMA ToComeType ==
  ASSUME call \in Calls, NEW fr, Fit(fr)
  PROVE  ToCome(fr) \in [Lane -> Nat]
<1>1. fr.p \in OneToOne /\ fr.n \in 0 .. Size /\ fr.i \in 0 .. fr.n
  BY DEF Fit, Strands
<1>2. CASE IsLeaf(fr)
  <2>1. Orders(fr.p, fr.n) \in SUBSET OneToOne
    BY <1>1, OrdersFacts DEF Agree
  <2>2. Counted(Orders(fr.p, fr.n)) \in [Lane -> Nat]
    BY <2>1, CountedFacts
  <2> QED BY <1>2, <2>2 DEF ToCome
<1>3. CASE ~IsLeaf(fr)
  <2>1. Rest(fr.p, fr.n, fr.i) \in SUBSET OneToOne
    BY <1>1, RestFacts
  <2>2. Counted(Rest(fr.p, fr.n, fr.i)) \in [Lane -> Nat]
    BY <2>1, CountedFacts
  <2> QED BY <1>3, <2>2, ToComeInner
<1> QED BY <1>2, <1>3

\* A strand that has made all its choices has nothing to come.
LEMMA ToComeEnd ==
  ASSUME call \in Calls, NEW fr, Fit(fr), ~IsLeaf(fr), fr.i = fr.n
  PROVE  ToCome(fr) = NoCounts
<1>1. fr.p \in OneToOne /\ fr.n \in 0 .. Size /\ fr.i \in 0 .. fr.n
  BY DEF Fit, Strands
<1>2. Rest(fr.p, fr.n, fr.i) = {}
  BY <1>1, RestFacts
<1> QED BY <1>2, ToComeInner, CountedEmpty

\* Spawning splits what is to come between the new strand and the old one.
LEMMA ToComeSpawn ==
  ASSUME call \in Calls, NEW fr, Fit(fr), ~IsLeaf(fr), fr.i < fr.n
  PROVE  LET new == Strand(permuteij(fr.p, fr.i, fr.n - 1), fr.n - 1)
             old == [fr EXCEPT !.i = @ + 1]
         IN  /\ Fit(new) /\ new.view = NoCounts
             /\ Fit(old) /\ old.view = fr.view /\ ~IsLeaf(old) /\ old.i = fr.i + 1
             /\ \A d \in Lane : ToCome(fr)[d] = ToCome(new)[d] + ToCome(old)[d]
<1> DEFINE q   == permuteij(fr.p, fr.i, fr.n - 1)
           new == Strand(q, fr.n - 1)
           old == [fr EXCEPT !.i = @ + 1]
<1>1. fr.p \in OneToOne /\ fr.n \in 0 .. Size /\ fr.i \in 0 .. fr.n /\ fr.n \in Nat /\ fr.i \in Nat
  BY DEF Fit, Strands
<1>2. /\ q \in OneToOne
      /\ Orders(q, fr.n - 1) \in SUBSET OneToOne
      /\ Rest(fr.p, fr.n, fr.i) = Orders(q, fr.n - 1) \cup Rest(fr.p, fr.n, fr.i + 1)
      /\ Orders(q, fr.n - 1) \cap Rest(fr.p, fr.n, fr.i + 1) = {}
  BY <1>1, RestFacts
<1>3. fr.n - 1 \in 0 .. Size /\ fr.i + 1 \in 0 .. fr.n /\ fr.i + 1 <= fr.n /\ fr.i + 1 \in 0 .. Size
  BY <1>1, SizeAssumption
<1> HIDE DEF q
<1>4. new.view = NoCounts
  BY DEF Strand
<1>5. Fit(new) /\ ToCome(new) = Counted(Orders(q, fr.n - 1))
  BY <1>2, <1>3, ToComeStart
<1>6. /\ old \in Strands /\ old.p = fr.p /\ old.n = fr.n /\ old.i = fr.i + 1
      /\ old.view = fr.view
  BY <1>3 DEF Fit, Strands
<1> HIDE DEF old, new
<1>7. ~IsLeaf(old)
  BY <1>6 DEF IsLeaf
<1>8. Fit(old)
  BY <1>3, <1>6, <1>7 DEF Fit
<1>9. ToCome(old) = Counted(Rest(fr.p, fr.n, fr.i + 1))
  BY <1>6, <1>7, ToComeInner
<1>10. Rest(fr.p, fr.n, fr.i + 1) \in SUBSET OneToOne
  BY <1>1, <1>3, RestFacts
<1>11. ASSUME NEW d \in Lane PROVE ToCome(fr)[d] = ToCome(new)[d] + ToCome(old)[d]
  <2>1. Counted(Orders(q, fr.n - 1) \cup Rest(fr.p, fr.n, fr.i + 1))[d]
          = Counted(Orders(q, fr.n - 1))[d] + Counted(Rest(fr.p, fr.n, fr.i + 1))[d]
    BY <1>2, <1>10, CountedUnion
  <2>2. ToCome(fr) = Counted(Orders(q, fr.n - 1) \cup Rest(fr.p, fr.n, fr.i + 1))
    BY <1>2, ToComeInner
  <2> QED BY <1>5, <1>9, <2>1, <2>2
<1> QED BY <1>4, <1>5, <1>6, <1>7, <1>8, <1>11 DEF old, new, q

-----------------------------------------------------------------------------
(* The inductive invariant: every strand is fit, and a strand other than   *)
(* the first is one that its parent, still alive, has spawned.             *)

Parent(f) == SubSeq(f, 1, Len(f) - 1)

FramesOK == /\ IsFiniteSet(DOMAIN frames)
            /\ DOMAIN frames \subseteq Seq(Nat)
            /\ \A f \in DOMAIN frames : Fit(frames[f])
Spawned(c) == /\ Parent(c) \in DOMAIN frames
              /\ ~IsLeaf(frames[Parent(c)])
              /\ c[Len(c)] < frames[Parent(c)].i
TreeOK   == \A c \in DOMAIN frames : c # <<>> => Spawned(c)

IInv == /\ call \in Calls
        /\ res \in [Lane -> Nat]
        /\ done \in BOOLEAN
        /\ FramesOK
        /\ TreeOK
        /\ done => DOMAIN frames = {}
        /\ NothingLost

\* Two terms put together.
LEMMA TotalMove ==
  ASSUME NEW t, Summable(t), NEW h, Summable(h), h = [e \in DOMAIN h |-> h[e]],
         NEW f \in DOMAIN t, NEW p \in DOMAIN t, p # f,
         DOMAIN h = DOMAIN t \ {f}, h[p] = t[p] + t[f],
         \A e \in DOMAIN h : e # p => h[e] = t[e]
  PROVE  Total(h) = Total(t)
<1> DEFINE a == Without(t, f)
           b == Without(a, p)
<1>1. DOMAIN a = DOMAIN h /\ p \in DOMAIN a /\ p \in DOMAIN h /\ a[p] = t[p]
  BY DEF Without
<1>2. Summable(a) /\ Total(a) \in Nat /\ Total(t) = t[f] + Total(a)
  BY TotalSplit
<1>3. Total(b) \in Nat /\ Total(a) = a[p] + Total(b)
  <2> HIDE DEF a
  <2> QED BY <1>1, <1>2, TotalSplit
<1>4. b = Without(h, p)
  BY DEF Without
<1> HIDE DEF a, b
<1>5. Total(h) = h[p] + Total(b)
  BY <1>1, <1>4, TotalSplit
<1>6. t[f] \in Nat /\ t[p] \in Nat
  BY DEF Summable
<1> QED BY <1>1, <1>2, <1>3, <1>5, <1>6

\* A term taken away.
LEMMA TotalDrop ==
  ASSUME NEW t, Summable(t), NEW h, h = [e \in DOMAIN h |-> h[e]],
         NEW f \in DOMAIN t, DOMAIN h = DOMAIN t \ {f},
         \A e \in DOMAIN h : h[e] = t[e]
  PROVE  Total(t) = t[f] + Total(h) /\ Total(h) \in Nat
<1>1. h = Without(t, f)
  BY DEF Without
<1> QED BY <1>1, TotalSplit

OwedRight ==
  \A d \in Lane :
    /\ Summable(Owed(d))
    /\ DOMAIN Owed(d) = DOMAIN frames
    /\ Owed(d) = [f \in DOMAIN frames |-> Owed(d)[f]]
    /\ \A f \in DOMAIN frames : /\ Owed(d)[f] = frames[f].view[d] + ToCome(frames[f])[d]
                                /\ frames[f].view[d] \in Nat
                                /\ ToCome(frames[f])[d] \in Nat

LEMMA OwedFacts == call \in Calls /\ FramesOK => OwedRight
<1> SUFFICES ASSUME call \in Calls, FramesOK, NEW d \in Lane
             PROVE  /\ Summable(Owed(d))
                    /\ DOMAIN Owed(d) = DOMAIN frames
                    /\ Owed(d) = [f \in DOMAIN frames |-> Owed(d)[f]]
                    /\ \A f \in DOMAIN frames :
                         /\ Owed(d)[f] = frames[f].view[d] + ToCome(frames[f])[d]
                         /\ frames[f].view[d] \in Nat
                         /\ ToCome(frames[f])[d] \in Nat
  BY DEF OwedRight
<1>1. DOMAIN Owed(d) = DOMAIN frames /\ Owed(d) = [f \in DOMAIN frames |-> Owed(d)[f]]
  BY DEF Owed
<1>2. ASSUME NEW f \in DOMAIN frames
      PROVE  /\ Owed(d)[f] = frames[f].view[d] + ToCome(frames[f])[d]
             /\ frames[f].view[d] \in Nat
             /\ ToCome(frames[f])[d] \in Nat
  <2>1. ToCome(frames[f]) \in [Lane -> Nat]
    BY ToComeType DEF FramesOK
  <2>2. frames[f].view \in [Lane -> Nat]
    BY DEF FramesOK, Fit, Strands
  <2> QED BY <2>1, <2>2 DEF Owed
<1>3. Summable(Owed(d))
  BY <1>1, <1>2 DEF Summable, FramesOK
<1> QED BY <1>1, <1>2, <1>3

LEMMA SameCall ==
  ASSUME call' = call
  PROVE  /\ \A n : Wanted(n)' = Wanted(n)
         /\ \A f : /\ IsLeaf(frames[f])' <=> IsLeaf(frames'[f])
                   /\ ToCome(frames[f])' = ToCome(frames'[f])
                   /\ Fit(frames[f])' <=> Fit(frames'[f])
<1>1. ASSUME NEW n PROVE Wanted(n)' = Wanted(n)
  BY DEF Wanted, Cut, PermsOf
<1>2. ASSUME NEW f
      PROVE  /\ IsLeaf(frames[f])' <=> IsLeaf(frames'[f])
             /\ ToCome(frames[f])' = ToCome(frames'[f])
             /\ Fit(frames[f])' <=> Fit(frames'[f])
  <2>1. IsLeaf(frames[f])' <=> IsLeaf(frames'[f])
    BY DEF IsLeaf, Cut
  <2>2. ToCome(frames[f])' = ToCome(frames'[f])
    BY <2>1, <1>1 DEF ToCome, Orders
  <2>3. Fit(frames[f])' <=> Fit(frames'[f])
    BY <2>1 DEF Fit
  <2> QED BY <2>1, <2>2, <2>3
<1> QED BY <1>1, <1>2

LEMMA AppendedName ==
  ASSUME NEW f \in Seq(Nat), NEW i \in Nat, NEW c, c = Append(f, i)
  PROVE  /\ c \in Seq(Nat) /\ c # <<>> /\ c # f
         /\ Len(c) = Len(f) + 1
         /\ c[Len(c)] = i
         /\ Parent(c) = f
<1>1. /\ c \in Seq(Nat) /\ Len(c) = Len(f) + 1 /\ Len(f) \in Nat
      /\ \A j \in 1 .. Len(f) : c[j] = f[j]
      /\ c[Len(c)] = i
  BY AppendProperties, LenProperties
<1>2. SubSeq(c, 1, Len(f)) \in Seq(Nat) /\ Len(SubSeq(c, 1, Len(f))) = Len(f)
      /\ \A j \in 1 .. Len(f) : SubSeq(c, 1, Len(f))[j] = c[j]
  BY <1>1, SubSeqProperties
<1>3. SubSeq(c, 1, Len(f)) = f
  BY <1>1, <1>2, SeqEqual
<1>4. Len(c) - 1 = Len(f) /\ Len(c) # Len(f) /\ Len(c) # 0
  BY <1>1
<1>5. Len(<<>>) = 0
  OBVIOUS
<1> QED BY <1>1, <1>3, <1>4, <1>5 DEF Parent

LEMMA ParentName ==
  ASSUME NEW c \in Seq(Nat), c # <<>>
  PROVE  Len(c) \in Nat /\ Len(c) >= 1 /\ Len(Parent(c)) = Len(c) - 1
<1>1. Len(c) \in Nat /\ Len(c) # 0
  BY LenProperties, EmptySeq
<1> DEFINE l == Len(c) - 1
<1>2. 1 \in 1 .. Len(c) + 1 /\ l \in 1 - 1 .. Len(c) /\ l - 1 + 1 = l
  BY <1>1
<1> HIDE DEF l
<1>3. Len(SubSeq(c, 1, l)) = IF 1 <= l THEN l - 1 + 1 ELSE 0
  BY <1>2, SubSeqProperties
<1>4. Len(SubSeq(c, 1, l)) = l
  BY <1>1, <1>2, <1>3 DEF l
<1> QED BY <1>1, <1>4 DEF Parent, l

\* A child is a strand whose parent is f.
LEMMA ChildrenName ==
  ASSUME FramesOK, NEW f \in DOMAIN frames
  PROVE  \A c \in DOMAIN frames : c \in Children(f) <=> c # <<>> /\ Parent(c) = f
<1> SUFFICES ASSUME NEW c \in DOMAIN frames
             PROVE  c \in Children(f) <=> c # <<>> /\ Parent(c) = f
  OBVIOUS
<1>1. c \in Seq(Nat) /\ f \in Seq(Nat) /\ Len(f) \in Nat
  BY LenProperties DEF FramesOK
<1>2. c \in Children(f) <=> Len(c) = Len(f) + 1 /\ SubSeq(c, 1, Len(f)) = f
  BY DEF Children
<1>3. CASE c = <<>>
  BY <1>1, <1>2, <1>3
<1>4. CASE c # <<>>
  <2>1. Len(c) \in Nat /\ Len(c) >= 1 /\ Len(Parent(c)) = Len(c) - 1
    BY <1>1, <1>4, ParentName
  <2>2. Parent(c) = f => Len(c) = Len(f) + 1
    BY <1>1, <2>1
  <2>3. Len(c) = Len(f) + 1 => SubSeq(c, 1, Len(f)) = Parent(c)
    BY <1>1, <2>1 DEF Parent
  <2> QED BY <1>2, <1>4, <2>2, <2>3
<1> QED BY <1>3, <1>4

\* The first strand is the last to go.
LEMMA OnlyRoot ==
  ASSUME FramesOK, TreeOK, <<>> \in DOMAIN frames, Children(<<>>) = {}
  PROVE  DOMAIN frames = {<<>>}
<1> SUFFICES ASSUME DOMAIN frames # {<<>>} PROVE FALSE
  OBVIOUS
<1> DEFINE S == DOMAIN frames \ {<<>>}
<1>1. S # {}
  OBVIOUS
<1>2. \A c \in S : c \in Seq(Nat) /\ c # <<>> /\ Len(c) \in Nat
  BY LenProperties DEF FramesOK
<1>3. {Len(c) : c \in S} \subseteq Nat /\ {Len(c) : c \in S} # {}
  BY <1>1, <1>2
<1>4. PICK m \in {Len(c) : c \in S} : \A n \in {Len(c) : c \in S} : m <= n
  <2> HIDE DEF S
  <2> QED BY <1>3, LeastOfSome
<1>5. PICK c \in S : m = Len(c)
  OBVIOUS
<1>6. Parent(c) \in DOMAIN frames
  BY <1>5 DEF TreeOK, Spawned
<1>7. Parent(c) # <<>>
  BY <1>5, ChildrenName
<1>8. Len(Parent(c)) = Len(c) - 1 /\ Len(c) \in Nat
  BY <1>2, <1>5, ParentName
<1>9. Parent(c) \in S
  BY <1>6, <1>7
<1>10. Len(c) <= Len(Parent(c))
  BY <1>4, <1>5, <1>9
<1> QED BY <1>8, <1>10

LEMMA InitIInv == Init => IInv
<1> SUFFICES ASSUME Init PROVE IInv
  OBVIOUS
<1> DEFINE n  == call[2]
           fr == Strand(Id, n)
<1>1. call \in Calls /\ n \in 0 .. Size
  BY CallFacts DEF Init
<1>2. Id \in OneToOne
  BY DEF Id, OneToOne
<1>3. Fit(fr) /\ ToCome(fr) = Counted(Orders(Id, n))
  BY <1>1, <1>2, ToComeStart
<1>4. fr.view = NoCounts
  BY DEF Strand
<1> HIDE DEF fr
<1>5. DOMAIN frames = {<<>>} /\ frames[<<>>] = fr
  BY DEF Init, fr
<1>6. FramesOK
  <2>1. IsFiniteSet({<<>>})
    BY FS_Singleton
  <2>2. <<>> \in Seq(Nat)
    OBVIOUS
  <2> QED BY <1>3, <1>5, <2>1, <2>2 DEF FramesOK
<1>7. TreeOK
  BY <1>5 DEF TreeOK
<1>8. Orders(Id, n) = Wanted(n)
  <2>1. ASSUME NEW q \in Wanted(n) PROVE Permuted(Id, q) = q
    <3>1. q \in [Lane -> Lane]
      BY <1>1 DEF Wanted, PermsOf
    <3> QED BY <3>1, PermutedLane DEF Id
  <2> QED BY <2>1 DEF Orders
<1>9. res = NoCounts /\ done = FALSE
  BY DEF Init
<1>10. ASSUME NEW d \in Lane PROVE res[d] + Total(Owed(d)) = Counted(Wanted(n))[d]
  <2> DEFINE t == Owed(d)
             h == Without(t, <<>>)
  <2>1. /\ Summable(t) /\ DOMAIN t = {<<>>} /\ t[<<>>] = fr.view[d] + ToCome(fr)[d]
        /\ ToCome(fr)[d] \in Nat
    BY <1>1, <1>5, <1>6, OwedFacts DEF OwedRight
  <2> HIDE DEF t
  <2>2. Total(t) = t[<<>>] + Total(h)
    BY <2>1, TotalSplit
  <2>3. DOMAIN h = {}
    BY <2>1 DEF Without
  <2> HIDE DEF h
  <2>4. Total(h) = 0
    BY <2>3, TotalEmpty
  <2>5. fr.view[d] = 0 /\ res[d] = 0
    BY <1>4, <1>9 DEF NoCounts
  <2>6. Total(t) = ToCome(fr)[d]
    BY <2>1, <2>2, <2>4, <2>5
  <2>7. ToCome(fr)[d] = Counted(Wanted(n))[d]
    BY <1>3, <1>8
  <2>8. res[d] + Total(t) = Counted(Wanted(n))[d]
    BY <2>1, <2>5, <2>6, <2>7
  <2> QED BY <2>8 DEF t
<1>11. NothingLost
  BY <1>10 DEF NothingLost
<1>12. res \in [Lane -> Nat]
  BY <1>9 DEF NoCounts
<1> QED BY <1>1, <1>6, <1>7, <1>9, <1>11, <1>12 DEF IInv

\* Spawning.
LEMMA SpawnIInv ==
  ASSUME IInv, NEW f \in DOMAIN frames, Spawn(f)
  PROVE  IInv'
<1> DEFINE fr  == frames[f]
           c   == Append(f, fr.i)
           new == Strand(permuteij(fr.p, fr.i, fr.n - 1), fr.n - 1)
           old == [fr EXCEPT !.i = @ + 1]
<1>1. /\ call \in Calls /\ res \in [Lane -> Nat] /\ done \in BOOLEAN
      /\ FramesOK /\ TreeOK /\ (done => DOMAIN frames = {}) /\ NothingLost
  BY DEF IInv
<1>2. ~IsLeaf(fr) /\ fr.i < fr.n /\ call' = call /\ res' = res /\ done' = done
  BY DEF Spawn
<1>3. f \in Seq(Nat) /\ Fit(fr) /\ fr.i \in Nat
  BY <1>1 DEF FramesOK, Fit, Strands
<1>4. /\ c \in Seq(Nat) /\ c # <<>> /\ c # f /\ c[Len(c)] = fr.i /\ Parent(c) = f
  <2>1. c = Append(f, fr.i)
    OBVIOUS
  <2> HIDE DEF c
  <2> QED BY <1>3, <2>1, AppendedName
<1>5. /\ Fit(new) /\ new.view = NoCounts
      /\ Fit(old) /\ old.view = fr.view /\ ~IsLeaf(old) /\ old.i = fr.i + 1
      /\ \A d \in Lane : ToCome(fr)[d] = ToCome(new)[d] + ToCome(old)[d]
  BY <1>1, <1>2, <1>3, ToComeSpawn
<1>6. frames' = [e \in DOMAIN frames \cup {c} |->
                   IF e = c THEN new ELSE IF e = f THEN old ELSE frames[e]]
  BY DEF Spawn
<1> HIDE DEF c, new, old
<1>7. c \notin DOMAIN frames
  <2> SUFFICES ASSUME c \in DOMAIN frames PROVE FALSE
    OBVIOUS
  <2>1. fr.i < fr.i
    BY <1>1, <1>4 DEF TreeOK, Spawned
  <2> QED BY <1>3, <2>1
<1>8. /\ DOMAIN frames' = DOMAIN frames \cup {c}
      /\ frames'[c] = new /\ frames'[f] = old
      /\ \A e \in DOMAIN frames : e # f => frames'[e] = frames[e]
  BY <1>4, <1>6, <1>7
<1>9. /\ Wanted(call[2])' = Wanted(call[2])
      /\ \A e : /\ IsLeaf(frames[e])' <=> IsLeaf(frames'[e])
                /\ ToCome(frames[e])' = ToCome(frames'[e])
                /\ Fit(frames[e])' <=> Fit(frames'[e])
  BY <1>2, SameCall
<1> HIDE DEF fr
<1>10. FramesOK'
  <2>1. IsFiniteSet(DOMAIN frames') /\ DOMAIN frames' \subseteq Seq(Nat)
    BY <1>1, <1>4, <1>8, FS_AddElement DEF FramesOK
  <2>2. ASSUME NEW e \in DOMAIN frames' PROVE Fit(frames'[e])
    BY <1>1, <1>5, <1>8 DEF FramesOK
  <2> QED BY <1>9, <2>1, <2>2 DEF FramesOK
<1>11. TreeOK'
  <2>1. ASSUME NEW e \in DOMAIN frames', e # <<>>
        PROVE  /\ Parent(e) \in DOMAIN frames'
               /\ ~IsLeaf(frames'[Parent(e)])
               /\ e[Len(e)] < frames'[Parent(e)].i
    <3>1. CASE e = c
      BY <1>3, <1>4, <1>5, <1>8, <3>1
    <3>2. CASE e # c
      <4>1. /\ e \in DOMAIN frames /\ Parent(e) \in DOMAIN frames
            /\ ~IsLeaf(frames[Parent(e)]) /\ e[Len(e)] < frames[Parent(e)].i
        BY <1>1, <1>8, <2>1, <3>2 DEF TreeOK, Spawned
      <4>2. CASE Parent(e) = f
        <5>1. e[Len(e)] \in Nat
          <6>1. e \in Seq(Nat)
            BY <1>1, <4>1 DEF FramesOK
          <6>2. Len(e) \in 1 .. Len(e)
            BY <2>1, <6>1, ParentName
          <6> QED BY <6>1, <6>2, ElementOfSeq
        <5> QED BY <1>3, <1>5, <1>8, <4>1, <4>2, <5>1 DEF fr
      <4>3. CASE Parent(e) # f
        BY <1>8, <4>1, <4>3
      <4> QED BY <4>2, <4>3
    <3> QED BY <3>1, <3>2
  <2> QED BY <1>9, <2>1 DEF TreeOK, Spawned
<1>12. ASSUME NEW d \in Lane
       PROVE  (res[d] + Total(Owed(d)))' = Counted(Wanted(call[2]))[d]
  <2> DEFINE t == Owed(d)
             h == Owed(d)'
  <2>1. /\ Summable(t) /\ DOMAIN t = DOMAIN frames /\ t = [e \in DOMAIN t |-> t[e]]
        /\ \A e \in DOMAIN frames : t[e] = frames[e].view[d] + ToCome(frames[e])[d]
        /\ frames[f].view[d] \in Nat
    BY <1>1, OwedFacts DEF OwedRight
  <2>2. /\ Summable(h) /\ DOMAIN h = DOMAIN frames'
        /\ \A e \in DOMAIN frames' : h[e] = frames'[e].view[d] + ToCome(frames[e])'[d]
    <3>1. call' \in Calls
      BY <1>1, <1>2
    <3>2. (call \in Calls /\ FramesOK => OwedRight)'
      BY OwedFacts, PTL
    <3>3. OwedRight'
      BY <1>10, <3>1, <3>2
    <3> QED BY <3>3 DEF OwedRight
  <2> HIDE DEF t, h
  <2>3. \A e \in DOMAIN frames' : h[e] = frames'[e].view[d] + ToCome(frames'[e])[d]
    BY <1>9, <2>2
  <2>4. ToCome(new)[d] \in Nat /\ ToCome(old)[d] \in Nat
    BY <1>1, <1>5, ToComeType
  <2>5. h[c] = ToCome(new)[d]
    BY <1>5, <1>8, <2>3, <2>4 DEF NoCounts
  <2>6. h[f] = fr.view[d] + ToCome(old)[d]
    BY <1>5, <1>8, <2>3
  <2>7. t[f] = h[f] + h[c]
    BY <1>5, <2>1, <2>4, <2>5, <2>6 DEF fr
  <2>8. \A e \in DOMAIN t : e # f => t[e] = h[e]
    BY <1>8, <2>1, <2>3
  <2>9. DOMAIN t = DOMAIN h \ {c} /\ c \in DOMAIN h /\ f \in DOMAIN h
    BY <1>7, <1>8, <2>1, <2>2
  <2>10. Total(t) = Total(h)
    <3>1. Summable(t) /\ Summable(h) /\ t = [e \in DOMAIN t |-> t[e]] /\ f # c
      BY <1>4, <2>1, <2>2
    <3> QED BY <2>7, <2>8, <2>9, <3>1, TotalMove
  <2>11. res[d] + Total(t) = Counted(Wanted(call[2]))[d]
    BY <1>1 DEF NothingLost, t
  <2>12. (res[d] + Total(Owed(d)))' = res[d] + Total(h)
    BY <1>2 DEF h, Total
  <2> QED BY <2>10, <2>11, <2>12
<1>13. NothingLost'
  BY <1>2, <1>9, <1>12 DEF NothingLost, Counted
<1>14. ~done
  BY <1>1
<1> QED BY <1>1, <1>2, <1>10, <1>11, <1>13, <1>14 DEF IInv

\* Returning.
LEMMA LeaveIInv ==
  ASSUME IInv, NEW f \in DOMAIN frames, Children(f) = {}, NEW view \in [Lane -> Nat],
         \A d \in Lane : view[d] = Owed(d)[f], Leave(f, view)
  PROVE  IInv'
<1> DEFINE p   == Parent(f)
           old == [frames[p] EXCEPT !.view = Sum(@, view)]
<1>1. /\ call \in Calls /\ res \in [Lane -> Nat] /\ done \in BOOLEAN
      /\ FramesOK /\ TreeOK /\ (done => DOMAIN frames = {}) /\ NothingLost
  BY DEF IInv
<1>2. /\ call' = call
      /\ frames' = [e \in DOMAIN frames \ {f} |->
                      IF f # <<>> /\ e = p THEN old ELSE frames[e]]
      /\ IF f = <<>> THEN res' = Sum(res, view) /\ done' = TRUE
                     ELSE res' = res /\ done' = done
  BY DEF Leave, Parent
<1>3. /\ Wanted(call[2])' = Wanted(call[2])
      /\ \A e : /\ IsLeaf(frames[e])' <=> IsLeaf(frames'[e])
                /\ ToCome(frames[e])' = ToCome(frames'[e])
                /\ Fit(frames[e])' <=> Fit(frames'[e])
  BY <1>2, SameCall
<1>4. ASSUME f # <<>>
      PROVE  /\ p \in DOMAIN frames /\ p # f /\ ~IsLeaf(frames[p])
             /\ Fit(old) /\ ~IsLeaf(old) /\ old.i = frames[p].i
             /\ old.view = Sum(frames[p].view, view)
             /\ ToCome(old) = ToCome(frames[p])
  <2>1. p \in DOMAIN frames /\ ~IsLeaf(frames[p])
    BY <1>1, <1>4 DEF TreeOK, Spawned
  <2>2. p # f
    <3>1. f \in Seq(Nat)
      BY <1>1 DEF FramesOK
    <3>2. Len(f) \in Nat /\ Len(p) = Len(f) - 1
      BY <1>4, <3>1, ParentName
    <3> QED BY <3>2
  <2>3. Fit(frames[p])
    BY <1>1, <2>1 DEF FramesOK
  <2>4. frames[p] \in Strands /\ frames[p].i <= frames[p].n
    BY <2>3 DEF Fit
  <2>5. Sum(frames[p].view, view) \in [Lane -> Nat]
    BY <2>4 DEF Strands, Sum
  <2> HIDE DEF p
  <2>6. /\ old \in Strands /\ old.i = frames[p].i /\ old.n = frames[p].n /\ old.p = frames[p].p
        /\ old.view = Sum(frames[p].view, view)
    BY <2>4, <2>5 DEF Strands
  <2> HIDE DEF old
  <2>7. ~IsLeaf(old)
    BY <2>1, <2>6 DEF IsLeaf
  <2>8. Fit(old)
    BY <2>4, <2>6, <2>7 DEF Fit
  <2>9. ToCome(old) = ToCome(frames[p])
    BY <2>1, <2>6, <2>7, ToComeInner
  <2> QED BY <2>1, <2>2, <2>6, <2>7, <2>8, <2>9
<1>5. p = Parent(f)
  OBVIOUS
<1> HIDE DEF p, old
<1>6. /\ DOMAIN frames' = DOMAIN frames \ {f}
      /\ \A e \in DOMAIN frames' : ~(f # <<>> /\ e = p) => frames'[e] = frames[e]
      /\ f # <<>> => p \in DOMAIN frames' /\ frames'[p] = old
  BY <1>2, <1>4
<1>7. FramesOK'
  <2>1. IsFiniteSet(DOMAIN frames') /\ DOMAIN frames' \subseteq Seq(Nat)
    BY <1>1, <1>6, FS_RemoveElement DEF FramesOK
  <2>2. ASSUME NEW e \in DOMAIN frames' PROVE Fit(frames'[e])
    <3>1. CASE f # <<>> /\ e = p
      BY <1>4, <1>6, <3>1
    <3>2. CASE ~(f # <<>> /\ e = p)
      <4>1. frames'[e] = frames[e] /\ e \in DOMAIN frames
        BY <1>6, <3>2
      <4> QED BY <1>1, <4>1 DEF FramesOK
    <3> QED BY <3>1, <3>2
  <2> QED BY <1>3, <2>1, <2>2 DEF FramesOK
<1>8. TreeOK'
  <2>1. ASSUME NEW e \in DOMAIN frames', e # <<>>
        PROVE  /\ Parent(e) \in DOMAIN frames'
               /\ ~IsLeaf(frames'[Parent(e)])
               /\ e[Len(e)] < frames'[Parent(e)].i
    <3>1. /\ e \in DOMAIN frames /\ Parent(e) \in DOMAIN frames
          /\ ~IsLeaf(frames[Parent(e)]) /\ e[Len(e)] < frames[Parent(e)].i
      BY <1>1, <1>6, <2>1 DEF TreeOK, Spawned
    <3>2. Parent(e) # f
      <4>1. e \in Children(f) <=> e # <<>> /\ Parent(e) = f
        BY <1>1, <3>1, ChildrenName
      <4> QED BY <2>1, <4>1
    <3>3. Parent(e) \in DOMAIN frames'
      BY <1>6, <3>1, <3>2
    <3>4. CASE f # <<>> /\ Parent(e) = p
      <4>1. frames'[Parent(e)] = old /\ ~IsLeaf(old) /\ old.i = frames[p].i
        BY <1>4, <1>6, <3>4
      <4>2. ~IsLeaf(frames'[Parent(e)])
        BY <4>1
      <4>3. frames'[Parent(e)].i = frames[Parent(e)].i
        BY <3>4, <4>1
      <4> QED BY <3>1, <3>3, <4>2, <4>3
    <3>5. CASE ~(f # <<>> /\ Parent(e) = p)
      <4>1. frames'[Parent(e)] = frames[Parent(e)]
        BY <1>6, <3>3, <3>5
      <4> QED BY <3>1, <3>3, <4>1
    <3> QED BY <3>4, <3>5
  <2> QED BY <1>3, <2>1 DEF TreeOK, Spawned
<1>9. ASSUME NEW d \in Lane
      PROVE  res'[d] + Total(Owed(d)') = res[d] + Total(Owed(d))
  <2> DEFINE t == Owed(d)
             h == Owed(d)'
  <2>1. /\ Summable(t) /\ DOMAIN t = DOMAIN frames /\ t = [e \in DOMAIN t |-> t[e]]
        /\ \A e \in DOMAIN frames : /\ t[e] = frames[e].view[d] + ToCome(frames[e])[d]
                                    /\ frames[e].view[d] \in Nat
                                    /\ ToCome(frames[e])[d] \in Nat
    BY <1>1, OwedFacts DEF OwedRight
  <2>2. /\ Summable(h) /\ DOMAIN h = DOMAIN frames' /\ h = [e \in DOMAIN h |-> h[e]]
        /\ \A e \in DOMAIN frames' : h[e] = frames'[e].view[d] + ToCome(frames[e])'[d]
    <3>1. call' \in Calls
      BY <1>1, <1>2
    <3>2. (call \in Calls /\ FramesOK => OwedRight)'
      BY OwedFacts, PTL
    <3>3. OwedRight'
      BY <1>7, <3>1, <3>2
    <3> QED BY <3>3 DEF OwedRight
  <2>3. view[d] = t[f]
    OBVIOUS
  <2> HIDE DEF t, h
  <2>4. \A e \in DOMAIN frames' : h[e] = frames'[e].view[d] + ToCome(frames'[e])[d]
    BY <1>3, <2>2
  <2>5. f \in DOMAIN t /\ DOMAIN h = DOMAIN t \ {f} /\ t[f] \in Nat /\ view[d] \in Nat
    BY <1>6, <2>1, <2>2, <2>3
  <2>6. CASE f = <<>>
    <3>1. \A e \in DOMAIN h : h[e] = t[e]
      BY <1>6, <2>1, <2>2, <2>4, <2>6
    <3>2. Total(t) = t[f] + Total(h) /\ Total(h) \in Nat
      BY <2>1, <2>2, <2>5, <3>1, TotalDrop
    <3>3. res'[d] = res[d] + view[d] /\ res[d] \in Nat
      BY <1>1, <1>2, <2>6 DEF Sum
    <3>4. res'[d] + Total(h) = res[d] + Total(t)
      BY <2>3, <2>5, <3>2, <3>3
    <3> QED BY <3>4 DEF t, h
  <2>7. CASE f # <<>>
    <3>1. p \in DOMAIN t /\ p # f
      BY <1>4, <2>1, <2>7
    <3>2. old.view[d] = frames[p].view[d] + view[d]
      BY <1>4, <2>7 DEF Sum
    <3>3. h[p] = old.view[d] + ToCome(old)[d]
      BY <1>6, <2>4, <2>7
    <3>4. h[p] = (frames[p].view[d] + view[d]) + ToCome(frames[p])[d]
      BY <1>4, <2>7, <3>2, <3>3
    <3>5. h[p] = t[p] + t[f]
      BY <2>1, <2>3, <2>5, <3>1, <3>4
    <3>6. ASSUME NEW e \in DOMAIN h, e # p PROVE h[e] = t[e]
      BY <1>6, <2>1, <2>2, <2>4, <3>6
    <3>7. Total(h) = Total(t)
      <4>1. Summable(t) /\ Summable(h) /\ h = [e \in DOMAIN h |-> h[e]]
        BY <2>1, <2>2
      <4> QED BY <2>5, <3>1, <3>5, <3>6, <4>1, TotalMove
    <3>8. res'[d] = res[d]
      BY <1>2, <2>7
    <3> QED BY <3>7, <3>8 DEF t, h
  <2> QED BY <2>6, <2>7
<1>10. NothingLost'
  <2>1. ASSUME NEW d \in Lane
        PROVE  (res[d] + Total(Owed(d)) = Counted(Wanted(call[2]))[d])'
    <3>1. res[d] + Total(Owed(d)) = Counted(Wanted(call[2]))[d]
      BY <1>1 DEF NothingLost
    <3>2. Counted(Wanted(call[2]))[d]' = Counted(Wanted(call[2])')[d]
      BY DEF Counted
    <3>3. Total(Owed(d))' = Total(Owed(d)')
      BY DEF Total
    <3> QED BY <1>3, <1>9, <3>1, <3>2, <3>3
  <2> QED BY <2>1 DEF NothingLost
<1>11. res' \in [Lane -> Nat] /\ done' \in BOOLEAN
  <2>1. Sum(res, view) \in [Lane -> Nat]
    BY <1>1 DEF Sum
  <2> QED BY <1>1, <1>2, <2>1
<1>12. done' => DOMAIN frames' = {}
  <2>1. CASE f = <<>>
    <3>1. DOMAIN frames = {<<>>}
      BY <1>1, <2>1, OnlyRoot
    <3> QED BY <1>6, <2>1, <3>1
  <2>2. CASE f # <<>>
    BY <1>1, <1>2, <2>2
  <2> QED BY <2>1, <2>2
<1> QED BY <1>1, <1>2, <1>7, <1>8, <1>10, <1>11, <1>12 DEF IInv

LEMMA FinishIInv ==
  ASSUME IInv, NEW f \in DOMAIN frames, Finish(f)
  PROVE  IInv'
<1>1. call \in Calls /\ FramesOK /\ TreeOK /\ IsLeaf(frames[f]) /\ Leave(f, LeafCounts(frames[f]))
  BY DEF IInv, Finish
<1>2. Fit(frames[f]) /\ frames[f].view = NoCounts
  BY <1>1 DEF FramesOK, Fit
<1>3. LeafCounts(frames[f]) = ToCome(frames[f]) /\ ToCome(frames[f]) \in [Lane -> Nat]
  BY <1>1, <1>2, ToComeLeaf, ToComeType
<1>4. Children(f) = {}
  <2> SUFFICES ASSUME NEW c \in Children(f) PROVE FALSE
    OBVIOUS
  <2>1. c \in DOMAIN frames
    BY DEF Children
  <2>2. c # <<>> /\ Parent(c) = f
    BY <1>1, <2>1, ChildrenName
  <2> QED BY <1>1, <2>1, <2>2 DEF TreeOK, Spawned
<1>5. ASSUME NEW d \in Lane PROVE ToCome(frames[f])[d] = Owed(d)[f]
  <2>1. Owed(d)[f] = frames[f].view[d] + ToCome(frames[f])[d] /\ ToCome(frames[f])[d] \in Nat
    BY <1>1, OwedFacts DEF OwedRight
  <2>2. frames[f].view[d] = 0
    BY <1>2 DEF NoCounts
  <2> QED BY <2>1, <2>2
<1>6. Leave(f, ToCome(frames[f]))
  BY <1>1, <1>3
<1> QED BY <1>3, <1>4, <1>5, <1>6, LeaveIInv

LEMMA ReturnIInv ==
  ASSUME IInv, NEW f \in DOMAIN frames, Return(f)
  PROVE  IInv'
<1>1. /\ call \in Calls /\ FramesOK /\ ~IsLeaf(frames[f]) /\ Children(f) = {}
      /\ frames[f].i = frames[f].n /\ Leave(f, frames[f].view)
  BY DEF IInv, Return, Over
<1>2. Fit(frames[f]) /\ frames[f].view \in [Lane -> Nat]
  BY <1>1 DEF FramesOK, Fit, Strands
<1>3. ToCome(frames[f]) = NoCounts
  BY <1>1, <1>2, ToComeEnd
<1>4. ASSUME NEW d \in Lane PROVE frames[f].view[d] = Owed(d)[f]
  <2>1. Owed(d)[f] = frames[f].view[d] + ToCome(frames[f])[d] /\ frames[f].view[d] \in Nat
    BY <1>1, OwedFacts DEF OwedRight
  <2>2. ToCome(frames[f])[d] = 0
    BY <1>3 DEF NoCounts
  <2> QED BY <2>1, <2>2
<1> QED BY <1>1, <1>2, <1>4, LeaveIInv

LEMMA NextIInv == IInv /\ [Next]_vars => IInv'
<1> SUFFICES ASSUME IInv, [Next]_vars PROVE IInv'
  OBVIOUS
<1>1. CASE Next
  <2>1. PICK f \in DOMAIN frames : Spawn(f) \/ Finish(f) \/ Return(f)
    BY <1>1 DEF Next
  <2>2. CASE Spawn(f)
    BY <2>2, SpawnIInv
  <2>3. CASE Finish(f)
    BY <2>3, FinishIInv
  <2>4. CASE Return(f)
    BY <2>4, ReturnIInv
  <2> QED BY <2>1, <2>2, <2>3, <2>4
<1>2. CASE UNCHANGED vars
  <2>1. call' = call /\ frames' = frames /\ res' = res /\ done' = done
    BY <1>2 DEF vars
  <2>2. /\ Wanted(call[2])' = Wanted(call[2])
        /\ \A e : /\ IsLeaf(frames[e])' <=> IsLeaf(frames'[e])
                  /\ ToCome(frames[e])' = ToCome(frames'[e])
                  /\ Fit(frames[e])' <=> Fit(frames'[e])
    BY <2>1, SameCall
  <2>3. FramesOK' /\ TreeOK'
    BY <2>1, <2>2 DEF IInv, FramesOK, TreeOK, Spawned
  <2>4. NothingLost'
    BY <2>1, <2>2 DEF IInv, NothingLost, Owed, Counted, Total
  <2> QED BY <2>1, <2>3, <2>4 DEF IInv
<1> QED BY <1>1, <1>2

LEMMA Invariance == Spec => []IInv
<1>1. Init => IInv
  BY InitIInv
<1>2. IInv /\ [Next]_vars => IInv'
  BY NextIInv
<1> QED BY <1>1, <1>2, PTL DEF Spec

-----------------------------------------------------------------------------
(* Results.                                                                *)

\* A strand never makes more choices than it has entries.
THEOREM TypeCorrect == Spec => []TypeOK
<1>1. IInv => TypeOK
  <2> SUFFICES ASSUME IInv, NEW f \in DOMAIN frames PROVE frames[f].i \in 0 .. frames[f].n
    BY DEF IInv, TypeOK
  <2>1. Fit(frames[f])
    BY DEF IInv, FramesOK
  <2> QED BY <2>1 DEF Fit, Strands
<1> QED BY <1>1, Invariance, PTL

\* Whatever has been spawned and whatever has returned, the counters of main, the
\* views of the reducer and what the strands alive have still to count (by
\* allperm_iter, or by the strands they will spawn) make up every permutation of
\* the points once.
THEOREM NothingIsLost == Spec => []NothingLost
<1>1. IInv => NothingLost
  BY DEF IInv
<1> QED BY <1>1, Invariance, PTL

\* What main has when allperm or allperm_derec has returned to it.
Exact == done => res = Counted(Wanted(call[2]))

\* Once the call has returned, main has the number of permutations of each number of
\* descents.
THEOREM CountsAreExact == Spec => []Exact
<1>1. IInv => Exact
  <2> SUFFICES ASSUME IInv, done PROVE res = Counted(Wanted(call[2]))
    BY DEF Exact
  <2>1. res \in [Lane -> Nat] /\ DOMAIN frames = {} /\ NothingLost
    BY DEF IInv
  <2>2. ASSUME NEW d \in Lane PROVE res[d] = Counted(Wanted(call[2]))[d]
    <3>1. DOMAIN Owed(d) = {}
      BY <2>1 DEF Owed
    <3>2. Total(Owed(d)) = 0
      BY <3>1, TotalEmpty
    <3>3. res[d] + Total(Owed(d)) = Counted(Wanted(call[2]))[d]
      BY <2>1 DEF NothingLost
    <3> QED BY <2>1, <3>2, <3>3
  <2>3. Counted(Wanted(call[2])) = [d \in Lane |-> Counted(Wanted(call[2]))[d]]
    BY DEF Counted
  <2> QED BY <2>1, <2>2, <2>3
<1> QED BY <1>1, Invariance, PTL

-----------------------------------------------------------------------------
(***************************************************************************)
(* Walking along a word, and reading words back from a table.              *)
(***************************************************************************)

\* f holds where the first n generators of the word w lead from p.
Trace(m, p, w, f, n) ==
  /\ f = [i \in 0 .. n |-> f[i]]
  /\ f[0] = p
  /\ \A i \in 1 .. n : f[i] = Act(m, f[i - 1], GensOf[m][w[i]])
Traceable(m, p, w, n) == \E f : Trace(m, p, w, f, n)

LEMMA TraceExists ==
  ASSUME NEW m, NEW p, NEW w, NEW n \in Nat
  PROVE  Traceable(m, p, w, n)
<1> DEFINE S == {i \in Nat : Traceable(m, p, w, i)}
<1>1. 0 \in S
  <2> DEFINE f == [i \in 0 .. 0 |-> p]
  <2>1. Trace(m, p, w, f, 0)
    BY DEF Trace
  <2> QED BY <2>1 DEF Traceable
<1>2. ASSUME NEW i \in Nat, i \in S
      PROVE  i + 1 \in S
  <2>1. PICK f : Trace(m, p, w, f, i)
    BY <1>2 DEF Traceable
  <2> DEFINE h == [j \in 0 .. i + 1 |->
                     IF j = i + 1 THEN Act(m, f[i], GensOf[m][w[i + 1]]) ELSE f[j]]
  <2>2. /\ h = [j \in 0 .. i + 1 |-> h[j]]
        /\ h[0] = p
    BY <2>1 DEF Trace
  <2>3. ASSUME NEW j \in 1 .. i + 1
        PROVE  h[j] = Act(m, h[j - 1], GensOf[m][w[j]])
    <3>1. CASE j = i + 1
      <4>1. h[i] = f[i] /\ h[j] = Act(m, f[i], GensOf[m][w[i + 1]]) /\ j - 1 = i
        BY <3>1
      <4> QED BY <3>1, <4>1
    <3>2. CASE j # i + 1
      <4>1. j \in 1 .. i /\ h[j] = f[j] /\ h[j - 1] = f[j - 1]
        BY <3>2
      <4> QED BY <2>1, <4>1 DEF Trace
    <3> QED BY <3>1, <3>2
  <2> HIDE DEF h
  <2>4. Trace(m, p, w, h, i + 1)
    BY <2>2, <2>3 DEF Trace
  <2> QED BY <2>4 DEF Traceable
<1> HIDE DEF S
<1>3. n \in S
  BY <1>1, <1>2, NatSetInduction
<1> QED BY <1>3 DEF S

\* Words that begin alike lead to the same places on the way.
LEMMA TraceUnique ==
  ASSUME NEW m, NEW p, NEW w, NEW u, NEW n \in Nat, NEW l \in Nat, NEW f, NEW h,
         n <= l, \A i \in 1 .. n : w[i] = u[i],
         Trace(m, p, w, f, n), Trace(m, p, u, h, l)
  PROVE  f[n] = h[n]
<1> DEFINE S == {i \in Nat : i <= n => f[i] = h[i]}
<1>1. 0 \in S
  BY DEF Trace
<1>2. ASSUME NEW i \in Nat, i \in S
      PROVE  i + 1 \in S
  <2> SUFFICES ASSUME i + 1 <= n PROVE f[i + 1] = h[i + 1]
    OBVIOUS
  <2>1. i + 1 \in 1 .. n /\ i + 1 \in 1 .. l /\ (i + 1) - 1 = i /\ f[i] = h[i]
    BY <1>2
  <2>2. f[i + 1] = Act(m, f[(i + 1) - 1], GensOf[m][w[i + 1]])
    BY <2>1 DEF Trace
  <2>3. h[i + 1] = Act(m, h[(i + 1) - 1], GensOf[m][u[i + 1]])
    BY <2>1 DEF Trace
  <2> QED BY <2>1, <2>2, <2>3
<1> HIDE DEF S
<1>3. n \in S
  BY <1>1, <1>2, NatSetInduction
<1> QED BY <1>3 DEF S

\* Walked is where the trace of the word ends.
LEMMA WalkedTrace ==
  ASSUME NEW m, NEW p, NEW w, NEW f, Len(w) \in Nat, Trace(m, p, w, f, Len(w))
  PROVE  Walked(m, p, w) = f[Len(w)]
<1> DEFINE Body(h) == [n \in 0 .. Len(w) |->
                         IF n = 0 THEN p ELSE Act(m, h[n - 1], GensOf[m][w[n]])]
           F == CHOOSE h : h = Body(h)
<1>1. f = Body(f)
  BY DEF Trace
<1>2. F = Body(F)
  BY <1>1
<1>3. Walked(m, p, w) = F[Len(w)]
  BY DEF Walked
<1> HIDE DEF F
<1>4. Trace(m, p, w, F, Len(w))
  <2>1. ASSUME NEW n \in 0 .. Len(w)
        PROVE  F[n] = IF n = 0 THEN p ELSE Act(m, F[n - 1], GensOf[m][w[n]])
    <3>1. Body(F)[n] = IF n = 0 THEN p ELSE Act(m, F[n - 1], GensOf[m][w[n]])
      OBVIOUS
    <3> HIDE DEF Body
    <3> QED BY <1>2, <3>1
  <2>2. F = [n \in 0 .. Len(w) |-> F[n]]
    BY <1>2
  <2>3. F[0] = p
    BY <2>1
  <2>4. \A n \in 1 .. Len(w) : F[n] = Act(m, F[n - 1], GensOf[m][w[n]])
    BY <2>1
  <2> HIDE DEF Body
  <2> QED BY <2>2, <2>3, <2>4 DEF Trace
<1>5. F[Len(w)] = f[Len(w)]
  BY <1>4, TraceUnique
<1> QED BY <1>3, <1>5

\* The empty word stays, and one more generator is one more action.
LEMMA WalkedEmpty ==
  ASSUME NEW m, NEW p
  PROVE  Walked(m, p, <<>>) = p
<1>1. Len(<<>>) = 0
  OBVIOUS
<1>2. PICK f : Trace(m, p, <<>>, f, 0)
  BY TraceExists DEF Traceable
<1>3. Walked(m, p, <<>>) = f[Len(<<>>)]
  BY <1>1, <1>2, WalkedTrace
<1> QED BY <1>1, <1>2, <1>3 DEF Trace

LEMMA WalkedAppend ==
  ASSUME NEW m, NEW p, NEW w \in Seq(Nat), NEW i \in Nat
  PROVE  Walked(m, p, Append(w, i)) = Act(m, Walked(m, p, w), GensOf[m][i])
<1> DEFINE u == Append(w, i)
           n == Len(w)
<1>1. /\ n \in Nat /\ n + 1 \in Nat /\ Len(u) = n + 1
      /\ u[n + 1] = i
      /\ \A j \in 1 .. n : w[j] = u[j]
  OBVIOUS
<1> HIDE DEF u, n
<1>2. PICK f : Trace(m, p, u, f, n + 1)
  BY <1>1, TraceExists DEF Traceable
<1>3. PICK h : Trace(m, p, w, h, n)
  BY <1>1, TraceExists DEF Traceable
<1>4. Walked(m, p, u) = f[n + 1] /\ Walked(m, p, w) = h[n]
  BY <1>1, <1>2, <1>3, WalkedTrace DEF n
<1>5. h[n] = f[n]
  <2>1. n + 1 \in Nat /\ n <= n + 1
    BY <1>1
  <2> QED BY <1>1, <1>2, <1>3, <2>1, TraceUnique
<1>6. f[n + 1] = Act(m, f[(n + 1) - 1], GensOf[m][u[n + 1]]) /\ (n + 1) - 1 = n
  <2>1. n + 1 \in 1 .. n + 1 /\ (n + 1) - 1 = n
    BY <1>1
  <2> QED BY <1>2, <2>1 DEF Trace
<1> QED BY <1>1, <1>4, <1>5, <1>6 DEF u

\* r holds the words that the table T spells.
Spelled(T, r) ==
  /\ Id \in DOMAIN T
  /\ r \in [DOMAIN T -> Seq(Nat)]
  /\ r[Id] = <<>>
  /\ \A z \in DOMAIN T : z # Id => /\ T[z][1] \in DOMAIN T /\ T[z][2] \in Nat
                                   /\ r[z] = Append(r[T[z][1]], T[z][2])
Readable(T) == \E r : Spelled(T, r)

Depth(T, x) == Len(reduced_word(T, x))

\* Then reduced_word reads them.
LEMMA WordRead ==
  ASSUME NEW T, NEW r, Spelled(T, r), NEW x \in DOMAIN T
  PROVE  reduced_word(T, x) = r[x]
<1> DEFINE Body(h) == [z \in DOMAIN T |->
                         IF z = Id THEN <<>> ELSE Append(h[T[z][1]], T[z][2])]
           F == CHOOSE h : h = Body(h)
<1>1. r = Body(r)
  BY DEF Spelled
<1>2. F = Body(F)
  BY <1>1
<1>3. reduced_word(T, x) = F[x]
  BY DEF reduced_word
<1> HIDE DEF F
<1>4. ASSUME NEW z \in DOMAIN T
      PROVE  F[z] = IF z = Id THEN <<>> ELSE Append(F[T[z][1]], T[z][2])
  <2>1. Body(F)[z] = IF z = Id THEN <<>> ELSE Append(F[T[z][1]], T[z][2])
    OBVIOUS
  <2> HIDE DEF Body
  <2> QED BY <1>2, <2>1
<1> DEFINE S == {n \in Nat : \A z \in DOMAIN T : Len(r[z]) = n => F[z] = r[z]}
<1>5. 0 \in S
  <2> SUFFICES ASSUME NEW z \in DOMAIN T, Len(r[z]) = 0 PROVE F[z] = r[z]
    OBVIOUS
  <2>1. z = Id
    <3> SUFFICES ASSUME z # Id PROVE FALSE
      OBVIOUS
    <3>1. r[z] = Append(r[T[z][1]], T[z][2]) /\ r[T[z][1]] \in Seq(Nat)
      BY DEF Spelled
    <3> QED BY <3>1
  <2> QED BY <1>4, <2>1 DEF Spelled
<1>6. ASSUME NEW n \in Nat, n \in S
      PROVE  n + 1 \in S
  <2> SUFFICES ASSUME NEW z \in DOMAIN T, Len(r[z]) = n + 1 PROVE F[z] = r[z]
    OBVIOUS
  <2>1. z # Id
    BY DEF Spelled
  <2>2. /\ T[z][1] \in DOMAIN T
        /\ r[z] = Append(r[T[z][1]], T[z][2])
        /\ r[T[z][1]] \in Seq(Nat)
    BY <2>1 DEF Spelled
  <2>3. Len(r[T[z][1]]) = n
    BY <2>2
  <2>4. F[T[z][1]] = r[T[z][1]]
    BY <1>6, <2>2, <2>3
  <2> QED BY <1>4, <2>1, <2>2, <2>4
<1> HIDE DEF S
<1>7. \A n \in Nat : n \in S
  BY <1>5, <1>6, NatSetInduction
<1>8. r[x] \in Seq(Nat) /\ Len(r[x]) \in Nat
  BY DEF Spelled
<1> QED BY <1>3, <1>7, <1>8 DEF S

LEMMA WordType ==
  ASSUME NEW T, Readable(T), NEW x \in DOMAIN T
  PROVE  reduced_word(T, x) \in Seq(Nat) /\ Depth(T, x) \in Nat
<1>1. PICK r : Spelled(T, r)
  BY DEF Readable
<1>2. reduced_word(T, x) = r[x]
  BY <1>1, WordRead
<1>3. r[x] \in Seq(Nat)
  BY <1>1 DEF Spelled
<1> QED BY <1>2, <1>3 DEF Depth

\* Entering an element changes no word, and its own is its parent's and one more.
LEMMA WordsKept ==
  ASSUME NEW T, Readable(T), NEW y, y \notin DOMAIN T, NEW p \in DOMAIN T, NEW i \in Nat
  PROVE  LET U == Entered(T, y, <<p, i>>)
         IN  /\ Readable(U)
             /\ \A x \in DOMAIN T : reduced_word(U, x) = reduced_word(T, x)
             /\ reduced_word(U, y) = Append(reduced_word(T, p), i)
<1> DEFINE U == Entered(T, y, <<p, i>>)
<1>1. PICK r : Spelled(T, r)
  BY DEF Readable
<1> DEFINE q == [x \in DOMAIN T \cup {y} |-> IF x = y THEN Append(r[p], i) ELSE r[x]]
<1>2. /\ DOMAIN U = DOMAIN T \cup {y}
      /\ U[y] = <<p, i>>
      /\ \A x \in DOMAIN T : x # y => U[x] = T[x]
  BY DEF Entered
<1> HIDE DEF U
<1>3. r[p] \in Seq(Nat) /\ Append(r[p], i) \in Seq(Nat)
  BY <1>1 DEF Spelled
<1>4. q \in [DOMAIN U -> Seq(Nat)]
  BY <1>1, <1>2, <1>3 DEF Spelled
<1>5. \A x \in DOMAIN T : x # y /\ q[x] = r[x]
  OBVIOUS
<1>6. q[y] = Append(r[p], i)
  OBVIOUS
<1> HIDE DEF q
<1>7. ASSUME NEW z \in DOMAIN U, z # Id
      PROVE  U[z][1] \in DOMAIN U /\ U[z][2] \in Nat /\ q[z] = Append(q[U[z][1]], U[z][2])
  <2>1. CASE z = y
    BY <1>2, <1>5, <1>6, <2>1
  <2>2. CASE z # y
    <3>1. z \in DOMAIN T /\ U[z] = T[z]
      BY <1>2, <2>2
    <3>2. T[z][1] \in DOMAIN T /\ T[z][2] \in Nat /\ r[z] = Append(r[T[z][1]], T[z][2])
      BY <1>1, <1>7, <3>1 DEF Spelled
    <3> QED BY <1>2, <1>5, <3>1, <3>2
  <2> QED BY <2>1, <2>2
<1>8. Spelled(U, q)
  BY <1>1, <1>2, <1>4, <1>5, <1>7 DEF Spelled
<1>9. \A x \in DOMAIN T : reduced_word(U, x) = r[x] /\ reduced_word(T, x) = r[x]
  BY <1>1, <1>2, <1>5, <1>8, WordRead
<1>10. reduced_word(U, y) = q[y]
  BY <1>2, <1>8, WordRead
<1>11. Readable(U)
  BY <1>8 DEF Readable
<1> QED BY <1>6, <1>9, <1>10, <1>11 DEF U

-----------------------------------------------------------------------------
(* The inductive invariant.                                                *)

Points(m) == IF KindOf[m] = "image" THEN [Lane -> Lane] ELSE Vec
\* The element entered last, whose square is computed.
Latest == newtodo[Len(newtodo)]

Shape ==
  /\ monoid \in Monoids
  /\ level \in Nat \ {0}
  /\ todo \in Seq(Points(monoid)) /\ newtodo \in Seq(Points(monoid))
  /\ v \in 1 .. Len(todo) + 1
  /\ g \in 1 .. Len(Gens)
  /\ v > Len(todo) => g = 1
  /\ pc \in {"visit", "read", "multiply"}
  /\ pc # "visit" => v <= Len(todo) /\ newtodo # <<>> /\ KindOf[monoid] = "act0"
  /\ finished \in BOOLEAN
  /\ finished => pc = "visit" /\ todo = <<>> /\ newtodo = <<>>
  /\ nidemp \in Nat
  /\ IsFiniteSet(DOMAIN elems)

\* The table spells words that lead to its elements, and the worklists are those
\* whose words have the length of the last pass and of this one.
Spells ==
  /\ Readable(elems)
  /\ DOMAIN elems \subseteq Vec
  /\ \A x \in DOMAIN elems :
       /\ reduced_word(elems, x) \in Seq(1 .. Len(Gens))
       /\ Walked(monoid, Id, reduced_word(elems, x)) = x
       /\ Depth(elems, x) <= level
Layers ==
  /\ Range(newtodo) = {x \in DOMAIN elems : Depth(elems, x) = level}
  /\ ~finished => Range(todo) = {x \in DOMAIN elems : Depth(elems, x) = level - 1}

\* A generator leads from x to an element of the table, at most one deeper.
Followed(T, m, x, i) ==
  LET y == Act(m, x, GensOf[m][i])
  IN  y \in DOMAIN T /\ Depth(T, y) <= Depth(T, x) + 1
\* Position j of the worklist has been over for generator i.
Behind(j, i) == j < v \/ (j = v /\ (i < g \/ (i = g /\ pc # "visit")))
Scanned ==
  /\ \A x \in DOMAIN elems : \A i \in 1 .. Len(Gens) :
       Depth(elems, x) < level - 1 \/ (finished /\ Depth(elems, x) < level) =>
         Followed(elems, monoid, x, i)
  /\ \A j \in 1 .. Len(todo) : \A i \in 1 .. Len(Gens) :
       Behind(j, i) => Followed(elems, monoid, todo[j], i)
WordsInv == KindOf[monoid] # "image" => Spells /\ Layers /\ Scanned

\* What has been read of the latest element's word, and multiplied with.
HalfWalked(m, p, rest, w, last) ==
  \E u \in Seq(Nat) : u \o rest = w /\ p = Walked(m, last, u)
Squared == {x \in Idempotents : pc # "visit" => x # Latest}
CountInv ==
  KindOf[monoid] = "act0" =>
    /\ word \in Seq(Nat)
    /\ pc = "visit" => word = <<>>
    /\ pc = "read" => /\ at \in DOMAIN elems
                      /\ reduced_word(elems, at) \o word = reduced_word(elems, Latest)
    /\ pc = "multiply" => HalfWalked(monoid, at, word, reduced_word(elems, Latest), Latest)
    /\ nidemp = Cardinality(Squared)

\* Every image has its edges or is the image of an element still to be visited.
Pending(k) ==
  \/ \E j \in v .. Len(todo) : Key(monoid, todo[j]) = k
  \/ \E j \in 1 .. Len(newtodo) : Key(monoid, newtodo[j]) = k
EdgesInv ==
  KindOf[monoid] = "image" =>
    /\ edges = [e \in DOMAIN edges |-> {Gens[e[2]][p] : p \in e[1]}]
    /\ DOMAIN edges \subseteq (DOMAIN elems) \X (1 .. Len(Gens))
    /\ \A k \in DOMAIN elems :
         (\A i \in 1 .. Len(Gens) : <<k, i>> \in DOMAIN edges) \/ Pending(k)
    /\ \A j \in 1 .. Len(todo) : Key(monoid, todo[j]) \in DOMAIN elems
    /\ \A j \in 1 .. Len(newtodo) : Key(monoid, newtodo[j]) \in DOMAIN elems
    /\ \A i \in 1 .. g - 1 : <<Key(monoid, todo[v]), i>> \in DOMAIN edges

LEMMA Points16 ==
  /\ Id \in Vec /\ Id \in [Lane -> Lane]
  /\ Lane = 0 .. 15 /\ Lane \subseteq Byte /\ 0 \in Byte /\ FF \in Byte /\ FF \notin Lane
  /\ Byte = 0 .. 255
BY MonoidsAssumption DEF Id, Vec, Lane, FF

LEMMA PermutedVec ==
  ASSUME NEW p \in Vec, NEW q \in Vec
  PROVE  Permuted(p, q) \in Vec
<1>1. ASSUME NEW i \in Lane PROVE Permuted(p, q)[i] \in Byte
  <2>1. q[i] \in 0 .. 255
    BY Points16 DEF Vec
  <2>2. Permuted(p, q)[i] = IF q[i] \in Lane THEN p[q[i]]
                            ELSE IF q[i] >= 128 THEN 0 ELSE p[q[i] % Size]
    BY DEF Permuted
  <2>3. q[i] % 16 \in 0 .. 15
    BY <2>1
  <2>4. Size = 16
    BY MonoidsAssumption
  <2>5. \A l \in Lane : p[l] \in Byte
    BY DEF Vec
  <2> QED BY <2>2, <2>3, <2>4, <2>5, Points16
<1>2. Permuted(p, q) = [i \in Lane |-> Permuted(p, q)[i]]
  BY DEF Permuted
<1> QED BY <1>1, <1>2 DEF Vec

LEMMA ActZeroVec ==
  ASSUME NEW p \in Vec, NEW q \in Vec
  PROVE  act0(p, q) \in Vec
<1> DEFINE pq == Permuted(p, q)
           b == Times(p, q)
           r == Undefined({i \in Lane : q[i] = FF},
                          Blend(SMax(p, b), SMin(p, b), [i \in Lane |-> Signed(q[i]) < i]))
<1>1. pq \in Vec
  BY PermutedVec
<1> HIDE DEF pq
<1>2. b = [i \in Lane |-> IF i \in {l \in Lane : q[l] = FF} THEN FF ELSE pq[i]]
  BY DEF Times, Undefined, pq
<1>0. FF \in Byte
  BY Points16
<1>3. b \in Vec
  <2>1. \A i \in Lane : pq[i] \in Byte
    BY <1>1 DEF Vec
  <2> QED BY <1>0, <1>2, <2>1 DEF Vec
<1> HIDE DEF b
<1>4. SMax(p, b) \in Vec /\ SMin(p, b) \in Vec
  BY <1>3 DEF SMax, SMin, Vec
<1>5. r \in Vec
  <2> DEFINE c == Blend(SMax(p, b), SMin(p, b), [i \in Lane |-> Signed(q[i]) < i])
  <2>1. c \in Vec
    BY <1>4 DEF Blend, Vec
  <2> HIDE DEF c
  <2> QED BY <1>0, <2>1 DEF Undefined, Vec, c
<1>6. act0(p, q) = Vector(r)
  BY DEF act0, b
<1> HIDE DEF r
<1> QED BY <1>5, <1>6 DEF Vector

LEMMA MonoidFacts ==
  ASSUME NEW m \in Monoids
  PROVE  /\ KindOf[m] \in {"act0", "product", "image"}
         /\ Len(GensOf[m]) \in Nat \ {0}
         /\ \A i \in 1 .. Len(GensOf[m]) : GensOf[m][i] \in Points(m)
<1>1. GensOf[m] \in Seq(Points(m)) /\ GensOf[m] # <<>>
  BY MonoidsAssumption DEF Points
<1> QED BY <1>1, MonoidsAssumption

\* The actions stay among the vectors of the program.
LEMMA ActType ==
  ASSUME NEW m \in Monoids, NEW p \in Points(m), NEW i \in 1 .. Len(GensOf[m])
  PROVE  Act(m, p, GensOf[m][i]) \in Points(m)
<1> DEFINE q == GensOf[m][i]
<1>1. q \in Points(m)
  BY MonoidFacts
<1> HIDE DEF q
<1>2. CASE KindOf[m] = "act0"
  BY <1>1, <1>2, ActZeroVec DEF Act, Points, q
<1>3. CASE KindOf[m] = "product"
  BY <1>1, <1>3, PermutedVec DEF Act, Points, TransfTimes, q
<1>4. CASE KindOf[m] = "image"
  <2>1. Permuted(q, p) = [j \in Lane |-> q[p[j]]]
    BY <1>1, <1>4, PermutedLane DEF Points
  <2>2. Permuted(q, p) \in [Lane -> Lane]
    BY <1>1, <1>4, <2>1 DEF Points
  <2> QED BY <1>4, <2>2 DEF Act, Points, TransfTimes, q
<1> QED BY <1>2, <1>3, <1>4, MonoidFacts

\* The image of a product depends on the image of its right factor only.
LEMMA ImageOfImage ==
  ASSUME NEW m \in Monoids, KindOf[m] = "image",
         NEW p \in Points(m), NEW i \in 1 .. Len(GensOf[m])
  PROVE  Key(m, Act(m, p, GensOf[m][i])) = {GensOf[m][i][x] : x \in Key(m, p)}
<1> DEFINE q == GensOf[m][i]
           pq == Permuted(q, p)
<1>1. q \in [Lane -> Lane] /\ p \in [Lane -> Lane]
  BY MonoidFacts DEF Points
<1> HIDE DEF q
<1>2. pq = [j \in Lane |-> q[p[j]]]
  BY <1>1, PermutedLane
<1> HIDE DEF pq
<1>3. pq \in [Lane -> Lane] /\ \A j \in Lane : pq[j] = q[p[j]]
  BY <1>1, <1>2
<1>4. ASSUME NEW r \in [Lane -> Lane]
      PROVE  Key(m, r) = {r[j] : j \in Lane}
  <2>0. FF \notin Lane
    BY Points16
  <2>1. \A j \in Lane : r[j] # FF
    BY <2>0
  <2>2. domain_mask(r, FALSE) = Lane
    BY <2>1 DEF domain_mask
  <2> QED BY <2>2 DEF Key, image_bitset, image_mask_ref
<1>5. Act(m, p, q) = pq
  BY DEF Act, TransfTimes, pq
<1>6. {pq[j] : j \in Lane} = {q[x] : x \in {p[j] : j \in Lane}}
  BY <1>3
<1>7. Key(m, pq) = {pq[j] : j \in Lane} /\ Key(m, p) = {p[j] : j \in Lane}
  BY <1>1, <1>3, <1>4
<1> QED BY <1>5, <1>6, <1>7 DEF q

LEMMA AdvanceFacts ==
  ASSUME Shape, Advance, v <= Len(todo)
  PROVE  /\ v' \in 1 .. Len(todo) + 1
         /\ g' \in 1 .. Len(Gens)
         /\ v' > Len(todo) => g' = 1
<1>1. Len(todo) \in Nat /\ Len(Gens) \in Nat \ {0}
  BY MonoidFacts DEF Shape, Gens
<1>2. v \in 1 .. Len(todo) + 1 /\ g \in 1 .. Len(Gens)
  BY DEF Shape
<1>3. CASE g < Len(Gens)
  <2>1. g' = g + 1 /\ v' = v
    BY <1>3 DEF Advance
  <2> QED BY <1>1, <1>2, <1>3, <2>1
<1>4. CASE ~(g < Len(Gens))
  <2>1. g' = 1 /\ v' = v + 1
    BY <1>4 DEF Advance
  <2> QED BY <1>1, <1>2, <1>4, <2>1
<1> QED BY <1>3, <1>4

\* The element that a visit makes.
LEMMA VisitFacts ==
  ASSUME Shape, Visit
  PROVE  LET el == Act(monoid, todo[v], Gens[g])
         IN  /\ el \in Points(monoid) /\ todo[v] \in Points(monoid)
             /\ v \in 1 .. Len(todo) /\ g \in 1 .. Len(Gens)
             /\ Known(el) \/ Insert(el)
             /\ edges' = IF KindOf[monoid] # "image" THEN edges
                         ELSE Entered(edges, <<Key(monoid, todo[v]), g>>, Key(monoid, el))
             /\ ~finished /\ pc = "visit"
             /\ UNCHANGED <<monoid, level, todo, nidemp, finished>>
<1>1. v \in 1 .. Len(todo) /\ g \in 1 .. Len(Gens) /\ monoid \in Monoids
  BY DEF Shape, Visit
<1>2. todo[v] \in Points(monoid)
  BY <1>1 DEF Shape
<1>3. Act(monoid, todo[v], Gens[g]) \in Points(monoid)
  BY <1>1, <1>2, ActType DEF Gens
<1> QED BY <1>1, <1>2, <1>3 DEF Visit

LEMMA SingleRange == Range(<<Id>>) = {Id}
BY DEF Range

LEMMA ShapeInit == EnumInit => Shape
<1> SUFFICES ASSUME EnumInit PROVE Shape
  OBVIOUS
<1>1. monoid \in Monoids /\ Len(Gens) \in Nat \ {0} /\ 1 \in 1 .. Len(Gens)
  BY MonoidFacts DEF EnumInit, Gens
<1>2. Id \in Points(monoid)
  BY Points16 DEF Points
<1>3. <<Id>> \in Seq(Points(monoid)) /\ Len(<<Id>>) = 1 /\ <<>> \in Seq(Points(monoid))
  BY <1>2
<1>4. IsFiniteSet({Key(monoid, Id)})
  BY FS_Singleton
<1>5. DOMAIN elems = {Key(monoid, Id)}
  BY DEF EnumInit
<1>6. IsFiniteSet(DOMAIN elems)
  BY <1>4, <1>5
<1>7. /\ todo = <<Id>> /\ newtodo = <<>> /\ v = 1 /\ g = 1 /\ level = 1
      /\ pc = "visit" /\ nidemp = 1 /\ finished = FALSE
  BY DEF EnumInit
<1>8. todo \in Seq(Points(monoid)) /\ newtodo \in Seq(Points(monoid)) /\ Len(todo) = 1
  BY <1>3, <1>7
<1>9. v \in 1 .. Len(todo) + 1 /\ g \in 1 .. Len(Gens) /\ (v > Len(todo) => g = 1)
  BY <1>1, <1>7, <1>8
<1>10. level \in Nat \ {0} /\ nidemp \in Nat /\ pc = "visit"
  BY <1>7
<1>11. finished = FALSE
  BY <1>7
<1>12. finished \in BOOLEAN /\ ~finished
  BY <1>11
<1> QED BY <1>1, <1>6, <1>8, <1>9, <1>10, <1>12 DEF Shape

LEMMA ShapeVisit == Shape /\ Visit => Shape'
<1> SUFFICES ASSUME Shape, Visit PROVE Shape'
  OBVIOUS
<1> DEFINE el == Act(monoid, todo[v], Gens[g])
<1>1. /\ el \in Points(monoid)
      /\ v \in 1 .. Len(todo)
      /\ Known(el) \/ Insert(el)
      /\ ~finished /\ pc = "visit"
      /\ UNCHANGED <<monoid, level, todo, nidemp, finished>>
  BY VisitFacts
<1>2. Gens' = Gens /\ Points(monoid)' = Points(monoid)
  BY <1>1 DEF Gens, Points
<1>3. v <= Len(todo) /\ Len(todo) \in Nat
  BY <1>1 DEF Shape
<1> HIDE DEF el
<1>4. CASE Known(el)
  <2>1. Advance /\ UNCHANGED <<elems, newtodo, pc>>
    BY <1>4 DEF Known, walk
  <2>2. /\ v' \in 1 .. Len(todo) + 1
        /\ g' \in 1 .. Len(Gens)
        /\ v' > Len(todo) => g' = 1
    BY <1>3, <2>1, AdvanceFacts
  <2> QED BY <1>1, <1>2, <2>1, <2>2 DEF Shape
<1>5. CASE Insert(el)
  <2>1. newtodo' = Append(newtodo, el) /\ newtodo \in Seq(Points(monoid))
    BY <1>5 DEF Insert, Shape
  <2>2. newtodo' \in Seq(Points(monoid)) /\ newtodo' # <<>>
    BY <1>1, <2>1
  <2>3. IsFiniteSet(DOMAIN elems')
    <3>1. DOMAIN elems' = (DOMAIN elems) \cup {Key(monoid, el)}
      BY <1>5 DEF Insert, Entered
    <3> QED BY <3>1, FS_AddElement DEF Shape
  <2>4. CASE KindOf[monoid] = "act0"
    <3>1. pc' = "read" /\ UNCHANGED <<v, g>>
      BY <1>5, <2>4 DEF Insert
    <3> QED BY <1>1, <1>2, <1>3, <2>2, <2>3, <2>4, <3>1 DEF Shape
  <2>5. CASE KindOf[monoid] # "act0"
    <3>1. Advance /\ UNCHANGED pc
      BY <1>5, <2>5 DEF Insert, walk
    <3>2. /\ v' \in 1 .. Len(todo) + 1
          /\ g' \in 1 .. Len(Gens)
          /\ v' > Len(todo) => g' = 1
      BY <1>3, <3>1, AdvanceFacts
    <3> QED BY <1>1, <1>2, <2>2, <2>3, <3>1, <3>2 DEF Shape
  <2> QED BY <2>4, <2>5
<1> QED BY <1>1, <1>4, <1>5

LEMMA ShapeStep == Shape /\ [EnumNext]_enumVars => Shape'
<1> SUFFICES ASSUME Shape, [EnumNext]_enumVars PROVE Shape'
  OBVIOUS
<1>1. ASSUME UNCHANGED monoid PROVE Gens' = Gens /\ Points(monoid)' = Points(monoid)
  BY <1>1 DEF Gens, Points
<1>2. CASE Visit
  BY <1>2, ShapeVisit
<1>3. CASE ReadBack
  <2>1. UNCHANGED <<monoid, level, todo, search, finished>> /\ pc' \in {"read", "multiply"} /\ pc = "read"
    BY <1>3 DEF ReadBack
  <2> QED BY <1>1, <2>1 DEF Shape, search
<1>4. CASE Multiply
  <2>1. UNCHANGED <<monoid, level, todo, search, pc, finished>>
    BY <1>4 DEF Multiply
  <2> QED BY <1>1, <2>1 DEF Shape, search
<1>5. CASE CountIdempotent
  <2>1. UNCHANGED <<monoid, level, todo, elems, newtodo, finished>> /\ pc' = "visit" /\ pc = "multiply" /\ Advance
    BY <1>5 DEF CountIdempotent
  <2>2. nidemp' \in Nat
    BY <1>5 DEF CountIdempotent, Shape
  <2>3. v <= Len(todo)
    BY <2>1 DEF Shape
  <2>4. /\ v' \in 1 .. Len(todo) + 1
        /\ g' \in 1 .. Len(Gens)
        /\ v' > Len(todo) => g' = 1
    BY <2>1, <2>3, AdvanceFacts
  <2> QED BY <1>1, <2>1, <2>2, <2>3, <2>4 DEF Shape
<1>6. CASE NextLevel
  <2>1. /\ ~finished /\ pc = "visit" /\ v > Len(todo)
        /\ todo' = newtodo /\ newtodo' = <<>> /\ v' = 1
        /\ finished' = (newtodo = <<>>)
        /\ level' = IF finished' THEN level ELSE level + 1
        /\ UNCHANGED <<monoid, elems, g, nidemp, pc>>
    BY <1>6 DEF NextLevel, walk
  <2>2. g = 1 /\ level' \in Nat \ {0}
    BY <2>1 DEF Shape
  <2>3. <<>> \in Seq(Points(monoid)) /\ Len(newtodo) \in Nat /\ v' \in 1 .. Len(newtodo) + 1
    BY <2>1 DEF Shape
  <2> QED BY <1>1, <2>1, <2>2, <2>3 DEF Shape
<1>7. CASE UNCHANGED enumVars
  BY <1>1, <1>7 DEF Shape, enumVars
<1> QED BY <1>2, <1>3, <1>4, <1>5, <1>6, <1>7 DEF EnumNext

LEMMA RangeFacts ==
  /\ Range(<<>>) = {}
  /\ \A S : \A t \in Seq(S) :
       /\ \A x : x \in Range(t) <=> \E j \in 1 .. Len(t) : t[j] = x
       /\ \A e \in S : Range(Append(t, e)) = Range(t) \cup {e}
<1>1. Range(<<>>) = {}
  BY DEF Range
<1>2. ASSUME NEW S, NEW t \in Seq(S)
      PROVE  \A x : x \in Range(t) <=> \E j \in 1 .. Len(t) : t[j] = x
  BY DEF Range
<1>3. ASSUME NEW S, NEW t \in Seq(S), NEW e \in S
      PROVE  Range(Append(t, e)) = Range(t) \cup {e}
  <2> DEFINE u == Append(t, e)
  <2>1. /\ u \in Seq(S) /\ Len(u) = Len(t) + 1 /\ Len(t) \in Nat
        /\ u[Len(t) + 1] = e /\ \A j \in 1 .. Len(t) : u[j] = t[j]
    OBVIOUS
  <2> HIDE DEF u
  <2>2. ASSUME NEW x PROVE x \in Range(u) <=> x \in Range(t) \/ x = e
    <3>1. x \in Range(u) <=> \E j \in 1 .. Len(t) + 1 : u[j] = x
      BY <1>2, <2>1
    <3>2. x \in Range(t) <=> \E j \in 1 .. Len(t) : t[j] = x
      BY <1>2
    <3>3. \A j \in 1 .. Len(t) + 1 : j \in 1 .. Len(t) \/ j = Len(t) + 1
      BY <2>1
    <3>4. Len(t) + 1 \in 1 .. Len(t) + 1 /\ \A j \in 1 .. Len(t) : j \in 1 .. Len(t) + 1
      BY <2>1
    <3> QED BY <2>1, <3>1, <3>2, <3>3, <3>4
  <2> QED BY <2>2 DEF u
<1> QED BY <1>1, <1>2, <1>3

\* Going on leaves the present position behind, and no other.
LEMMA AdvanceBehind ==
  ASSUME Shape, Advance, v <= Len(todo), pc' = "visit"
  PROVE  \A j \in 1 .. Len(todo) : \A i \in 1 .. Len(Gens) :
           Behind(j, i)' => Behind(j, i) \/ (j = v /\ i = g)
<1>1. Len(todo) \in Nat /\ Len(Gens) \in Nat
  BY MonoidFacts DEF Shape, Gens
<1>2. v \in 1 .. Len(todo) + 1 /\ g \in 1 .. Len(Gens)
  BY DEF Shape
<1> SUFFICES ASSUME NEW j \in 1 .. Len(todo), NEW i \in 1 .. Len(Gens), Behind(j, i)'
             PROVE  Behind(j, i) \/ (j = v /\ i = g)
  OBVIOUS
<1>3. j < v' \/ (j = v' /\ i < g')
  BY DEF Behind
<1>4. CASE g < Len(Gens)
  <2>1. g' = g + 1 /\ v' = v
    BY <1>4 DEF Advance
  <2> QED BY <1>1, <1>2, <1>3, <2>1 DEF Behind
<1>5. CASE ~(g < Len(Gens))
  <2>1. g' = 1 /\ v' = v + 1
    BY <1>5 DEF Advance
  <2> QED BY <1>1, <1>2, <1>3, <1>5, <2>1 DEF Behind
<1> QED BY <1>4, <1>5

LEMMA IdentityTable ==
  ASSUME NEW T, DOMAIN T = {Id}
  PROVE  Readable(T) /\ reduced_word(T, Id) = <<>>
<1> DEFINE r == [z \in {Id} |-> <<>>]
<1>1. Spelled(T, r)
  BY DEF Spelled
<1> QED BY <1>1, WordRead DEF Readable

LEMMA WordsInit == EnumInit => WordsInv
<1> SUFFICES ASSUME EnumInit, KindOf[monoid] # "image"
             PROVE  Spells /\ Layers /\ Scanned
  BY DEF WordsInv
<1>1. DOMAIN elems = {Id}
  BY DEF EnumInit, Key
<1>2. Readable(elems) /\ reduced_word(elems, Id) = <<>> /\ Depth(elems, Id) = 0
  <2>1. Readable(elems) /\ reduced_word(elems, Id) = <<>>
    BY <1>1, IdentityTable
  <2>2. Len(<<>>) = 0
    OBVIOUS
  <2> QED BY <2>1, <2>2 DEF Depth
<1>3. todo = <<Id>> /\ newtodo = <<>> /\ v = 1 /\ g = 1 /\ level = 1 /\ pc = "visit"
  BY DEF EnumInit
<1>4. finished = FALSE
  BY DEF EnumInit
<1>5. ~finished
  BY <1>4
<1>6. Spells
  <2>1. <<>> \in Seq(1 .. Len(Gens)) /\ Walked(monoid, Id, <<>>) = Id
    BY WalkedEmpty
  <2> QED BY <1>1, <1>2, <1>3, <2>1, Points16 DEF Spells
<1>7. Range(newtodo) = {} /\ Range(todo) = {Id}
  BY <1>3, RangeFacts, SingleRange
<1>8. Layers
  BY <1>1, <1>2, <1>3, <1>7 DEF Layers
<1>9. Len(todo) = 1
  BY <1>3
<1>10. Scanned
  BY <1>1, <1>2, <1>3, <1>5, <1>9 DEF Scanned, Behind
<1> QED BY <1>6, <1>8, <1>10

\* A visited element is one of the last pass's.
LEMMA VisitedDepth ==
  ASSUME Shape, Layers, ~finished, NEW j \in 1 .. Len(todo)
  PROVE  todo[j] \in DOMAIN elems /\ Depth(elems, todo[j]) = level - 1
<1>1. todo[j] \in Range(todo)
  BY RangeFacts DEF Shape
<1> QED BY <1>1 DEF Layers

\* A scan that goes on in the same table.
LEMMA ScanGoesOn ==
  ASSUME Shape, WordsInv, Advance, KindOf[monoid] # "image", ~finished,
         v \in 1 .. Len(todo), Followed(elems, monoid, todo[v], g), pc' = "visit",
         UNCHANGED <<monoid, elems, level, todo, newtodo, finished>>
  PROVE  WordsInv'
<1>1. Gens' = Gens
  BY DEF Gens
<1>2. Spells /\ Layers /\ Scanned
  BY DEF WordsInv
<1>3. Spells' /\ Layers'
  BY <1>1, <1>2 DEF Spells, Layers
<1>4. v <= Len(todo)
  BY DEF Shape
<1>5. \A j \in 1 .. Len(todo) : \A i \in 1 .. Len(Gens) :
        Behind(j, i)' => Followed(elems, monoid, todo[j], i)
  BY <1>2, <1>4, AdvanceBehind DEF Scanned
<1>6. \A x \in DOMAIN elems : \A i \in 1 .. Len(Gens) :
        Depth(elems, x) < level - 1 => Followed(elems, monoid, x, i)
  BY <1>2 DEF Scanned
<1>7. Scanned'
  BY <1>1, <1>5, <1>6 DEF Scanned
<1> QED BY <1>3, <1>7 DEF WordsInv

LEMMA WordsKnown ==
  ASSUME Shape, WordsInv, Visit, KindOf[monoid] # "image",
         Known(Act(monoid, todo[v], Gens[g]))
  PROVE  WordsInv'
<1> DEFINE el == Act(monoid, todo[v], Gens[g])
<1>1. v \in 1 .. Len(todo) /\ g \in 1 .. Len(Gens)
      /\ ~finished /\ pc = "visit" /\ UNCHANGED <<monoid, level, todo, nidemp, finished>>
  BY VisitFacts
<1>2. el \in DOMAIN elems /\ Advance /\ UNCHANGED <<elems, newtodo, pc>>
  BY DEF Known, Key, walk
<1>3. Spells /\ Layers
  BY DEF WordsInv
<1>4. Depth(elems, todo[v]) = level - 1 /\ Depth(elems, el) <= level /\ level \in Nat
  BY <1>1, <1>2, <1>3, VisitedDepth DEF Spells, Shape
<1>5. Followed(elems, monoid, todo[v], g)
  BY <1>2, <1>4 DEF Followed, Gens
<1> QED BY <1>1, <1>2, <1>5, ScanGoesOn

LEMMA WordsInsert ==
  ASSUME Shape, WordsInv, Visit, KindOf[monoid] # "image",
         Insert(Act(monoid, todo[v], Gens[g]))
  PROVE  WordsInv'
<1> DEFINE el == Act(monoid, todo[v], Gens[g])
           par == todo[v]
<1>1. /\ v \in 1 .. Len(todo) /\ g \in 1 .. Len(Gens)
      /\ ~finished /\ pc = "visit" /\ UNCHANGED <<monoid, level, todo, nidemp, finished>>
      /\ el \in Vec
  BY VisitFacts DEF Points
<1>2. /\ el \notin DOMAIN elems /\ elems' = Entered(elems, el, <<par, g>>)
      /\ newtodo' = Append(newtodo, el)
  BY DEF Insert, Key
<1>3. Spells /\ Layers /\ Scanned
  BY DEF WordsInv
<1>4. par \in DOMAIN elems /\ Depth(elems, par) = level - 1
  BY <1>1, <1>3, VisitedDepth
<1>5. level \in Nat /\ g \in Nat
  BY <1>1 DEF Shape
<1>6. Gens' = Gens /\ Gens = GensOf[monoid]
  BY <1>1 DEF Gens
<1>7. Walked(monoid, Id, reduced_word(elems, par)) = par /\ reduced_word(elems, par) \in Seq(Nat)
  <2>1. reduced_word(elems, par) \in Seq(Nat)
    BY <1>3, <1>4, WordType DEF Spells
  <2> QED BY <1>3, <1>4, <2>1 DEF Spells
<1>9. Walked(monoid, Id, Append(reduced_word(elems, par), g)) = el
  BY <1>5, <1>6, <1>7, WalkedAppend
<1> HIDE DEF el, par
<1>10. /\ Readable(elems')
       /\ DOMAIN elems' = DOMAIN elems \cup {el}
       /\ \A x \in DOMAIN elems : reduced_word(elems', x) = reduced_word(elems, x)
       /\ reduced_word(elems', el) = Append(reduced_word(elems, par), g)
  <2>1. Readable(elems)
    BY <1>3 DEF Spells
  <2>2. DOMAIN elems' = DOMAIN elems \cup {el}
    BY <1>2 DEF Entered
  <2> QED BY <1>2, <1>4, <1>5, <2>1, <2>2, WordsKept
<1>11. \A x \in DOMAIN elems : Depth(elems', x) = Depth(elems, x)
  BY <1>10 DEF Depth
<1>12. Depth(elems', el) = level
  BY <1>4, <1>5, <1>7, <1>10 DEF Depth
<1>13. Spells'
  <2>1. DOMAIN elems' \subseteq Vec
    BY <1>1, <1>3, <1>10 DEF Spells
  <2>2. ASSUME NEW x \in DOMAIN elems'
        PROVE  /\ reduced_word(elems', x) \in Seq(1 .. Len(Gens))
               /\ Walked(monoid, Id, reduced_word(elems', x)) = x
               /\ Depth(elems', x) <= level
    <3>1. CASE x = el
      <4>1. Walked(monoid, Id, reduced_word(elems', el)) = el
        BY <1>9, <1>10
      <4>2. Depth(elems', el) <= level
        BY <1>5, <1>12
      <4>3. Append(reduced_word(elems, par), g) \in Seq(1 .. Len(Gens))
        <5>1. reduced_word(elems, par) \in Seq(1 .. Len(Gens))
          BY <1>3, <1>4 DEF Spells
        <5> QED BY <1>1, <5>1
      <4> QED BY <1>10, <3>1, <4>1, <4>2, <4>3
    <3>2. CASE x # el
      BY <1>3, <1>10, <1>11, <3>2 DEF Spells
    <3> QED BY <3>1, <3>2
  <2> QED BY <1>1, <1>6, <1>10, <2>1, <2>2 DEF Spells
<1>14. Layers'
  <2>1. Range(newtodo') = Range(newtodo) \cup {el}
    BY <1>1, <1>2, RangeFacts DEF Shape, Points
  <2>2. Range(newtodo) = {x \in DOMAIN elems : Depth(elems, x) = level}
    BY <1>3 DEF Layers
  <2>3. Range(newtodo') = {x \in DOMAIN elems' : Depth(elems', x) = level}
    BY <1>10, <1>11, <1>12, <2>1, <2>2
  <2>4. Range(todo) = {x \in DOMAIN elems : Depth(elems, x) = level - 1}
    BY <1>1, <1>3 DEF Layers
  <2>5. level # level - 1
    BY <1>5
  <2>6. Range(todo) = {x \in DOMAIN elems' : Depth(elems', x) = level - 1}
    BY <1>10, <1>11, <1>12, <2>4, <2>5
  <2> QED BY <1>1, <2>3, <2>6 DEF Layers
<1>15. \A x \in DOMAIN elems : \A i \in 1 .. Len(Gens) :
         Followed(elems, monoid, x, i) => Followed(elems', monoid, x, i)
  BY <1>10, <1>11 DEF Followed
<1>16. Followed(elems', monoid, par, g)
  <2>1. Act(monoid, par, GensOf[monoid][g]) = el
    BY <1>6 DEF el, par
  <2> QED BY <1>4, <1>5, <1>10, <1>11, <1>12, <2>1 DEF Followed
<1>17. \A j \in 1 .. Len(todo) : \A i \in 1 .. Len(Gens) :
         Behind(j, i)' => Behind(j, i) \/ (j = v /\ i = g)
  <2>1. CASE KindOf[monoid] = "act0"
    <3>1. UNCHANGED <<v, g>>
      BY <2>1 DEF Insert
    <3> QED BY <1>1, <3>1 DEF Behind
  <2>2. CASE KindOf[monoid] # "act0"
    <3>1. Advance /\ pc' = "visit" /\ v <= Len(todo)
      BY <1>1, <2>2 DEF Insert, walk, Shape
    <3> QED BY <3>1, AdvanceBehind
  <2> QED BY <2>1, <2>2
<1>18. Scanned'
  <2>1. ASSUME NEW x \in DOMAIN elems', NEW i \in 1 .. Len(Gens), Depth(elems', x) < level - 1
        PROVE  Followed(elems', monoid, x, i)
    <3>1. x # el
      BY <1>5, <1>12, <2>1
    <3>2. x \in DOMAIN elems /\ Depth(elems, x) < level - 1
      BY <1>10, <1>11, <2>1, <3>1
    <3> QED BY <1>3, <1>15, <3>2 DEF Scanned
  <2>2. ASSUME NEW j \in 1 .. Len(todo), NEW i \in 1 .. Len(Gens), Behind(j, i)'
        PROVE  Followed(elems', monoid, todo[j], i)
    <3>1. CASE j = v /\ i = g
      BY <1>16, <3>1 DEF par
    <3>2. CASE ~(j = v /\ i = g)
      <4>1. Followed(elems, monoid, todo[j], i)
        BY <1>3, <1>17, <2>2, <3>2 DEF Scanned
      <4>2. todo[j] \in DOMAIN elems
        BY <1>1, <1>3, VisitedDepth
      <4> QED BY <1>15, <4>1, <4>2
    <3> QED BY <3>1, <3>2
  <2> QED BY <1>1, <1>6, <2>1, <2>2 DEF Scanned
<1> QED BY <1>13, <1>14, <1>18 DEF WordsInv

\* When a pass is over, every element of the earlier ones has been followed.
LEMMA PassFollowed ==
  ASSUME Shape, WordsInv, KindOf[monoid] # "image", PassOver,
         NEW x \in DOMAIN elems, NEW i \in 1 .. Len(Gens), Depth(elems, x) < level
  PROVE  Followed(elems, monoid, x, i)
<1>1. Spells /\ Layers /\ Scanned
  BY DEF WordsInv
<1>2. level \in Nat /\ Depth(elems, x) \in Nat /\ v \in Nat /\ Len(todo) \in Nat
  BY <1>1, WordType DEF Spells, Shape
<1>3. CASE Depth(elems, x) < level - 1 \/ finished
  BY <1>1, <1>3 DEF Scanned
<1>4. CASE ~(Depth(elems, x) < level - 1 \/ finished)
  <2>1. Depth(elems, x) = level - 1 /\ ~finished /\ v > Len(todo)
    BY <1>2, <1>4 DEF PassOver
  <2>2. x \in Range(todo)
    BY <1>1, <2>1 DEF Layers
  <2>3. PICK j \in 1 .. Len(todo) : todo[j] = x
    BY <2>2, RangeFacts DEF Shape
  <2>4. Behind(j, i)
    BY <1>2, <2>1 DEF Behind
  <2> QED BY <1>1, <2>3, <2>4 DEF Scanned
<1> QED BY <1>3, <1>4

LEMMA WordsNextLevel ==
  ASSUME Shape, WordsInv, NextLevel, KindOf[monoid] # "image"
  PROVE  WordsInv'
<1>1. /\ ~finished /\ pc = "visit" /\ v > Len(todo)
      /\ todo' = newtodo /\ newtodo' = <<>> /\ v' = 1
      /\ finished' = (newtodo = <<>>)
      /\ level' = IF finished' THEN level ELSE level + 1
      /\ UNCHANGED <<monoid, elems, g, nidemp, pc>>
  BY DEF NextLevel, walk
<1>2. Gens' = Gens
  BY <1>1 DEF Gens
<1>3. Spells /\ Layers /\ Scanned
  BY DEF WordsInv
<1>4. level \in Nat /\ g = 1 /\ Len(todo) \in Nat /\ v \in Nat
  BY <1>1 DEF Shape
<1>5. \A x \in DOMAIN elems : Depth(elems, x) \in Nat /\ Depth(elems, x) <= level
  BY <1>3, WordType DEF Spells
<1>6. ASSUME NEW x \in DOMAIN elems, NEW i \in 1 .. Len(Gens), Depth(elems, x) < level
      PROVE  Followed(elems, monoid, x, i)
  BY <1>1, <1>6, PassFollowed DEF PassOver
<1>7. CASE newtodo = <<>>
  <2>1. level' = level /\ finished'
    BY <1>1, <1>7
  <2>2. Spells'
    BY <1>1, <1>2, <1>3, <2>1 DEF Spells
  <2>3. Layers'
    BY <1>1, <1>3, <1>7, <2>1 DEF Layers
  <2>4. Len(todo') = 0
    BY <1>1, <1>7
  <2>5. Scanned'
    BY <1>1, <1>2, <1>4, <1>5, <1>6, <2>1, <2>4 DEF Scanned
  <2> QED BY <2>2, <2>3, <2>5 DEF WordsInv
<1>8. CASE newtodo # <<>>
  <2>1. level' = level + 1 /\ ~finished'
    BY <1>1, <1>8
  <2>2. Spells'
    BY <1>1, <1>2, <1>3, <1>4, <1>5, <2>1 DEF Spells
  <2>3. Layers'
    <3>1. Range(newtodo') = {}
      BY <1>1, RangeFacts
    <3>2. \A x \in DOMAIN elems : Depth(elems, x) # level + 1
      BY <1>4, <1>5
    <3>3. Range(todo') = {x \in DOMAIN elems : Depth(elems, x) = level}
      BY <1>1, <1>3 DEF Layers
    <3>4. (level + 1) - 1 = level
      BY <1>4
    <3> QED BY <1>1, <2>1, <3>1, <3>2, <3>3, <3>4 DEF Layers
  <2>4. Scanned'
    <3>1. (level + 1) - 1 = level
      BY <1>4
    <3>2. \A j \in 1 .. Len(todo)' : \A i \in 1 .. Len(Gens) : ~Behind(j, i)'
      BY <1>1, <1>4 DEF Behind
    <3> QED BY <1>1, <1>2, <1>6, <2>1, <3>1, <3>2 DEF Scanned
  <2> QED BY <2>2, <2>3, <2>4 DEF WordsInv
<1> QED BY <1>7, <1>8

LEMMA WordsStep == Shape /\ WordsInv /\ [EnumNext]_enumVars => WordsInv'
<1> SUFFICES ASSUME Shape, WordsInv, [EnumNext]_enumVars PROVE WordsInv'
  OBVIOUS
<1>0. monoid' = monoid
  BY DEF EnumNext, Visit, ReadBack, Multiply, CountIdempotent, NextLevel, enumVars
<1>1. CASE KindOf[monoid] = "image"
  BY <1>0, <1>1 DEF WordsInv
<1>2. CASE KindOf[monoid] # "image"
  \* Neither what has been scanned nor the table changes while a word is read.
  <2>1. ASSUME UNCHANGED <<monoid, level, todo, search, finished>>,
               pc' = pc \/ (pc = "read" /\ pc' = "multiply")
        PROVE  WordsInv'
    <3>1. UNCHANGED <<elems, newtodo, v, g>> /\ Gens' = Gens
      BY <2>1 DEF search, Gens
    <3>2. Spells /\ Layers /\ Scanned
      BY <1>2 DEF WordsInv
    <3>3. \A j, i : Behind(j, i)' = Behind(j, i)
      BY <2>1, <3>1 DEF Behind
    <3>4. Spells' /\ Layers'
      BY <2>1, <3>1, <3>2 DEF Spells, Layers
    <3>5. Scanned'
      BY <2>1, <3>1, <3>2, <3>3 DEF Scanned
    <3> QED BY <3>4, <3>5 DEF WordsInv
  <2>2. CASE Visit
    BY <1>2, <2>2, VisitFacts, WordsKnown, WordsInsert
  <2>3. CASE ReadBack
    <3>1. UNCHANGED <<monoid, level, todo, search, finished>> /\ pc = "read" /\ pc' \in {"read", "multiply"}
      BY <2>3 DEF ReadBack
    <3> QED BY <2>1, <3>1
  <2>4. CASE Multiply
    BY <2>1, <2>4 DEF Multiply
  <2>5. CASE CountIdempotent
    <3>1. /\ pc = "multiply" /\ pc' = "visit" /\ Advance
          /\ UNCHANGED <<monoid, level, todo, elems, newtodo, finished>>
      BY <2>5 DEF CountIdempotent
    <3>2. v \in 1 .. Len(todo) /\ g \in 1 .. Len(Gens) /\ ~finished
      BY <3>1 DEF Shape
    <3>3. Followed(elems, monoid, todo[v], g)
      BY <1>2, <3>1, <3>2 DEF WordsInv, Scanned, Behind
    <3> QED BY <1>2, <3>1, <3>2, <3>3, ScanGoesOn
  <2>6. CASE NextLevel
    BY <1>2, <2>6, WordsNextLevel
  <2>7. CASE UNCHANGED enumVars
    BY <2>1, <2>7 DEF enumVars, search
  <2> QED BY <2>2, <2>3, <2>4, <2>5, <2>6, <2>7 DEF EnumNext
<1> QED BY <1>1, <1>2

-----------------------------------------------------------------------------
(* The idempotents counted.                                                *)

LEMMA WordParent ==
  ASSUME NEW T, Readable(T)
  PROVE  /\ Id \in DOMAIN T /\ reduced_word(T, Id) = <<>>
         /\ \A x \in DOMAIN T : x # Id =>
              /\ T[x][1] \in DOMAIN T /\ T[x][2] \in Nat
              /\ reduced_word(T, x) = Append(reduced_word(T, T[x][1]), T[x][2])
<1>1. PICK r : Spelled(T, r)
  BY DEF Readable
<1>2. \A x \in DOMAIN T : reduced_word(T, x) = r[x]
  BY <1>1, WordRead
<1>3. Id \in DOMAIN T /\ r[Id] = <<>>
  BY <1>1 DEF Spelled
<1>4. ASSUME NEW x \in DOMAIN T, x # Id
      PROVE  T[x][1] \in DOMAIN T /\ T[x][2] \in Nat /\ r[x] = Append(r[T[x][1]], T[x][2])
  BY <1>1, <1>4 DEF Spelled
<1> QED BY <1>2, <1>3, <1>4

\* A letter may stand at the end of the first word or at the head of the second.
LEMMA Letters ==
  ASSUME NEW u \in Seq(Nat), NEW w \in Seq(Nat)
  PROVE  /\ u \o <<>> = u /\ <<>> \o u = u
         /\ \A i \in Nat : Append(u, i) \o w = u \o (<<i>> \o w)
         /\ w # <<>> => /\ Head(w) \in Nat /\ Tail(w) \in Seq(Nat)
                        /\ Append(u, Head(w)) \o Tail(w) = u \o w
<1>1. u \o <<>> = u /\ <<>> \o u = u
  OBVIOUS
<1>2. ASSUME NEW i \in Nat, NEW t \in Seq(Nat)
      PROVE  Append(u, i) \o t = u \o (<<i>> \o t)
  OBVIOUS
<1>3. ASSUME w # <<>>
      PROVE  Head(w) \in Nat /\ Tail(w) \in Seq(Nat) /\ <<Head(w)>> \o Tail(w) = w
  BY <1>3
<1> QED BY <1>1, <1>2, <1>3

LEMMA LatestFacts ==
  ASSUME Shape, newtodo # <<>>
  PROVE  Latest \in Points(monoid) /\ (Layers => Latest \in DOMAIN elems)
<1>1. Len(newtodo) \in 1 .. Len(newtodo) /\ newtodo \in Seq(Points(monoid))
  BY DEF Shape
<1>2. Latest \in Range(newtodo) /\ Latest \in Points(monoid)
  BY <1>1, RangeFacts DEF Latest
<1> QED BY <1>2 DEF Layers

LEMMA CountInit == EnumInit => CountInv
<1> SUFFICES ASSUME EnumInit, KindOf[monoid] = "act0" PROVE CountInv
  BY DEF CountInv
<1>1. DOMAIN elems = {Id}
  BY DEF EnumInit, Key
<1>2. pc = "visit" /\ word = <<>> /\ nidemp = 1 /\ <<>> \in Seq(Nat)
  BY DEF EnumInit
<1>3. mult0(monoid, elems, Id, Id) = Id
  BY <1>1, IdentityTable, WalkedEmpty DEF mult0
<1>4. Squared = {Id}
  BY <1>1, <1>2, <1>3 DEF Squared, Idempotents
<1>5. nidemp = Cardinality(Squared)
  BY <1>2, <1>4, FS_Singleton
<1> QED BY <1>2, <1>5 DEF CountInv

LEMMA CountVisit ==
  ASSUME Shape, WordsInv, CountInv, Visit, KindOf[monoid] = "act0"
  PROVE  CountInv'
<1> DEFINE el == Act(monoid, todo[v], Gens[g])
<1>1. /\ v \in 1 .. Len(todo) /\ g \in 1 .. Len(Gens)
      /\ Known(el) \/ Insert(el)
      /\ ~finished /\ pc = "visit" /\ UNCHANGED <<monoid, level, todo, nidemp, finished>>
      /\ el \in Vec
  BY VisitFacts DEF Points
<1>2. Spells /\ Layers
  BY DEF WordsInv
<1>3. word = <<>> /\ word \in Seq(Nat) /\ nidemp = Cardinality(Squared) /\ Squared = Idempotents
  BY <1>1 DEF CountInv, Squared
<1>4. CASE Known(el)
  <2>1. UNCHANGED <<elems, newtodo, pc, word, at>>
    BY <1>4 DEF Known, walk
  <2>2. Squared' = Idempotents'
    BY <1>1, <2>1 DEF Squared
  <2>3. Idempotents' = Idempotents
    BY <1>1, <2>1 DEF Idempotents
  <2> QED BY <1>1, <1>3, <2>1, <2>2, <2>3 DEF CountInv
<1>5. CASE Insert(el)
  <2>1. /\ el \notin DOMAIN elems /\ elems' = Entered(elems, el, <<todo[v], g>>)
        /\ newtodo' = Append(newtodo, el) /\ pc' = "read" /\ at' = el /\ UNCHANGED word
    BY <1>5 DEF Insert, Key
  <2>2. todo[v] \in DOMAIN elems /\ g \in Nat /\ Readable(elems)
    BY <1>1, <1>2, VisitedDepth DEF Spells
  <2> HIDE DEF el
  <2>3. /\ Readable(elems')
        /\ \A x \in DOMAIN elems : reduced_word(elems', x) = reduced_word(elems, x)
    BY <2>1, <2>2, WordsKept
  <2>4. DOMAIN elems' = DOMAIN elems \cup {el}
    BY <2>1 DEF Entered
  <2>5. Latest' = el
    <3>1. newtodo \in Seq(Vec)
      BY DEF Shape, Points
    <3>2. Append(newtodo, el)[Len(Append(newtodo, el))] = el
      BY <1>1, <3>1
    <3> QED BY <2>1, <3>2 DEF Latest
  <2>6. reduced_word(elems', el) \in Seq(Nat)
    BY <2>3, <2>4, WordType
  <2>7. reduced_word(elems', at') \o word' = reduced_word(elems', Latest')
    BY <1>3, <2>1, <2>5, <2>6, Letters
  <2>8. Squared' = Idempotents
    <3>1. \A x \in DOMAIN elems : mult0(monoid, elems', x, x) = mult0(monoid, elems, x, x)
      BY <2>3 DEF mult0
    <3>2. Squared' = {x \in DOMAIN elems' : mult0(monoid, elems', x, x) = x /\ x # el}
      BY <1>1, <2>1, <2>5 DEF Squared, Idempotents
    <3>3. Idempotents = {x \in DOMAIN elems : mult0(monoid, elems, x, x) = x}
      BY DEF Idempotents
    <3> QED BY <2>1, <2>4, <3>1, <3>2, <3>3
  <2>9. at' \in DOMAIN elems'
    BY <2>1, <2>4
  <2> QED BY <1>1, <1>3, <2>1, <2>7, <2>8, <2>9 DEF CountInv
<1> QED BY <1>1, <1>4, <1>5

LEMMA CountReadBack ==
  ASSUME Shape, WordsInv, CountInv, ReadBack, KindOf[monoid] = "act0"
  PROVE  CountInv'
<1>1. pc = "read" /\ UNCHANGED <<monoid, elems, newtodo, nidemp>>
  BY DEF ReadBack, search
<1>2. /\ word \in Seq(Nat) /\ at \in DOMAIN elems /\ nidemp = Cardinality(Squared)
      /\ reduced_word(elems, at) \o word = reduced_word(elems, Latest)
  BY <1>1 DEF CountInv
<1>3. Readable(elems)
  BY DEF WordsInv, Spells
<1>4. Latest' = Latest /\ Idempotents' = Idempotents
  BY <1>1 DEF Latest, Idempotents
<1>5. ASSUME pc' # "visit" PROVE Squared' = Squared
  BY <1>1, <1>4, <1>5 DEF Squared
<1>6. CASE at # Id
  <2>1. /\ at' = elems[at][1] /\ word' = <<elems[at][2]>> \o word /\ pc' = "read"
    BY <1>1, <1>6 DEF ReadBack
  <2>2. /\ elems[at][1] \in DOMAIN elems /\ elems[at][2] \in Nat
        /\ reduced_word(elems, at) = Append(reduced_word(elems, elems[at][1]), elems[at][2])
    BY <1>2, <1>3, <1>6, WordParent
  <2>3. reduced_word(elems, elems[at][1]) \in Seq(Nat)
    BY <1>3, <2>2, WordType
  <2>4. reduced_word(elems, at') \o word' = reduced_word(elems, Latest)
    <3> DEFINE u == reduced_word(elems, elems[at][1])
               i == elems[at][2]
    <3>0. u \in Seq(Nat) /\ i \in Nat /\ word \in Seq(Nat)
      BY <1>2, <2>2, <2>3
    <3> HIDE DEF u, i
    <3>1. Append(u, i) \o word = u \o (<<i>> \o word)
      BY <3>0, Letters
    <3>2. reduced_word(elems, at') = u /\ word' = <<i>> \o word
      BY <2>1 DEF u, i
    <3>3. reduced_word(elems, at) = Append(u, i)
      BY <2>2 DEF u, i
    <3> QED BY <1>2, <3>1, <3>2, <3>3
  <2>5. word' \in Seq(Nat)
    BY <1>2, <2>1, <2>2
  <2> QED BY <1>1, <1>2, <1>4, <1>5, <2>1, <2>2, <2>4, <2>5 DEF CountInv
<1>7. CASE at = Id
  <2>1. at' = Latest /\ pc' = "multiply" /\ word' = word
    BY <1>1, <1>7 DEF ReadBack, Latest
  <2>2. word = reduced_word(elems, Latest)
    BY <1>2, <1>3, <1>7, WordParent, Letters
  <2>3. <<>> \in Seq(Nat) /\ <<>> \o word = reduced_word(elems, Latest)
    BY <1>2, <2>2, Letters
  <2>4. HalfWalked(monoid, at', word', reduced_word(elems, Latest), Latest)
    <3>1. Walked(monoid, Latest, <<>>) = Latest
      BY WalkedEmpty
    <3> QED BY <2>1, <2>3, <3>1 DEF HalfWalked
  <2> QED BY <1>1, <1>2, <1>4, <1>5, <2>1, <2>4 DEF CountInv
<1> QED BY <1>6, <1>7

LEMMA CountMultiply ==
  ASSUME Shape, WordsInv, CountInv, Multiply, KindOf[monoid] = "act0"
  PROVE  CountInv'
<1>1. /\ pc = "multiply" /\ pc' = pc /\ word # <<>>
      /\ at' = act0(at, Gens[Head(word)]) /\ word' = Tail(word)
      /\ UNCHANGED <<monoid, elems, newtodo, nidemp>>
  BY DEF Multiply, search
<1>2. /\ word \in Seq(Nat) /\ nidemp = Cardinality(Squared)
      /\ HalfWalked(monoid, at, word, reduced_word(elems, Latest), Latest)
  BY <1>1 DEF CountInv
<1>3. PICK u \in Seq(Nat) : u \o word = reduced_word(elems, Latest) /\ at = Walked(monoid, Latest, u)
  BY <1>2 DEF HalfWalked
<1>4. /\ Head(word) \in Nat /\ Tail(word) \in Seq(Nat)
      /\ Append(u, Head(word)) \o Tail(word) = u \o word
  BY <1>1, <1>2, Letters
<1>5. Append(u, Head(word)) \in Seq(Nat)
  BY <1>4
<1>6. at' = Walked(monoid, Latest, Append(u, Head(word)))
  <2>1. Walked(monoid, Latest, Append(u, Head(word))) = Act(monoid, at, GensOf[monoid][Head(word)])
    BY <1>3, <1>4, WalkedAppend
  <2> QED BY <1>1, <2>1 DEF Act, Gens
<1>7. HalfWalked(monoid, at', word', reduced_word(elems, Latest), Latest)
  BY <1>1, <1>3, <1>4, <1>5, <1>6 DEF HalfWalked
<1>8. Latest' = Latest /\ Idempotents' = Idempotents
  BY <1>1 DEF Latest, Idempotents
<1>9. Squared' = Squared
  BY <1>1, <1>8 DEF Squared
<1> QED BY <1>1, <1>2, <1>4, <1>7, <1>8, <1>9 DEF CountInv

LEMMA CountCounted ==
  ASSUME Shape, WordsInv, CountInv, CountIdempotent, KindOf[monoid] = "act0"
  PROVE  CountInv'
<1>1. /\ pc = "multiply" /\ pc' = "visit" /\ word = <<>>
      /\ nidemp' = nidemp + IF at = Latest THEN 1 ELSE 0
      /\ UNCHANGED <<monoid, elems, newtodo, word>>
  BY DEF CountIdempotent, Latest
<1>2. /\ word \in Seq(Nat) /\ nidemp = Cardinality(Squared)
      /\ HalfWalked(monoid, at, word, reduced_word(elems, Latest), Latest)
  BY <1>1 DEF CountInv
<1>3. PICK u \in Seq(Nat) : u \o word = reduced_word(elems, Latest) /\ at = Walked(monoid, Latest, u)
  BY <1>2 DEF HalfWalked
<1>4. at = mult0(monoid, elems, Latest, Latest)
  BY <1>1, <1>3, Letters DEF mult0
<1>5. newtodo # <<>> /\ Layers
  BY <1>1 DEF Shape, WordsInv
<1>6. Latest \in DOMAIN elems
  BY <1>5, LatestFacts
<1>7. Latest \in Idempotents <=> at = Latest
  BY <1>4, <1>6 DEF Idempotents
<1>8. Squared = Idempotents \ {Latest}
  BY <1>1 DEF Squared
<1>9. Squared' = Idempotents
  BY <1>1 DEF Squared, Idempotents
<1>10. IsFiniteSet(Idempotents)
  BY FS_Subset DEF Idempotents, Shape
<1>11. nidemp' = Cardinality(Idempotents)
  <2>1. CASE at = Latest
    <3>1. Cardinality(Idempotents \ {Latest}) = Cardinality(Idempotents) - 1
      BY <1>7, <1>10, <2>1, FS_RemoveElement
    <3>2. Cardinality(Idempotents) \in Nat
      BY <1>10, FS_CardinalityType
    <3> QED BY <1>1, <1>2, <1>8, <2>1, <3>1, <3>2
  <2>2. CASE at # Latest
    <3>1. Squared = Idempotents
      BY <1>7, <1>8, <2>2
    <3>2. Cardinality(Idempotents) \in Nat
      BY <1>10, FS_CardinalityType
    <3> QED BY <1>1, <1>2, <2>2, <3>1, <3>2
  <2> QED BY <2>1, <2>2
<1> QED BY <1>1, <1>2, <1>9, <1>11 DEF CountInv

LEMMA CountStep == Shape /\ WordsInv /\ CountInv /\ [EnumNext]_enumVars => CountInv'
<1> SUFFICES ASSUME Shape, WordsInv, CountInv, [EnumNext]_enumVars PROVE CountInv'
  OBVIOUS
<1>0. monoid' = monoid
  BY DEF EnumNext, Visit, ReadBack, Multiply, CountIdempotent, NextLevel, enumVars
<1>1. CASE KindOf[monoid] # "act0"
  BY <1>0, <1>1 DEF CountInv
<1>2. CASE KindOf[monoid] = "act0"
  <2>1. ASSUME UNCHANGED <<monoid, elems, nidemp, word, at, pc>>, UNCHANGED newtodo \/ pc = "visit"
        PROVE  CountInv'
    <3>1. Idempotents' = Idempotents /\ (UNCHANGED newtodo => Latest' = Latest)
      BY <2>1 DEF Idempotents, Latest
    <3>2. Squared' = Squared
      BY <2>1, <3>1 DEF Squared
    <3> QED BY <1>2, <2>1, <3>1, <3>2 DEF CountInv
  <2>2. CASE Visit
    BY <1>2, <2>2, CountVisit
  <2>3. CASE ReadBack
    BY <1>2, <2>3, CountReadBack
  <2>4. CASE Multiply
    BY <1>2, <2>4, CountMultiply
  <2>5. CASE CountIdempotent
    BY <1>2, <2>5, CountCounted
  <2>6. CASE NextLevel
    BY <2>1, <2>6 DEF NextLevel, walk
  <2>7. CASE UNCHANGED enumVars
    BY <2>1, <2>7 DEF enumVars
  <2> QED BY <2>2, <2>3, <2>4, <2>5, <2>6, <2>7 DEF EnumNext
<1> QED BY <1>1, <1>2

-----------------------------------------------------------------------------
(* The edges between images.                                               *)

LEMMA EdgesInit == EnumInit => EdgesInv
<1> SUFFICES ASSUME EnumInit, KindOf[monoid] = "image" PROVE EdgesInv
  BY DEF EdgesInv
<1>1. /\ DOMAIN elems = {Key(monoid, Id)} /\ edges = <<>>
      /\ todo = <<Id>> /\ newtodo = <<>> /\ v = 1 /\ g = 1
  BY DEF EnumInit
<1>2. DOMAIN edges = {} /\ edges = [e \in DOMAIN edges |-> {Gens[e[2]][p] : p \in e[1]}]
  BY <1>1
<1>3. Len(todo) = 1 /\ Len(newtodo) = 0 /\ todo[1] = Id
  BY <1>1
<1>4. \A k \in DOMAIN elems : Pending(k)
  BY <1>1, <1>3 DEF Pending
<1> QED BY <1>1, <1>2, <1>3, <1>4 DEF EdgesInv

LEMMA EdgesVisit ==
  ASSUME Shape, EdgesInv, Visit, KindOf[monoid] = "image"
  PROVE  EdgesInv'
<1> DEFINE el == Act(monoid, todo[v], Gens[g])
           from == Key(monoid, todo[v])
           to == Key(monoid, el)
<1>1. /\ v \in 1 .. Len(todo) /\ g \in 1 .. Len(Gens)
      /\ Known(el) \/ Insert(el)
      /\ UNCHANGED <<monoid, level, todo, nidemp, finished>>
      /\ el \in Points(monoid) /\ todo[v] \in Points(monoid)
      /\ edges' = Entered(edges, <<from, g>>, to)
      /\ monoid \in Monoids
  BY VisitFacts DEF Shape
<1>2. Gens' = Gens /\ Gens = GensOf[monoid]
  BY <1>1 DEF Gens
<1>3. /\ edges = [e \in DOMAIN edges |-> {Gens[e[2]][p] : p \in e[1]}]
      /\ DOMAIN edges \subseteq (DOMAIN elems) \X (1 .. Len(Gens))
      /\ \A k \in DOMAIN elems :
           (\A i \in 1 .. Len(Gens) : <<k, i>> \in DOMAIN edges) \/ Pending(k)
      /\ \A j \in 1 .. Len(todo) : Key(monoid, todo[j]) \in DOMAIN elems
      /\ \A j \in 1 .. Len(newtodo) : Key(monoid, newtodo[j]) \in DOMAIN elems
      /\ \A i \in 1 .. g - 1 : <<from, i>> \in DOMAIN edges
  BY DEF EdgesInv
<1>4. to = {Gens[g][p] : p \in from}
  <2>1. g \in 1 .. Len(GensOf[monoid])
    BY <1>1, <1>2
  <2>2. Key(monoid, Act(monoid, todo[v], GensOf[monoid][g]))
          = {GensOf[monoid][g][p] : p \in Key(monoid, todo[v])}
    BY <1>1, <2>1, ImageOfImage
  <2> QED BY <2>2 DEF Gens
<1>5. Len(todo) \in Nat /\ newtodo \in Seq(Points(monoid)) /\ Len(Gens) \in Nat
  BY <1>1, MonoidFacts DEF Shape, Gens
<1>6. v \in Nat /\ g \in Nat
  BY <1>1
\* The table and the worklist after the visit.
<1>7. Advance /\ DOMAIN elems' = DOMAIN elems \cup {to}
      /\ (newtodo' = newtodo \/ newtodo' = Append(newtodo, el))
      /\ (newtodo' = newtodo => to \in DOMAIN elems)
  <2>1. CASE Known(el)
    BY <2>1 DEF Known
  <2>2. CASE Insert(el)
    <3>1. Advance /\ elems' = Entered(elems, to, <<todo[v], g>>) /\ newtodo' = Append(newtodo, el)
      BY <2>2 DEF Insert
    <3>2. newtodo' # newtodo
      <4>1. Len(Append(newtodo, el)) = Len(newtodo) + 1 /\ Len(newtodo) \in Nat
        BY <1>5
      <4> QED BY <3>1, <4>1
    <3> QED BY <3>1, <3>2 DEF Entered
  <2> QED BY <1>1, <2>1, <2>2
<1> HIDE DEF el
<1>8. \A j \in 1 .. Len(newtodo) : j \in 1 .. Len(newtodo') /\ newtodo'[j] = newtodo[j]
  BY <1>1, <1>5, <1>7
<1>9. \A j \in 1 .. Len(newtodo') :
        (j \in 1 .. Len(newtodo) /\ newtodo'[j] = newtodo[j]) \/ newtodo'[j] = el
  <2>1. CASE newtodo' = newtodo
    BY <2>1
  <2>2. CASE newtodo' = Append(newtodo, el)
    <3>1. /\ Len(newtodo') = Len(newtodo) + 1 /\ Len(newtodo) \in Nat
          /\ newtodo'[Len(newtodo) + 1] = el
      BY <1>1, <1>5, <2>2
    <3> QED BY <1>8, <3>1
  <2> QED BY <1>7, <2>1, <2>2
<1>10. newtodo' # newtodo => \E j \in 1 .. Len(newtodo') : newtodo'[j] = el
  <2> SUFFICES ASSUME newtodo' = Append(newtodo, el)
               PROVE  \E j \in 1 .. Len(newtodo') : newtodo'[j] = el
    BY <1>7
  <2>1. Len(newtodo') \in 1 .. Len(newtodo') /\ newtodo'[Len(newtodo')] = el
    BY <1>1, <1>5
  <2> QED BY <2>1
<1> DEFINE D == DOMAIN edges \cup {<<from, g>>}
<1>11. /\ DOMAIN edges' = D
       /\ edges' = [e \in D |-> IF e = <<from, g>> THEN to ELSE edges[e]]
  BY <1>1 DEF Entered
<1>12. from \in DOMAIN elems
  BY <1>1, <1>3
<1> HIDE DEF from, to
<1>13. edges' = [e \in DOMAIN edges' |-> {Gens[e[2]][p] : p \in e[1]}]
  <2>1. ASSUME NEW e \in D
        PROVE  (IF e = <<from, g>> THEN to ELSE edges[e]) = {Gens[e[2]][p] : p \in e[1]}
    <3>1. CASE e = <<from, g>>
      BY <1>4, <3>1
    <3>2. CASE e # <<from, g>>
      <4>1. e \in DOMAIN edges
        BY <3>2
      <4>2. edges[e] = {Gens[e[2]][p] : p \in e[1]}
        BY <1>3, <4>1
      <4> QED BY <3>2, <4>2
    <3> QED BY <3>1, <3>2
  <2> HIDE DEF D
  <2> QED BY <1>11, <2>1
<1>14. DOMAIN edges' \subseteq (DOMAIN elems') \X (1 .. Len(Gens))
  BY <1>1, <1>3, <1>7, <1>11, <1>12
<1>15. \A i \in 1 .. g : <<from, i>> \in DOMAIN edges'
  <2>1. \A i \in 1 .. g : i \in 1 .. g - 1 \/ i = g
    BY <1>6
  <2> QED BY <1>3, <1>11, <2>1
\* The position goes on within the element, or past it when all its edges are there.
<1>16. \/ v' = v /\ g' = g + 1
       \/ v' = v + 1 /\ g' = 1 /\ g = Len(Gens)
  BY <1>1, <1>5, <1>7 DEF Advance
<1>17. ASSUME NEW k \in DOMAIN elems'
       PROVE  (\A i \in 1 .. Len(Gens) : <<k, i>> \in DOMAIN edges') \/ Pending(k)'
  <2>1. CASE k \in DOMAIN elems
    <3>1. CASE \A i \in 1 .. Len(Gens) : <<k, i>> \in DOMAIN edges
      BY <1>11, <3>1
    <3>2. ASSUME NEW j \in v .. Len(todo), Key(monoid, todo[j]) = k
          PROVE  (\A i \in 1 .. Len(Gens) : <<k, i>> \in DOMAIN edges') \/ Pending(k)'
      <4>1. CASE j \in v' .. Len(todo)
        BY <1>1, <3>2, <4>1 DEF Pending
      <4>2. CASE j \notin v' .. Len(todo)
        <5>1. j = v /\ g = Len(Gens)
          BY <1>5, <1>6, <1>16, <4>2
        <5>2. k = from
          BY <3>2, <5>1 DEF from
        <5> QED BY <1>15, <5>1, <5>2
      <4> QED BY <4>1, <4>2
    <3>3. ASSUME NEW j \in 1 .. Len(newtodo), Key(monoid, newtodo[j]) = k
          PROVE  Pending(k)'
      BY <1>1, <1>8, <3>3 DEF Pending
    <3>4. Pending(k) \/ \A i \in 1 .. Len(Gens) : <<k, i>> \in DOMAIN edges
      BY <1>3, <2>1
    <3> QED BY <3>1, <3>2, <3>3, <3>4 DEF Pending
  <2>2. CASE k \notin DOMAIN elems
    <3>1. k = to /\ newtodo' # newtodo
      BY <1>7, <2>2
    <3>2. PICK j \in 1 .. Len(newtodo') : newtodo'[j] = el
      BY <1>10, <3>1
    <3> QED BY <1>1, <3>1, <3>2 DEF Pending, to
  <2> QED BY <2>1, <2>2
<1>18. \A j \in 1 .. Len(todo) : Key(monoid, todo[j]) \in DOMAIN elems'
  BY <1>3, <1>7
<1>19. \A j \in 1 .. Len(newtodo') : Key(monoid, newtodo'[j]) \in DOMAIN elems'
  BY <1>3, <1>7, <1>9 DEF to
<1>20. \A i \in 1 .. g' - 1 : <<Key(monoid, todo[v']), i>> \in DOMAIN edges'
  BY <1>6, <1>15, <1>16 DEF from
<1>21. (edges = [e \in DOMAIN edges |-> {Gens[e[2]][p] : p \in e[1]}])'
  BY <1>2, <1>13
<1> QED BY <1>1, <1>2, <1>14, <1>17, <1>18, <1>19, <1>20, <1>21 DEF EdgesInv

LEMMA EdgesNextLevel ==
  ASSUME Shape, EdgesInv, NextLevel, KindOf[monoid] = "image"
  PROVE  EdgesInv'
<1>1. /\ v > Len(todo) /\ todo' = newtodo /\ newtodo' = <<>> /\ v' = 1
      /\ UNCHANGED <<monoid, elems, edges, g>>
  BY DEF NextLevel
<1>2. Gens' = Gens
  BY <1>1 DEF Gens
<1>3. Len(newtodo') = 0 /\ v \in Nat /\ Len(todo) \in Nat /\ g = 1
  BY <1>1 DEF Shape
<1>4. ASSUME NEW k \in DOMAIN elems, Pending(k) PROVE Pending(k)'
  <2>1. v .. Len(todo) = {}
    BY <1>1, <1>3
  <2>2. PICK j \in 1 .. Len(newtodo) : Key(monoid, newtodo[j]) = k
    BY <1>4, <2>1 DEF Pending
  <2> QED BY <1>1, <2>2 DEF Pending
<1>5. 1 .. g' - 1 = {} /\ 1 .. Len(newtodo') = {}
  BY <1>1, <1>3
<1>6. (edges = [e \in DOMAIN edges |-> {Gens[e[2]][p] : p \in e[1]}])'
  BY <1>1, <1>2 DEF EdgesInv
<1> QED BY <1>1, <1>2, <1>4, <1>5, <1>6 DEF EdgesInv

LEMMA EdgesStep == Shape /\ EdgesInv /\ [EnumNext]_enumVars => EdgesInv'
<1> SUFFICES ASSUME Shape, EdgesInv, [EnumNext]_enumVars PROVE EdgesInv'
  OBVIOUS
<1>0. monoid' = monoid
  BY DEF EnumNext, Visit, ReadBack, Multiply, CountIdempotent, NextLevel, enumVars
<1>1. CASE KindOf[monoid] # "image"
  BY <1>0, <1>1 DEF EdgesInv
<1>2. CASE KindOf[monoid] = "image"
  <2>1. pc = "visit"
    BY <1>2 DEF Shape
  <2>2. CASE UNCHANGED enumVars
    <3>1. UNCHANGED <<monoid, elems, edges, todo, newtodo, v, g>>
      BY <2>2 DEF enumVars
    <3>2. Gens' = Gens /\ \A k : Pending(k)' = Pending(k)
      BY <3>1 DEF Gens, Pending
    <3>3. (edges = [e \in DOMAIN edges |-> {Gens[e[2]][p] : p \in e[1]}])'
      BY <1>2, <3>1, <3>2 DEF EdgesInv
    <3> QED BY <3>1, <3>2, <3>3 DEF EdgesInv
  <2> QED BY <1>2, <2>1, <2>2, EdgesVisit, EdgesNextLevel
      DEF EnumNext, ReadBack, Multiply, CountIdempotent
<1> QED BY <1>1, <1>2

-----------------------------------------------------------------------------
EnumInv == Shape /\ WordsInv /\ CountInv /\ EdgesInv

LEMMA EnumInvariance == EnumSpec => []EnumInv
<1>1. EnumInit => EnumInv
  BY ShapeInit, WordsInit, CountInit, EdgesInit DEF EnumInv
<1>2. EnumInv /\ [EnumNext]_enumVars => EnumInv'
  BY ShapeStep, WordsStep, CountStep, EdgesStep DEF EnumInv
<1> QED BY <1>1, <1>2, PTL DEF EnumSpec

(***************************************************************************)
(* Words read back from the table (Renner.cpp 100-109) are shortest, for   *)
(* every list of generators: their generators lead to the element, they    *)
(* are as long as the number of the pass that found it, and no generator   *)
(* leads from an element that a pass has been over to one more than one    *)
(* deeper.  operator[] is only asked for elements of the table.            *)
(***************************************************************************)
THEOREM WordsReadAreShortest == EnumSpec => []WordsShortest
<1>1. ASSUME EnumInv PROVE WordsShortest
  <2>1. Shape /\ WordsInv /\ CountInv
    BY <1>1 DEF EnumInv
  <2>2. pc = "read" => at \in DOMAIN elems
    BY <2>1 DEF Shape, CountInv
  <2>3. ASSUME PassOver, KindOf[monoid] # "image", NEW x \in DOMAIN elems
        PROVE  LET w == reduced_word(elems, x)
               IN  /\ w \in Seq(1 .. Len(Gens)) /\ Walked(monoid, Id, w) = x
                   /\ IF x \in Range(newtodo) THEN Len(w) = level ELSE Len(w) <= level
                   /\ Len(w) < level =>
                        \A i \in 1 .. Len(Gens) :
                          LET y == Act(monoid, x, Gens[i])
                          IN  y \in DOMAIN elems /\ Len(reduced_word(elems, y)) <= Len(w) + 1
    <3>1. Spells /\ Layers
      BY <2>1, <2>3 DEF WordsInv
    <3>2. /\ reduced_word(elems, x) \in Seq(1 .. Len(Gens))
          /\ Walked(monoid, Id, reduced_word(elems, x)) = x
          /\ Len(reduced_word(elems, x)) <= level
      BY <3>1 DEF Spells, Depth
    <3>3. x \in Range(newtodo) => Len(reduced_word(elems, x)) = level
      BY <3>1 DEF Layers, Depth
    <3>4. ASSUME Len(reduced_word(elems, x)) < level, NEW i \in 1 .. Len(Gens)
          PROVE  /\ Act(monoid, x, Gens[i]) \in DOMAIN elems
                 /\ Len(reduced_word(elems, Act(monoid, x, Gens[i])))
                      <= Len(reduced_word(elems, x)) + 1
      <4>1. Followed(elems, monoid, x, i)
        BY <2>1, <2>3, <3>4, PassFollowed DEF Depth
      <4> QED BY <4>1 DEF Followed, Depth, Gens
    <3> QED BY <3>2, <3>3, <3>4
  <2> QED BY <2>2, <2>3 DEF WordsShortest
<1> QED BY <1>1, EnumInvariance, PTL

(***************************************************************************)
(* When an enumeration returns its table is closed under every generator,  *)
(* and the edges image.cpp (87-94) has recorded lead from each image to    *)
(* the image of the image, whichever representative was met first.         *)
(***************************************************************************)
LEMMA ReturnsClosed == EnumInv => ClosedAtReturn
<1>1. ASSUME EnumInv PROVE ClosedAtReturn
  <2> SUFFICES ASSUME finished
               PROVE  IF KindOf[monoid] = "image"
                      THEN edges = [e \in (DOMAIN elems) \X (1 .. Len(Gens)) |->
                                      {Gens[e[2]][p] : p \in e[1]}]
                      ELSE \A x \in DOMAIN elems : \A i \in 1 .. Len(Gens) :
                             Act(monoid, x, Gens[i]) \in DOMAIN elems
    BY DEF ClosedAtReturn
  <2>1. Shape /\ WordsInv /\ EdgesInv /\ todo = <<>> /\ newtodo = <<>>
    BY <1>1 DEF EnumInv, Shape
  <2>2. CASE KindOf[monoid] = "image"
    <3>1. Len(todo) = 0 /\ Len(newtodo) = 0 /\ v \in Nat /\ v >= 1
      BY <2>1 DEF Shape
    <3>2. \A k : ~Pending(k)
      <4>1. v .. Len(todo) = {} /\ 1 .. Len(newtodo) = {}
        BY <3>1
      <4> QED BY <4>1 DEF Pending
    <3>3. DOMAIN edges = (DOMAIN elems) \X (1 .. Len(Gens))
      <4>1. DOMAIN edges \subseteq (DOMAIN elems) \X (1 .. Len(Gens))
        BY <2>1, <2>2 DEF EdgesInv
      <4>2. \A k \in DOMAIN elems : \A i \in 1 .. Len(Gens) : <<k, i>> \in DOMAIN edges
        BY <2>1, <2>2, <3>2 DEF EdgesInv
      <4>3. (DOMAIN elems) \X (1 .. Len(Gens)) \subseteq DOMAIN edges
        BY <4>2
      <4> QED BY <4>1, <4>3
    <3>4. edges = [e \in DOMAIN edges |-> {Gens[e[2]][p] : p \in e[1]}]
      BY <2>1, <2>2 DEF EdgesInv
    <3> QED BY <2>2, <3>3, <3>4
  <2>3. CASE KindOf[monoid] # "image"
    <3>1. ASSUME NEW x \in DOMAIN elems, NEW i \in 1 .. Len(Gens)
          PROVE  Act(monoid, x, Gens[i]) \in DOMAIN elems
      <4>1. Depth(elems, x) <= level /\ Depth(elems, x) \in Nat /\ level \in Nat
        BY <2>1, <2>3, WordType DEF WordsInv, Spells, Shape
      <4>2. Depth(elems, x) # level
        <5>1. Range(newtodo) = {}
          BY <2>1, RangeFacts
        <5> QED BY <2>1, <2>3, <5>1 DEF WordsInv, Layers
      <4>3. Depth(elems, x) < level
        BY <4>1, <4>2
      <4>4. Followed(elems, monoid, x, i)
        BY <2>1, <2>3, <4>3, PassFollowed DEF PassOver
      <4> QED BY <4>4 DEF Followed, Gens
    <3> QED BY <2>3, <3>1
  <2> QED BY <2>2, <2>3
<1> QED BY <1>1

(***************************************************************************)
(* Renner.cpp counts each idempotent once, although it squares an element  *)
(* as soon as it is entered, by a word read from the table it is filling:  *)
(* the words do not change as the table grows.                             *)
(***************************************************************************)
LEMMA IdempotentsAreCounted == EnumInv => IdempotentsCounted
<1>1. ASSUME EnumInv PROVE IdempotentsCounted
  <2> SUFFICES ASSUME finished, KindOf[monoid] = "act0"
               PROVE  nidemp = Cardinality(Idempotents)
    BY DEF IdempotentsCounted
  <2>1. pc = "visit" /\ nidemp = Cardinality(Squared)
    BY <1>1 DEF EnumInv, Shape, CountInv
  <2>2. Squared = Idempotents
    BY <2>1 DEF Squared, Idempotents
  <2> QED BY <2>1, <2>2
<1> QED BY <1>1

(***************************************************************************)
(* What the tables hold when the enumerations return is right: they are    *)
(* closed, their edges do not depend on the representatives (image.cpp     *)
(* 87-94), and the idempotents of Renner.cpp (155-156) are counted.        *)
(***************************************************************************)
THEOREM TableIsRight == EnumSpec => []TableRight
<1>1. EnumInv => TableRight
  BY ReturnsClosed, IdempotentsAreCounted DEF TableRight
<1> QED BY <1>1, EnumInvariance, PTL

\* No word in the generators leads out of the table or is shorter than the one read.
Shortest ==
  finished /\ KindOf[monoid] # "image" =>
    \A w \in Seq(1 .. Len(Gens)) :
      LET x == Walked(monoid, Id, w)
      IN  x \in DOMAIN elems /\ Len(reduced_word(elems, x)) <= Len(w)

(***************************************************************************)
(* When the enumeration has returned, every product of generators is in    *)
(* the table, and the word read for it (Renner.cpp 100-109) is no longer   *)
(* than any other word that leads to it.                                   *)
(***************************************************************************)
THEOREM NoShorterWord == EnumSpec => []Shortest
<1>1. ASSUME EnumInv PROVE Shortest
  <2> SUFFICES ASSUME finished, KindOf[monoid] # "image",
                      NEW w \in Seq(1 .. Len(Gens))
               PROVE  /\ Walked(monoid, Id, w) \in DOMAIN elems
                      /\ Depth(elems, Walked(monoid, Id, w)) <= Len(w)
    BY DEF Shortest, Depth
  <2> DEFINE Reached(u) == /\ Walked(monoid, Id, u) \in DOMAIN elems
                           /\ Depth(elems, Walked(monoid, Id, u)) <= Len(u)
             S == {n \in Nat : \A u \in Seq(1 .. Len(Gens)) : Len(u) = n => Reached(u)}
  <2>1. Shape /\ WordsInv /\ Spells /\ newtodo = <<>>
    BY <1>1 DEF EnumInv, Shape, WordsInv
  <2>2. \A x \in DOMAIN elems : Depth(elems, x) \in Nat /\ Depth(elems, x) < level
    <3>1. Range(newtodo) = {}
      BY <2>1, RangeFacts
    <3>2. \A x \in DOMAIN elems : Depth(elems, x) # level
      BY <2>1, <3>1 DEF WordsInv, Layers
    <3>3. level \in Nat
      BY <2>1 DEF Shape
    <3> QED BY <2>1, <3>2, <3>3, WordType DEF Spells
  <2>3. 0 \in S
    <3> SUFFICES ASSUME NEW u \in Seq(1 .. Len(Gens)), Len(u) = 0 PROVE Reached(u)
      OBVIOUS
    <3>1. u = <<>> /\ Walked(monoid, Id, <<>>) = Id
      BY WalkedEmpty
    <3>2. Id \in DOMAIN elems /\ reduced_word(elems, Id) = <<>>
      BY <2>1, WordParent DEF Spells
    <3>3. Len(<<>>) = 0
      OBVIOUS
    <3> QED BY <3>1, <3>2, <3>3 DEF Depth
  <2>4. ASSUME NEW n \in Nat, n \in S
        PROVE  n + 1 \in S
    <3> SUFFICES ASSUME NEW u \in Seq(1 .. Len(Gens)), Len(u) = n + 1 PROVE Reached(u)
      OBVIOUS
    <3> DEFINE t == SubSeq(u, 1, n)
               i == u[n + 1]
               x == Walked(monoid, Id, t)
    <3>1. /\ t \in Seq(1 .. Len(Gens)) /\ Len(t) = n /\ i \in 1 .. Len(Gens)
          /\ u = Append(t, i) /\ t \in Seq(Nat) /\ i \in Nat
      <4>1. t \in Seq(1 .. Len(Gens)) /\ Len(t) = n /\ i \in 1 .. Len(Gens) /\ u = Append(t, i)
        OBVIOUS
      <4>2. \A j \in 1 .. Len(Gens) : j \in Nat
        OBVIOUS
      <4> HIDE DEF t, i
      <4>3. t \in Seq(Nat)
        BY <4>1, <4>2
      <4> QED BY <4>1, <4>2, <4>3
    <3> HIDE DEF t, i
    <3>2. Walked(monoid, Id, u) = Act(monoid, x, GensOf[monoid][i])
      BY <3>1, WalkedAppend
    <3>3. x \in DOMAIN elems /\ Depth(elems, x) <= n
      BY <2>4, <3>1
    <3> HIDE DEF x
    <3>4. Followed(elems, monoid, x, i)
      BY <2>1, <2>2, <3>1, <3>3, PassFollowed DEF PassOver
    <3>5. /\ Walked(monoid, Id, u) \in DOMAIN elems
          /\ Depth(elems, Walked(monoid, Id, u)) <= Depth(elems, x) + 1
      BY <3>2, <3>4 DEF Followed
    <3> QED BY <2>2, <3>3, <3>5
  <2> HIDE DEF S
  <2>5. Len(w) \in S
    <3>1. Len(w) \in Nat
      OBVIOUS
    <3> QED BY <2>3, <2>4, <3>1, NatSetInduction
  <2> QED BY <2>5 DEF S
<1> QED BY <1>1, EnumInvariance, PTL

=============================================================================
