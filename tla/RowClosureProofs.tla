-------------------------- MODULE RowClosureProofs --------------------------
(***************************************************************************)
(* row_space_basis returns the canonical basis, and row_space_bitset_ref,  *)
(* which calls it, the row space: for every height and any number of       *)
(* columns.                                                                *)
(***************************************************************************)
EXTENDS RowClosure, FiniteSetTheorems, SequenceTheorems, TLAPS

-----------------------------------------------------------------------------
(* Irreducible rows.                                                       *)

Below(x, rows) == {y \in Irreducible(rows) : y \subseteq x}

\* Every row is the union of the irreducible ones it includes.  The induction is
\* over inclusion: a smallest row of which this fails is reducible, and so made
\* up of smaller ones for which it holds.
LEMMA MadeUpOfIrreducibles ==
  ASSUME NEW rows \in SUBSET Row
  PROVE  \A x \in rows : x = UNION Below(x, rows)
<1> DEFINE Bad == {x \in rows : x # UNION Below(x, rows)}
<1>1. SUFFICES ASSUME Bad # {} PROVE FALSE
  OBVIOUS
<1>2. IsWellFoundedOn(StrictSubsetOrdering(Columns), FiniteSubsetsOf(Columns))
  BY FS_StrictSubsetOrderingWellFounded
<1>3. Bad \subseteq FiniteSubsetsOf(Columns)
  BY ColumnsAssumption, FS_FiniteSubsetsOfFinite DEF Row
<1> HIDE DEF Bad
<1>4. PICK x \in Bad : \A y \in Bad : ~(<<y, x>> \in StrictSubsetOrdering(Columns))
  BY <1>1, <1>2, <1>3, WFMin
<1>5. x \in rows /\ x # UNION Below(x, rows)
  BY DEF Bad
<1>6. x \notin Irreducible(rows)
  BY <1>5 DEF Below
<1>7. UNION Smaller(x, rows) = x
  BY <1>5, <1>6 DEF Irreducible
<1>8. ASSUME NEW y \in Smaller(x, rows)
      PROVE  y \subseteq UNION Below(x, rows)
  <2>1. y \in rows /\ y \subseteq x /\ y # x
    BY DEF Smaller
  <2>2. <<y, x>> \in StrictSubsetOrdering(Columns)
    BY <1>5, <2>1 DEF StrictSubsetOrdering, Row
  <2>3. y = UNION Below(y, rows)
    BY <1>4, <2>1, <2>2 DEF Bad
  <2>4. Below(y, rows) \subseteq Below(x, rows)
    BY <2>1 DEF Below
  <2> QED BY <2>3, <2>4
<1>9. x \subseteq UNION Below(x, rows)
  BY <1>7, <1>8
<1>10. UNION Below(x, rows) \subseteq x
  BY DEF Below
<1> QED BY <1>5, <1>9, <1>10

\* The irreducible rows span the space.
LEMMA IrreducibleSpan ==
  ASSUME NEW rows \in SUBSET Row
  PROVE  Space(Irreducible(rows)) = Space(rows)
<1>1. Space(Irreducible(rows)) \subseteq Space(rows)
  BY DEF Space, Irreducible
<1>2. ASSUME NEW S \in SUBSET rows
      PROVE  UNION S \in Space(Irreducible(rows))
  <2> DEFINE T == {y \in Irreducible(rows) : \E x \in S : y \subseteq x}
  <2>1. UNION T \subseteq UNION S
    OBVIOUS
  <2>2. ASSUME NEW c \in UNION S PROVE c \in UNION T
    <3>1. PICK x \in S : c \in x
      OBVIOUS
    <3>2. x = UNION Below(x, rows)
      BY MadeUpOfIrreducibles
    <3>3. PICK y \in Below(x, rows) : c \in y
      BY <3>1, <3>2
    <3> QED BY <3>3 DEF Below
  <2>3. UNION T = UNION S
    BY <2>1, <2>2
  <2>4. T \in SUBSET Irreducible(rows)
    OBVIOUS
  <2> HIDE DEF T
  <2> QED BY <2>3, <2>4 DEF Space
<1> QED BY <1>1, <1>2 DEF Space

\* The space has the same irreducible rows.
LEMMA IrreducibleOfSpace ==
  ASSUME NEW rows
  PROVE  Irreducible(Space(rows)) = Irreducible(rows)
<1>1. rows \subseteq Space(rows)
  <2>1. ASSUME NEW x \in rows PROVE {x} \in SUBSET rows /\ UNION {x} = x
    OBVIOUS
  <2> QED BY <2>1 DEF Space
<1>2. ASSUME NEW x \in Irreducible(Space(rows)) PROVE x \in Irreducible(rows)
  <2>1. x \in Space(rows) /\ UNION Smaller(x, Space(rows)) # x
    BY DEF Irreducible
  <2>2. PICK S \in SUBSET rows : x = UNION S
    BY <2>1 DEF Space
  <2>3. x \in S
    <3>1. SUFFICES ASSUME x \notin S PROVE FALSE
      OBVIOUS
    <3>2. S \subseteq Smaller(x, Space(rows))
      BY <1>1, <2>2, <3>1 DEF Smaller
    <3>3. UNION Smaller(x, Space(rows)) \subseteq x
      BY DEF Smaller
    <3> QED BY <2>1, <2>2, <3>2, <3>3
  <2>4. Smaller(x, rows) \subseteq Smaller(x, Space(rows))
    BY <1>1 DEF Smaller
  <2>5. UNION Smaller(x, Space(rows)) \subseteq x
    BY DEF Smaller
  <2>6. UNION Smaller(x, rows) # x
    BY <2>1, <2>4, <2>5
  <2> QED BY <2>3, <2>6 DEF Irreducible
<1>3. ASSUME NEW x \in Irreducible(rows) PROVE x \in Irreducible(Space(rows))
  <2>1. x \in rows /\ UNION Smaller(x, rows) # x
    BY DEF Irreducible
  <2>2. UNION Smaller(x, rows) \subseteq x
    BY DEF Smaller
  <2>3. ASSUME NEW y \in Smaller(x, Space(rows)) PROVE y \subseteq UNION Smaller(x, rows)
    <3>1. y \in Space(rows) /\ y \subseteq x /\ y # x
      BY DEF Smaller
    <3>2. PICK S \in SUBSET rows : y = UNION S
      BY <3>1 DEF Space
    <3>3. S \subseteq Smaller(x, rows)
      BY <3>1, <3>2 DEF Smaller
    <3> QED BY <3>2, <3>3
  <2>4. UNION Smaller(x, Space(rows)) # x
    BY <2>1, <2>2, <2>3
  <2> QED BY <1>1, <2>1, <2>4 DEF Irreducible
<1> QED BY <1>2, <1>3

\* The empty row counts for nothing.
LEMMA EmptyRow ==
  ASSUME NEW A, NEW B, A \ {{}} = B \ {{}}
  PROVE  /\ Space(A) = Space(B)
         /\ Irreducible(A) = Irreducible(B)
         /\ {} \notin Irreducible(A)
<1>1. ASSUME NEW C, NEW D, C \ {{}} = D \ {{}}
      PROVE  Space(C) \subseteq Space(D)
  <2>1. ASSUME NEW S \in SUBSET C PROVE UNION S \in Space(D)
    <3>1. S \ {{}} \in SUBSET D /\ UNION (S \ {{}}) = UNION S
      BY <1>1
    <3> QED BY <3>1 DEF Space
  <2> QED BY <2>1 DEF Space
<1>2. ASSUME NEW C, NEW D, C \ {{}} = D \ {{}}
      PROVE  Irreducible(C) \subseteq Irreducible(D)
  <2>1. ASSUME NEW x \in Irreducible(C) PROVE x \in Irreducible(D)
    <3>1. x \in C /\ UNION Smaller(x, C) # x
      BY DEF Irreducible
    <3>2. x # {}
      BY <3>1 DEF Smaller
    <3>3. UNION Smaller(x, C) = UNION Smaller(x, D)
      <4>1. Smaller(x, C) \ {{}} = Smaller(x, D) \ {{}}
        BY <1>2 DEF Smaller
      <4> QED BY <4>1
    <3> QED BY <1>2, <3>1, <3>2, <3>3 DEF Irreducible
  <2> QED BY <2>1
<1>3. {} \notin Irreducible(A)
  BY DEF Irreducible, Smaller
<1> QED BY <1>1, <1>2, <1>3

-----------------------------------------------------------------------------
(* Sorting the lanes.                                                      *)

Vect == [Lane -> Row]

LEMMA Lanes == Low \subseteq Lane /\ IsFiniteSet(Low) /\ Cardinality(Low) = Height
<1>1. Low \subseteq Lane
  BY HeightAssumption DEF Low, Lane
<1>2. IsFiniteSet(0 .. Height - 1) /\ Cardinality(0 .. Height - 1) = Height
  BY HeightAssumption, FS_Interval
<1> QED BY <1>1, <1>2 DEF Low

\* Before orders the lanes strictly and totally.
LEMMA BeforeOrders ==
  ASSUME NEW v \in Vect
  PROVE  /\ \A i \in Low : ~Before(v, i, i)
         /\ \A i, j \in Low : i # j => Before(v, i, j) \/ Before(v, j, i)
         /\ \A i, j, h \in Low : Before(v, i, j) /\ Before(v, j, h) => Before(v, i, h)
<1>1. \A i \in Low : v[i] \in Row /\ i \in Int
  BY Lanes DEF Vect, Low
<1>2. \A x \in Row : ByteOf[x] \in Nat
  BY ByteOfAssumption
<1>3. ASSUME NEW i \in Low PROVE ~Before(v, i, i)
  BY <1>1, <1>2 DEF Before
<1>4. ASSUME NEW i \in Low, NEW j \in Low, i # j
      PROVE  Before(v, i, j) \/ Before(v, j, i)
  <2>1. CASE v[i] = v[j]
    BY <1>1, <1>4, <2>1 DEF Before
  <2>2. CASE v[i] # v[j]
    <3>1. ByteOf[v[i]] # ByteOf[v[j]]
      BY <1>1, <2>2, ByteOfAssumption
    <3> QED BY <1>1, <1>2, <3>1 DEF Before
  <2> QED BY <2>1, <2>2
<1>5. ASSUME NEW i \in Low, NEW j \in Low, NEW h \in Low, Before(v, i, j), Before(v, j, h)
      PROVE  Before(v, i, h)
  <2>1. ByteOf[v[i]] \in Nat /\ ByteOf[v[j]] \in Nat /\ ByteOf[v[h]] \in Nat
    BY <1>1, <1>2
  <2> QED BY <1>1, <1>5, <2>1 DEF Before
<1> QED BY <1>3, <1>4, <1>5

\* The ranks number the lanes in that order.
LEMMA RankNumbers ==
  ASSUME NEW v \in Vect
  PROVE  /\ \A i \in Low : Rank(v, i) \in Low
         /\ \A i, j \in Low : Before(v, i, j) => Rank(v, i) < Rank(v, j)
         /\ \A n \in Low : \E i \in Low : Rank(v, i) = n
<1> DEFINE Ahead(i) == {j \in Low : Before(v, j, i)}
<1>1. ASSUME NEW i \in Low
      PROVE  /\ IsFiniteSet(Ahead(i)) /\ Cardinality(Ahead(i)) \in Nat
             /\ i \notin Ahead(i) /\ Rank(v, i) = Cardinality(Ahead(i))
  <2>1. Ahead(i) \in SUBSET Low
    OBVIOUS
  <2>2. IsFiniteSet(Ahead(i))
    BY <2>1, Lanes, FS_Subset
  <2> QED BY <2>2, FS_CardinalityType, BeforeOrders DEF Rank
<1>2. ASSUME NEW i \in Low, NEW S \in SUBSET Low, Ahead(i) \cup {i} \subseteq S
      PROVE  Rank(v, i) < Cardinality(S)
  <2>1. IsFiniteSet(S) /\ Cardinality(S) \in Nat
    BY Lanes, FS_Subset, FS_CardinalityType
  <2>2. Cardinality(Ahead(i) \cup {i}) = Cardinality(Ahead(i)) + 1
    BY <1>1, FS_AddElement
  <2>3. Cardinality(Ahead(i) \cup {i}) <= Cardinality(S)
    BY <2>1, <1>2, FS_Subset
  <2> QED BY <1>1, <2>1, <2>2, <2>3
<1>3. ASSUME NEW i \in Low PROVE Rank(v, i) \in Low
  <2>1. Rank(v, i) < Height
    BY <1>2, Lanes
  <2>2. Rank(v, i) \in Nat
    BY <1>1
  <2> QED BY <2>1, <2>2, HeightAssumption DEF Low
<1>4. ASSUME NEW i \in Low, NEW j \in Low, Before(v, i, j)
      PROVE  Rank(v, i) < Rank(v, j)
  <2>1. Ahead(i) \cup {i} \subseteq Ahead(j)
    BY <1>4, BeforeOrders
  <2>2. Rank(v, i) < Cardinality(Ahead(j))
    BY <1>2, <2>1
  <2> QED BY <1>1, <2>2
<1> HIDE DEF Ahead
<1>5. ASSUME NEW n \in Low PROVE \E i \in Low : Rank(v, i) = n
  <2> DEFINE f == [i \in Low |-> Rank(v, i)]
  <2>1. f \in [Low -> Low]
    BY <1>3
  <2>2. \A i, j \in Low : f[i] = f[j] => i = j
    <3>1. ASSUME NEW i \in Low, NEW j \in Low, i # j PROVE Rank(v, i) # Rank(v, j)
      <4>1. Rank(v, i) < Rank(v, j) \/ Rank(v, j) < Rank(v, i)
        BY <1>4, <3>1, BeforeOrders
      <4>2. Rank(v, i) \in Nat /\ Rank(v, j) \in Nat
        BY <1>1
      <4> QED BY <4>1, <4>2
    <3> QED BY <3>1
  <2> HIDE DEF f
  <2>3. f \in Injection(Low, Low)
    BY <2>1, <2>2 DEF Injection, IsInjective
  <2>4. f \in Surjection(Low, Low)
    BY <2>3, Lanes, FS_Injection
  <2>5. \E i \in Low : f[i] = n
    BY <2>4 DEF Surjection
  <2> QED BY <2>5 DEF f
<1> QED BY <1>3, <1>4, <1>5

\* What revsorted8 does: it moves the lanes, and they fall.
LEMMA FallingFacts ==
  ASSUME NEW v \in Vect
  PROVE  /\ Falling(v) \in Vect
         /\ RowsIn(Falling(v)) = RowsIn(v)
         /\ \E p \in [Low -> Low] :
               /\ \A n \in Low : Falling(v)[n] = v[p[n]]
               /\ \A m, n \in Low : m < n => Before(v, p[m], p[n])
<1> DEFINE p == [n \in Low |-> CHOOSE i \in Low : Rank(v, i) = n]
<1>1. ASSUME NEW n \in Low PROVE p[n] \in Low /\ Rank(v, p[n]) = n
  BY RankNumbers
<1>2. \A n \in Low : Falling(v)[n] = v[p[n]]
  BY Lanes DEF Falling
<1>3. p \in [Low -> Low]
  BY <1>1
<1> HIDE DEF p
<1>4. Falling(v) \in Vect
  <2>1. ASSUME NEW n \in Lane PROVE Falling(v)[n] \in Row
    <3>1. CASE n \in Low
      BY <1>1, <1>2, <3>1, Lanes DEF Vect
    <3>2. CASE n \notin Low
      BY <3>2 DEF Vect, Falling
    <3> QED BY <3>1, <3>2
  <2>2. Falling(v) = [n \in Lane |-> Falling(v)[n]]
    BY DEF Falling
  <2> QED BY <2>1, <2>2 DEF Vect
<1>5. ASSUME NEW m \in Low, NEW n \in Low, m < n PROVE Before(v, p[m], p[n])
  <2>1. m \in Int /\ n \in Int
    BY DEF Low
  <2>2. p[m] # p[n] /\ ~(Rank(v, p[n]) < Rank(v, p[m]))
    BY <1>1, <1>5, <2>1
  <2>3. ~Before(v, p[n], p[m])
    BY <1>1, <2>2, RankNumbers
  <2> QED BY <1>1, <2>2, <2>3, BeforeOrders
<1>6. RowsIn(Falling(v)) = RowsIn(v)
  <2>1. ASSUME NEW i \in Low PROVE Falling(v)[Rank(v, i)] = v[i] /\ Rank(v, i) \in Low
    <3>1. Rank(v, i) \in Low
      BY RankNumbers
    <3>2. p[Rank(v, i)] = i
      <4>1. p[Rank(v, i)] \in Low /\ Rank(v, p[Rank(v, i)]) = Rank(v, i)
        BY <1>1, <3>1
      <4>2. Rank(v, i) \in Int
        BY <3>1 DEF Low
      <4> QED BY <4>1, <4>2, RankNumbers, BeforeOrders
    <3> QED BY <1>2, <3>1, <3>2
  <2> QED BY <1>1, <1>2, <2>1 DEF RowsIn
<1> QED BY <1>2, <1>3, <1>4, <1>5, <1>6

-----------------------------------------------------------------------------
(* Clearing duplicates.                                                    *)

Falls(v)    == \A m, n \in Low : m < n => ByteOf[v[m]] >= ByteOf[v[n]]
Distinct(v) == \A m, n \in Low : v[m] = v[n] => m = n \/ v[m] = {}

\* In a vector that falls equal rows are neighbours, so that all but the first of
\* them are cleared.
LEMMA RemoveDupsFacts ==
  ASSUME NEW v \in Vect, Falls(v)
  PROVE  /\ RemoveDups(v) \in Vect
         /\ Distinct(RemoveDups(v))
         /\ RowsIn(RemoveDups(v)) \ {{}} = RowsIn(v) \ {{}}
<1> DEFINE u == RemoveDups(v)
<1>1. \A i \in Low : v[i] \in Row /\ i \in Nat /\ ByteOf[v[i]] \in Nat
  BY Lanes, ByteOfAssumption DEF Vect, Low
<1>2. \A i \in Low : u[i] = IF v[i] = (IF i = 0 THEN {} ELSE v[i - 1]) THEN {} ELSE v[i]
  BY Lanes DEF RemoveDups
<1>3. u \in Vect
  BY DEF Vect, RemoveDups, Row
<1> HIDE DEF u
<1>4. ASSUME NEW m \in Low, NEW n \in Low, m < n, u[m] = u[n], u[m] # {}
      PROVE  FALSE
  <2>1. v[m] = u[m] /\ v[n] = u[m] /\ n # 0 /\ n - 1 \in Low /\ v[n] # v[n - 1]
    <3>1. v[m] = u[m] /\ v[n] = u[m]
      BY <1>2, <1>4
    <3>2. n # 0 /\ n - 1 \in Low
      BY <1>1, <1>4, HeightAssumption DEF Low
    <3> QED BY <1>2, <1>4, <3>1, <3>2
  <2>2. m = n - 1 \/ m < n - 1
    BY <1>1, <1>4
  <2>3. ByteOf[v[m]] >= ByteOf[v[n - 1]] /\ ByteOf[v[n - 1]] >= ByteOf[v[n]]
    <3>1. n - 1 < n
      BY <1>1
    <3>2. ByteOf[v[n - 1]] >= ByteOf[v[n]]
      BY <2>1, <3>1 DEF Falls
    <3>3. ByteOf[v[m]] >= ByteOf[v[n - 1]]
      BY <1>1, <2>1, <2>2 DEF Falls
    <3> QED BY <3>2, <3>3
  <2>4. ByteOf[v[n - 1]] = ByteOf[v[n]]
    BY <1>1, <2>1, <2>3
  <2> QED BY <1>1, <2>1, <2>4, ByteOfAssumption
<1>5. Distinct(u)
  <2>1. ASSUME NEW m \in Low, NEW n \in Low, u[m] = u[n], u[m] # {} PROVE m = n
    <3>1. ~(m < n) /\ ~(n < m)
      BY <1>4, <2>1
    <3> QED BY <1>1, <3>1
  <2> QED BY <2>1 DEF Distinct
<1>6. RowsIn(u) \ {{}} \subseteq RowsIn(v)
  BY <1>2 DEF RowsIn
<1>7. ASSUME NEW x \in RowsIn(v), x # {} PROVE x \in RowsIn(u)
  <2> DEFINE Starts == {0 .. i : i \in {j \in Low : v[j] = x}}
  <2>1. Starts \subseteq FiniteSubsetsOf(Nat)
    <3>1. ASSUME NEW i \in Low PROVE 0 .. i \in SUBSET Nat /\ IsFiniteSet(0 .. i)
      <4>1. i \in Int
        BY DEF Low
      <4> QED BY <4>1, FS_Interval
    <3> QED BY <3>1 DEF FiniteSubsetsOf
  <2>2. Starts # {}
    BY DEF RowsIn
  <2> HIDE DEF Starts
  <2>3. IsWellFoundedOn(StrictSubsetOrdering(Nat), FiniteSubsetsOf(Nat))
    BY FS_StrictSubsetOrderingWellFounded
  <2>4. PICK S \in Starts : \A T \in Starts : ~(<<T, S>> \in StrictSubsetOrdering(Nat))
    BY <2>1, <2>2, <2>3, WFMin
  <2>5. PICK i \in Low : v[i] = x /\ S = 0 .. i
    BY DEF Starts
  <2>6. i = 0 \/ v[i - 1] # x
    <3>1. SUFFICES ASSUME i # 0, v[i - 1] = x PROVE FALSE
      OBVIOUS
    <3>2. i - 1 \in Low /\ i \in Nat
      BY <1>1, <3>1, HeightAssumption DEF Low
    <3>3. 0 .. i - 1 \in Starts
      BY <3>1, <3>2 DEF Starts
    <3>4. 0 .. i - 1 \subseteq 0 .. i /\ i \notin 0 .. i - 1 /\ i \in 0 .. i /\ 0 .. i \subseteq Nat
      BY <3>2
    <3>5. <<0 .. i - 1, S>> \in StrictSubsetOrdering(Nat)
      BY <2>5, <3>4 DEF StrictSubsetOrdering
    <3> QED BY <2>4, <3>3, <3>5
  <2>7. u[i] = x
    BY <1>2, <1>7, <2>5, <2>6
  <2> QED BY <2>7 DEF RowsIn
<1>8. RowsIn(u) \ {{}} = RowsIn(v) \ {{}}
  BY <1>6, <1>7
<1> QED BY <1>3, <1>5, <1>8 DEF u

-----------------------------------------------------------------------------
(* The rotations.                                                          *)

\* The lane n places before lane i, in a circle.
Back(i, n) == IF i >= n THEN i - n ELSE i - n + Height

LEMMA BackFacts ==
  /\ \A i \in Low, n \in 0 .. Height - 1 : Back(i, n) \in Low
  /\ \A i \in Low : Back(i, 0) = i
  /\ \A i \in Low, n \in 0 .. Height - 2 : rotlow[i] \in Low /\ Back(rotlow[i], n) = Back(i, n + 1)
  /\ \A i \in Low, n \in 1 .. Height - 1 : Back(i, n) # i
  /\ \A i, m \in Low : m # i => \E n \in 1 .. Height - 1 : Back(i, n) = m
<1>1. \A i \in Low, n \in 0 .. Height - 1 : Back(i, n) \in Low
  BY HeightAssumption DEF Low, Back
<1>2. \A i \in Low : Back(i, 0) = i
  BY DEF Low, Back
<1>3. ASSUME NEW i \in Low, NEW n \in 0 .. Height - 2
      PROVE  rotlow[i] \in Low /\ Back(rotlow[i], n) = Back(i, n + 1)
  <2>1. rotlow[i] = IF i = 0 THEN Height - 1 ELSE i - 1
    BY Lanes DEF rotlow
  <2> QED BY <2>1, HeightAssumption DEF Low, Back
<1>4. \A i \in Low, n \in 1 .. Height - 1 : Back(i, n) # i
  BY HeightAssumption DEF Low, Back
<1>5. ASSUME NEW i \in Low, NEW m \in Low, m # i
      PROVE  \E n \in 1 .. Height - 1 : Back(i, n) = m
  <2>1. CASE m < i
    <3>1. i - m \in 1 .. Height - 1 /\ Back(i, i - m) = m
      BY <2>1, HeightAssumption DEF Low, Back
    <3> QED BY <3>1
  <2>2. CASE m > i
    <3>1. i - m + Height \in 1 .. Height - 1 /\ Back(i, i - m + Height) = m
      BY <2>2, HeightAssumption DEF Low, Back
    <3> QED BY <3>1
  <2> QED BY <1>5, <2>1, <2>2 DEF Low
<1> QED BY <1>1, <1>2, <1>3, <1>4, <1>5

\* The rows that lane i includes among those it has met after n rotations.
Met(v, i, n) == {x \in {v[Back(i, m)] : m \in 1 .. n} : x \subseteq v[i]}

LEMMA AllMet ==
  ASSUME NEW v \in Vect, Distinct(v), NEW i \in Low
  PROVE  UNION Met(v, i, Height - 1) = UNION Smaller(v[i], RowsIn(v))
<1>1. ASSUME NEW x \in Met(v, i, Height - 1), x # {} PROVE x \in Smaller(v[i], RowsIn(v))
  <2>1. PICK m \in 1 .. Height - 1 : x = v[Back(i, m)]
    BY DEF Met
  <2>2. m \in 0 .. Height - 1
    OBVIOUS
  <2>3. Back(i, m) \in Low /\ Back(i, m) # i
    BY <2>2, BackFacts
  <2>4. x # v[i]
    BY <1>1, <2>1, <2>3 DEF Distinct
  <2> QED BY <2>1, <2>3, <2>4 DEF Met, Smaller, RowsIn
<1>2. ASSUME NEW x \in Smaller(v[i], RowsIn(v)) PROVE x \in Met(v, i, Height - 1)
  <2>1. PICK j \in Low : x = v[j] /\ x \subseteq v[i] /\ x # v[i]
    BY DEF Smaller, RowsIn
  <2>2. PICK m \in 1 .. Height - 1 : Back(i, m) = j
    BY <2>1, BackFacts
  <2> QED BY <2>1, <2>2 DEF Met
<1> QED BY <1>1, <1>2

LEMMA MeetOne ==
  ASSUME NEW v, NEW i \in Low, NEW n \in Nat
  PROVE  UNION Met(v, i, n + 1)
           = (UNION Met(v, i, n)) \cup (IF v[Back(i, n + 1)] \subseteq v[i] THEN v[Back(i, n + 1)] ELSE {})
<1>1. 1 .. n + 1 = (1 .. n) \cup {n + 1}
  OBVIOUS
<1> DEFINE b == v[Back(i, n + 1)]
<1>2. {v[Back(i, m)] : m \in 1 .. n + 1} = {v[Back(i, m)] : m \in 1 .. n} \cup {b}
  BY <1>1
<1> HIDE DEF b
<1>3. Met(v, i, n + 1) = Met(v, i, n) \cup (IF b \subseteq v[i] THEN {b} ELSE {})
  BY <1>2 DEF Met
<1>4. UNION Met(v, i, n + 1) = (UNION Met(v, i, n)) \cup (IF b \subseteq v[i] THEN b ELSE {})
  BY <1>3
<1> QED BY <1>4 DEF b

-----------------------------------------------------------------------------
(* The invariant.                                                          *)

Fresh == k = 0 /\ orincl = Zero /\ RowsIn(res) = RowsIn(matrix)

Rotating ==
  /\ Distinct(res)
  /\ RowsIn(res) \ {{}} = RowsIn(matrix) \ {{}}
  /\ \A i \in Low : rescy[i] = res[Back(i, k)]
  /\ \A i \in Low : orincl[i] = UNION Met(res, i, k)

Dropped ==
  /\ Distinct(res)
  /\ RowsIn(res) \ {{}} = Irreducible(RowsIn(matrix))

Listed ==
  /\ RowsIn(res) \ {{}} = Irreducible(RowsIn(matrix))
  /\ \A m, n \in Low : m > n => ByteOf[res[m]] > ByteOf[res[n]] \/ res[n] = {}

IInv ==
  /\ TypeOK
  /\ pc = "sort"    => Fresh
  /\ pc = "clear"   => Fresh /\ Falls(res)
  /\ pc = "rotate"  => Rotating
  /\ pc = "arrange" => Dropped
  /\ pc = "done"    => Listed

LEMMA InitIInv == Init => IInv
<1> SUFFICES ASSUME Init PROVE IInv
  OBVIOUS
<1>1. matrix \in [Low -> Row]
  BY MatricesAssumption DEF Init
<1>2. Zero \in [Lane -> Row] /\ res \in [Lane -> Row]
  BY <1>1 DEF Init, Zero, Row
<1>3. \A i \in Low : res[i] = matrix[i]
  BY Lanes DEF Init
<1>4. TypeOK
  BY <1>1, <1>2, HeightAssumption DEF Init, TypeOK
<1>5. Fresh
  BY <1>3 DEF Init, Fresh, RowsIn
<1> QED BY <1>4, <1>5 DEF Init, IInv

LEMMA SortIInv == IInv /\ Sort => IInv'
<1> SUFFICES ASSUME IInv, Sort PROVE IInv'
  OBVIOUS
<1>1. TypeOK /\ Fresh /\ res \in Vect
  BY DEF IInv, TypeOK, Sort, Vect
<1>2. Falling(res) \in Vect /\ RowsIn(Falling(res)) = RowsIn(res)
  BY <1>1, FallingFacts
<1>3. PICK p \in [Low -> Low] :
        /\ \A n \in Low : Falling(res)[n] = res[p[n]]
        /\ \A m, n \in Low : m < n => Before(res, p[m], p[n])
  BY <1>1, FallingFacts
<1>4. Falls(Falling(res))
  <2>1. ASSUME NEW m \in Low, NEW n \in Low, m < n
        PROVE  ByteOf[res[p[m]]] >= ByteOf[res[p[n]]]
    <3>1. Before(res, p[m], p[n])
      BY <1>3, <2>1
    <3>2. ByteOf[res[p[m]]] \in Nat /\ ByteOf[res[p[n]]] \in Nat
      BY <1>1, Lanes, ByteOfAssumption DEF Vect
    <3> QED BY <3>1, <3>2 DEF Before
  <2> QED BY <1>3, <2>1 DEF Falls
<1>5. res' = Falling(res) /\ UNCHANGED <<matrix, rescy, orincl, k>> /\ pc' = "clear"
  BY DEF Sort
<1>6. TypeOK'
  BY <1>1, <1>2, <1>5 DEF TypeOK, Vect
<1>7. Fresh'
  <2>1. RowsIn(res') = RowsIn(matrix')
    BY <1>1, <1>2, <1>5 DEF Fresh
  <2> QED BY <1>1, <1>5, <2>1 DEF Fresh
<1>8. Falls(res)'
  BY <1>4, <1>5
<1> QED BY <1>5, <1>6, <1>7, <1>8 DEF IInv

LEMMA ClearIInv == IInv /\ Clear => IInv'
<1> SUFFICES ASSUME IInv, Clear PROVE IInv'
  OBVIOUS
<1>1. TypeOK /\ Fresh /\ res \in Vect /\ Falls(res)
  BY DEF IInv, TypeOK, Clear, Vect
<1>2. /\ RemoveDups(res) \in Vect /\ Distinct(RemoveDups(res))
      /\ RowsIn(RemoveDups(res)) \ {{}} = RowsIn(res) \ {{}}
  BY <1>1, RemoveDupsFacts
<1>3. res' = RemoveDups(res) /\ rescy' = res' /\ UNCHANGED <<matrix, orincl, k>> /\ pc' = "rotate"
  BY DEF Clear
<1>4. TypeOK'
  BY <1>1, <1>2, <1>3 DEF TypeOK, Vect
<1>5. Rotating'
  <2>1. Distinct(res)'
    BY <1>2, <1>3
  <2>2. RowsIn(res') \ {{}} = RowsIn(matrix') \ {{}}
    BY <1>1, <1>2, <1>3 DEF Fresh
  <2>3. k' = 0 /\ orincl' = Zero /\ rescy' = res'
    BY <1>1, <1>3 DEF Fresh
  <2>4. \A i \in Low : rescy'[i] = res'[Back(i, k')]
    BY <2>3, BackFacts
  <2>5. ASSUME NEW i \in Low PROVE orincl'[i] = UNION Met(res', i, k')
    <3>1. Met(res', i, 0) = {}
      BY DEF Met
    <3>2. Zero[i] = {}
      BY Lanes DEF Zero
    <3> QED BY <2>3, <3>1, <3>2
  <2> QED BY <2>1, <2>2, <2>4, <2>5 DEF Rotating, Distinct
<1> QED BY <1>3, <1>4, <1>5 DEF IInv

LEMMA RotateIInv == IInv /\ Rotate => IInv'
<1> SUFFICES ASSUME IInv, Rotate PROVE IInv'
  OBVIOUS
<1>1. /\ TypeOK /\ Rotating
      /\ UNCHANGED <<matrix, res, pc>> /\ k' = k + 1 /\ rescy' = Rotated(rescy)
      /\ k \in 0 .. Height - 2
  BY HeightAssumption DEF IInv, TypeOK, Rotate, Rotations
<1>2. \A i \in Lane : rotlow[i] \in Lane /\ rescy'[i] = rescy[rotlow[i]]
  BY <1>1, HeightAssumption DEF Rotated, rotlow, Lane, Low
<1>3. \A i \in Lane : rescy'[i] \in Row /\ orincl'[i] = orincl[i] \cup (IF rescy'[i] \subseteq res[i] THEN rescy'[i] ELSE {})
  BY <1>1, <1>2 DEF TypeOK, Rotate
<1>4. TypeOK'
  <2>1. rescy' \in [Lane -> Row]
    BY <1>1, <1>3 DEF Rotated
  <2>2. orincl' \in [Lane -> Row]
    <3>1. \A i \in Lane : orincl'[i] \in Row
      BY <1>1, <1>3 DEF TypeOK, Row
    <3>2. orincl' = [i \in Lane |-> orincl'[i]]
      BY DEF Rotate
    <3> QED BY <3>1, <3>2
  <2>3. k' \in 0 .. Height - 1
    BY <1>1, HeightAssumption
  <2> QED BY <1>1, <2>1, <2>2, <2>3 DEF TypeOK
<1>5. \A i \in Low : rescy'[i] = res[Back(i, k + 1)]
  <2>1. ASSUME NEW i \in Low PROVE rescy'[i] = res[Back(i, k + 1)]
    <3>1. rotlow[i] \in Low /\ Back(rotlow[i], k) = Back(i, k + 1)
      BY <1>1, BackFacts
    <3>2. rescy'[i] = rescy[rotlow[i]]
      BY <1>2, Lanes
    <3> QED BY <1>1, <3>1, <3>2 DEF Rotating
  <2> QED BY <2>1
<1>6. \A i \in Low : orincl'[i] = UNION Met(res, i, k + 1)
  <2>1. ASSUME NEW i \in Low PROVE orincl'[i] = UNION Met(res, i, k + 1)
    <3>1. orincl'[i] = orincl[i] \cup (IF rescy'[i] \subseteq res[i] THEN rescy'[i] ELSE {})
      BY <1>3, Lanes
    <3>2. orincl[i] = UNION Met(res, i, k) /\ rescy'[i] = res[Back(i, k + 1)]
      BY <1>1, <1>5 DEF Rotating
    <3> QED BY <1>1, <3>1, <3>2, MeetOne
  <2> QED BY <2>1
<1>7. Rotating'
  BY <1>1, <1>5, <1>6 DEF Rotating, Distinct
<1>8. pc' = "rotate"
  BY DEF Rotate
<1> QED BY <1>4, <1>7, <1>8 DEF IInv

LEMMA DropIInv == IInv /\ Drop => IInv'
<1> SUFFICES ASSUME IInv, Drop PROVE IInv'
  OBVIOUS
<1>1. /\ TypeOK /\ Rotating /\ res \in Vect /\ k = Height - 1
      /\ UNCHANGED <<matrix, rescy, orincl, k>> /\ pc' = "arrange"
      /\ res' = [i \in Lane |-> IF res[i] # orincl[i] THEN res[i] ELSE {}]
  BY DEF IInv, TypeOK, Drop, Rotations, Vect
<1>2. \A i \in Low : orincl[i] = UNION Smaller(res[i], RowsIn(res))
  BY <1>1, AllMet DEF Rotating
<1>3. \A i \in Low : res'[i] = IF res[i] \in Irreducible(RowsIn(res)) THEN res[i] ELSE {}
  <2>1. ASSUME NEW i \in Low
        PROVE  res[i] \in Irreducible(RowsIn(res)) <=> res[i] # orincl[i]
    BY <1>2 DEF Irreducible, RowsIn
  <2> QED BY <1>1, <2>1, Lanes
<1>4. RowsIn(res') \ {{}} = Irreducible(RowsIn(res))
  <2>1. {} \notin Irreducible(RowsIn(res))
    BY EmptyRow
  <2>2. RowsIn(res') \ {{}} \subseteq Irreducible(RowsIn(res))
    BY <1>3 DEF RowsIn
  <2>3. ASSUME NEW x \in Irreducible(RowsIn(res)) PROVE x \in RowsIn(res')
    <3>1. PICK i \in Low : x = res[i]
      BY DEF Irreducible, RowsIn
    <3> QED BY <1>3, <3>1 DEF RowsIn
  <2> QED BY <2>1, <2>2, <2>3
<1>5. Irreducible(RowsIn(res)) = Irreducible(RowsIn(matrix))
  BY <1>1, EmptyRow DEF Rotating
<1>6. Distinct(res')
  BY <1>1, <1>3 DEF Rotating, Distinct
<1>7. TypeOK'
  <2>1. res' \in [Lane -> Row]
    BY <1>1 DEF TypeOK, Row
  <2> QED BY <1>1, <2>1 DEF TypeOK
<1>8. Dropped'
  BY <1>1, <1>4, <1>5, <1>6 DEF Dropped, Distinct
<1> QED BY <1>1, <1>7, <1>8 DEF IInv

LEMMA ArrangeIInv == IInv /\ Arrange => IInv'
<1> SUFFICES ASSUME IInv, Arrange PROVE IInv'
  OBVIOUS
<1>1. /\ TypeOK /\ Dropped /\ res \in Vect /\ res' = Rising(res)
      /\ UNCHANGED <<matrix, rescy, orincl, k>> /\ pc' = "done"
  BY DEF IInv, TypeOK, Arrange, Vect
<1> DEFINE w == Falling(res)
<1>2. w \in Vect /\ RowsIn(w) = RowsIn(res)
  BY <1>1, FallingFacts
<1>3. PICK p \in [Low -> Low] :
        /\ \A n \in Low : w[n] = res[p[n]]
        /\ \A m, n \in Low : m < n => Before(res, p[m], p[n])
  BY <1>1, FallingFacts
<1>4. \A n \in Low : Height - 1 - n \in Low /\ n \in Int /\ Height - 1 - (Height - 1 - n) = n
  BY HeightAssumption DEF Low
<1>5. \A n \in Low : res'[n] = w[Height - 1 - n]
  BY <1>1, Lanes DEF Rising
<1>6. TypeOK'
  <2>1. ASSUME NEW n \in Lane PROVE res'[n] \in Row
    <3>1. CASE n \in Low
      BY <1>2, <1>4, <1>5, <3>1, Lanes DEF Vect
    <3>2. CASE n \notin Low
      BY <1>1, <3>2 DEF Rising, Vect
    <3> QED BY <3>1, <3>2
  <2>2. res' = [n \in Lane |-> res'[n]]
    BY <1>1 DEF Rising
  <2> QED BY <1>1, <2>1, <2>2 DEF TypeOK
<1> HIDE DEF w
<1>7. RowsIn(res') = RowsIn(res)
  <2>1. \A n \in Low : w[n] = res'[Height - 1 - n]
    BY <1>4, <1>5
  <2>2. RowsIn(res') = RowsIn(w)
    BY <1>4, <1>5, <2>1 DEF RowsIn
  <2> QED BY <1>2, <2>2
<1>8. ASSUME NEW m \in Low, NEW n \in Low, m > n
      PROVE  ByteOf[res'[m]] > ByteOf[res'[n]] \/ res'[n] = {}
  <2> DEFINE a == Height - 1 - m
             b == Height - 1 - n
  <2>1. a \in Low /\ b \in Low /\ a < b
    BY <1>4, <1>8, HeightAssumption
  <2>2. res'[m] = res[p[a]] /\ res'[n] = res[p[b]]
    BY <1>3, <1>4, <1>5
  <2> HIDE DEF a, b
  <2>3. Before(res, p[a], p[b]) /\ p[a] \in Low /\ p[b] \in Low
    BY <1>3, <2>1
  <2>4. p[a] # p[b]
    BY <1>1, <2>3, BeforeOrders
  <2>5. CASE ByteOf[res[p[a]]] > ByteOf[res[p[b]]]
    BY <2>2, <2>5
  <2>6. CASE res[p[a]] = res[p[b]]
    BY <1>1, <2>2, <2>3, <2>4, <2>6 DEF Dropped, Distinct
  <2> QED BY <2>3, <2>5, <2>6 DEF Before
<1>9. Listed'
  BY <1>1, <1>7, <1>8 DEF Dropped, Listed
<1> QED BY <1>1, <1>6, <1>9 DEF IInv

LEMMA NextIInv == IInv /\ [Next]_vars => IInv'
<1> SUFFICES ASSUME IInv, [Next]_vars PROVE IInv'
  OBVIOUS
<1>1. CASE Sort
  BY <1>1, SortIInv
<1>2. CASE Clear
  BY <1>2, ClearIInv
<1>3. CASE Rotate
  BY <1>3, RotateIInv
<1>4. CASE Drop
  BY <1>4, DropIInv
<1>5. CASE Arrange
  BY <1>5, ArrangeIInv
<1>6. CASE UNCHANGED vars
  <2>1. UNCHANGED <<matrix, res, rescy, orincl, pc, k>>
    BY <1>6 DEF vars
  <2>2. TypeOK'
    BY <2>1 DEF IInv, TypeOK
  <2>3. (Fresh => Fresh') /\ (Falls(res) => Falls(res)')
    BY <2>1 DEF Fresh, Falls, RowsIn
  <2>4. Rotating => Rotating'
    BY <2>1 DEF Rotating, Distinct, RowsIn
  <2>5. Dropped => Dropped'
    BY <2>1 DEF Dropped, Distinct, RowsIn
  <2>6. Listed => Listed'
    BY <2>1 DEF Listed, RowsIn
  <2> QED BY <2>1, <2>2, <2>3, <2>4, <2>5, <2>6 DEF IInv
<1> QED BY <1>1, <1>2, <1>3, <1>4, <1>5, <1>6 DEF Next

LEMMA Invariance == Spec => []IInv
<1> QED BY InitIInv, NextIInv, PTL DEF Spec

-----------------------------------------------------------------------------
(* What is shown.                                                          *)

\* The vectors of row_space_basis stay vectors of rows.
THEOREM TypeCorrect == Spec => []TypeOK
<1>1. IInv => TypeOK
  BY DEF IInv
<1> QED BY <1>1, Invariance, PTL

\* After the last rotation every lane has united the rows below its own.
THEOREM UnionsAreComplete == Spec => []UnionsComplete
<1>1. IInv => UnionsComplete
  <2> SUFFICES ASSUME IInv, pc = "rotate", k = Rotations, NEW i \in Low
               PROVE  orincl[i] = UNION Smaller(res[i], RowsIn(res))
    BY DEF UnionsComplete
  <2>1. Rotating /\ res \in Vect /\ k = Height - 1
    BY DEF IInv, TypeOK, Vect, Rotations
  <2> QED BY <2>1, AllMet DEF Rotating
<1> QED BY <1>1, Invariance, PTL

\* No step of row_space_basis changes the space of the rows.
THEOREM SpaceIsKept == Spec => []SpaceKept
<1>1. IInv => SpaceKept
  <2> SUFFICES ASSUME IInv PROVE Space(RowsIn(res)) = Space(RowsIn(matrix))
    BY DEF SpaceKept
  <2>1. RowsIn(matrix) \in SUBSET Row
    BY DEF IInv, TypeOK, RowsIn
  <2>2. CASE pc \in {"sort", "clear"}
    BY <2>2 DEF IInv, Fresh
  <2>3. CASE pc = "rotate"
    BY <2>3, EmptyRow DEF IInv, Rotating
  <2>4. CASE pc \in {"arrange", "done"}
    <3>1. RowsIn(res) \ {{}} = Irreducible(RowsIn(matrix))
      BY <2>4 DEF IInv, Dropped, Listed
    <3>2. {} \notin Irreducible(RowsIn(matrix))
      BY EmptyRow
    <3>3. RowsIn(res) \ {{}} = Irreducible(RowsIn(matrix)) \ {{}}
      BY <3>1, <3>2
    <3>4. Space(RowsIn(res)) = Space(Irreducible(RowsIn(matrix)))
      BY <3>3, EmptyRow
    <3> QED BY <2>1, <3>4, IrreducibleSpan
  <2> QED BY <2>2, <2>3, <2>4 DEF IInv, TypeOK
<1> QED BY <1>1, Invariance, PTL

\* row_space_basis returns a basis that depends on the row space only.
THEOREM ReturnsCanonicalBasis == Spec => []BasisAtReturn
<1>1. IInv => BasisAtReturn
  <2> SUFFICES ASSUME IInv, pc = "done" PROVE BasisAtReturn
    BY DEF BasisAtReturn
  <2>1. Listed
    BY DEF IInv
  <2>2. \A n \in 1 .. Height : Height - n \in Low /\ Rows(res)[n] = res[Height - n]
    BY HeightAssumption DEF Low, Rows
  <2>3. {Rows(res)[n] : n \in 1 .. Height} = RowsIn(res)
    <3>1. ASSUME NEW i \in Low PROVE Height - i \in 1 .. Height /\ Rows(res)[Height - i] = res[i]
      BY HeightAssumption DEF Low, Rows
    <3> QED BY <2>2, <3>1 DEF RowsIn
  <2>4. ASSUME NEW m \in 1 .. Height, NEW n \in 1 .. Height, m < n
        PROVE  ByteOf[Rows(res)[m]] > ByteOf[Rows(res)[n]] \/ Rows(res)[n] = {}
    <3>1. Height - m > Height - n
      BY <2>4, HeightAssumption
    <3> QED BY <2>1, <2>2, <3>1 DEF Listed
  <2>5. Irreducible(Space(RowsIn(matrix))) = Irreducible(RowsIn(matrix))
    BY IrreducibleOfSpace
  <2> QED BY <2>1, <2>3, <2>4, <2>5 DEF Listed, BasisAtReturn
<1> QED BY <1>1, Invariance, PTL

-----------------------------------------------------------------------------
(* Row spaces.                                                             *)

\* A set of rows that has the empty row and is closed under union with single
\* generators contains every union of generators.  The induction is over the
\* number of generators united: take a smallest set of them whose union is
\* missing, and leave one out.
LEMMA ClosedHasSpace ==
  ASSUME NEW rows, IsFiniteSet(rows), NEW L, {} \in L,
         \A x \in L, r \in rows : x \cup r \in L
  PROVE  Space(rows) \subseteq L
<1> DEFINE Missing == {S \in SUBSET rows : UNION S \notin L}
<1>1. SUFFICES ASSUME Missing # {} PROVE FALSE
  BY DEF Space
<1>2. IsWellFoundedOn(StrictSubsetOrdering(rows), FiniteSubsetsOf(rows))
  BY FS_StrictSubsetOrderingWellFounded
<1>3. Missing \subseteq FiniteSubsetsOf(rows)
  BY FS_FiniteSubsetsOfFinite
<1> HIDE DEF Missing
<1>4. PICK S \in Missing : \A T \in Missing : ~(<<T, S>> \in StrictSubsetOrdering(rows))
  BY <1>1, <1>2, <1>3, WFMin
<1>5. S \in SUBSET rows /\ UNION S \notin L
  BY DEF Missing
<1>6. S # {}
  BY <1>5
<1>7. PICK r \in S : TRUE
  BY <1>6
<1>8. S \ {r} \notin Missing
  <2>1. <<S \ {r}, S>> \in StrictSubsetOrdering(rows)
    BY <1>5, <1>7 DEF StrictSubsetOrdering
  <2> QED BY <2>1, <1>4
<1>9. UNION (S \ {r}) \in L
  BY <1>5, <1>8 DEF Missing
<1>10. UNION S = (UNION (S \ {r})) \cup r
  BY <1>7
<1> QED BY <1>5, <1>7, <1>9, <1>10

LEMMA SpaceClosed ==
  ASSUME NEW rows, NEW x \in Space(rows), NEW r \in rows
  PROVE  x \cup r \in Space(rows)
<1>1. PICK S \in SUBSET rows : x = UNION S
  BY DEF Space
<1>2. S \cup {r} \in SUBSET rows /\ x \cup r = UNION (S \cup {r})
  BY <1>1
<1> QED BY <1>2 DEF Space

LEMMA SpaceHas ==
  ASSUME NEW rows
  PROVE  {} \in Space(rows) /\ \A r \in rows : r \in Space(rows)
<1>1. {} \in SUBSET rows /\ UNION {} = {}
  OBVIOUS
<1>2. ASSUME NEW r \in rows PROVE {r} \in SUBSET rows /\ UNION {r} = r
  OBVIOUS
<1> QED BY <1>1, <1>2 DEF Space

LEMMA AppendFacts ==
  ASSUME NEW S, NEW s \in Seq(S), NEW e \in S, NEW t, t = Append(s, e)
  PROVE  /\ t \in Seq(S)
         /\ Len(t) = Len(s) + 1
         /\ \A n \in 1 .. Len(s) : t[n] = s[n]
         /\ t[Len(s) + 1] = e
BY AppendProperties

LEMMA ElementsGrow ==
  ASSUME NEW S, NEW s \in Seq(S), NEW t \in Seq(S), Len(t) = Len(s) + 1,
         \A n \in 1 .. Len(s) : t[n] = s[n]
  PROVE  Elements(t) = Elements(s) \cup {t[Len(s) + 1]}
<1>1. Len(s) \in Nat /\ DOMAIN s = 1 .. Len(s) /\ DOMAIN t = 1 .. Len(s) + 1
  BY LenProperties
<1>2. DOMAIN t = DOMAIN s \cup {Len(s) + 1}
  BY <1>1
<1> QED BY <1>1, <1>2 DEF Elements

-----------------------------------------------------------------------------
(* The call of row_space_basis: the loop is given distinct rows that span  *)
(* the space of the matrix.                                                *)

NoneTwice(s) == \A m, n \in DOMAIN s : s[m] = s[n] => m = n

RowsFit(s) ==
  /\ s \in Seq(Row)
  /\ \A m, n \in DOMAIN s : m # n /\ s[m] = s[n] => s[m] = {}
  /\ Space(Elements(s)) = Space(RowsIn(matrix))

LEMMA RowsReturned ==
  ASSUME TypeOK, BasisAtReturn, SpaceKept, pc = "done"
  PROVE  RowsFit(Rows(res))
<1> DEFINE s == Rows(res)
<1>1. s = [n \in 1 .. Height |-> res[Height - n]] /\ Height \in Nat \ {0}
  BY HeightAssumption DEF Rows
<1>2. \A n \in 1 .. Height : Height - n \in Low /\ s[n] = res[Height - n]
  BY <1>1 DEF Low
<1>3. \A i \in Low : Height - i \in 1 .. Height /\ Height - (Height - i) = i
  BY <1>1 DEF Low
<1>4. DOMAIN s = 1 .. Height
  BY <1>1
<1> HIDE DEF s
<1>5. s \in Seq(Row)
  <2>1. \A i \in Low : res[i] \in Row
    BY Lanes DEF TypeOK
  <2>2. \A n \in 1 .. Height : s[n] \in Row
    BY <1>2, <2>1
  <2>3. s \in [1 .. Height -> Row]
    BY <1>1, <1>2, <2>2 DEF s
  <2> QED BY <1>1, <2>3, SeqDef
<1>6. Elements(s) = RowsIn(res)
  <2>1. ASSUME NEW x \in Elements(s) PROVE x \in RowsIn(res)
    BY <1>2, <1>4 DEF Elements, RowsIn
  <2>2. ASSUME NEW i \in Low PROVE res[i] \in Elements(s)
    <3>1. s[Height - i] = res[i]
      BY <1>2, <1>3
    <3> QED BY <1>3, <1>4, <3>1 DEF Elements
  <2> QED BY <2>1, <2>2 DEF RowsIn
<1>7. ASSUME NEW m \in 1 .. Height, NEW n \in 1 .. Height, m < n, s[m] = s[n]
      PROVE  s[n] = {}
  <2>1. ByteOf[s[m]] > ByteOf[s[n]] \/ s[n] = {}
    BY <1>7 DEF BasisAtReturn, s
  <2>2. ByteOf[s[n]] \in Nat
    <3>1. s[n] \in Row
      BY <1>4, <1>5, ElementOfSeq, LenProperties
    <3> QED BY <3>1, ByteOfAssumption
  <2> QED BY <1>7, <2>1, <2>2
<1>8. ASSUME NEW m \in DOMAIN s, NEW n \in DOMAIN s, m # n, s[m] = s[n]
      PROVE  s[m] = {}
  <2>1. m < n \/ n < m
    BY <1>4, <1>8
  <2> QED BY <1>4, <1>7, <1>8, <2>1
<1> QED BY <1>5, <1>6, <1>8 DEF RowsFit, SpaceKept, s

-----------------------------------------------------------------------------
(* The invariant.                                                          *)

Waiting == row_vec = << >> /\ lookup = {} /\ at = 1 /\ with = 1

\* While row_vec is gathered: it lists what is not empty among the first rows.
Gathering ==
  /\ at <= Len(basis) + 1 /\ with = 1
  /\ Elements(row_vec) = {basis[n] : n \in 1 .. at - 1} \ {{}}
  /\ lookup = Elements(row_vec)
  /\ NoneTwice(row_vec)

\* From then on: the vector lists the rows found, and of every row before the
\* current one all unions with the basis have been found.
Closing ==
  /\ Elements(row_vec) = Elements(basis) \ {{}}
  /\ Elements(row_vec) \subseteq lookup
  /\ lookup \subseteq Space(Elements(basis))
  /\ {} \in lookup
  /\ Elements(row_space) = lookup \ {{}}
  /\ NoneTwice(row_space)
  /\ row_space # << >> => row_vec # << >> /\ with <= Len(row_vec)
  /\ \A m \in DOMAIN row_space, n \in DOMAIN row_vec :
       m < at \/ (m = at /\ n < with) => row_space[m] \cup row_vec[n] \in lookup

ClosureIInv ==
  /\ ClosureTypeOK
  /\ phase = "basis" => Waiting
  /\ phase # "basis" => RowsFit(basis)
  /\ phase = "gather" => Gathering
  /\ phase \in {"close", "done"} => Closing
  /\ phase = "done" => at > Len(row_space)

LEMMA ClosureInitIInv == ClosureInit => ClosureIInv
<1> SUFFICES ASSUME ClosureInit PROVE ClosureIInv
  OBVIOUS
<1>1. << >> \in Seq(Row)
  OBVIOUS
<1>2. ClosureTypeOK
  BY <1>1 DEF ClosureInit, ClosureTypeOK
<1> QED BY <1>2 DEF ClosureInit, ClosureIInv, Waiting

LEMMA TakeIInv ==
  ClosureIInv /\ TypeOK /\ BasisAtReturn /\ SpaceKept /\ Take => ClosureIInv'
<1> SUFFICES ASSUME ClosureIInv, TypeOK, BasisAtReturn, SpaceKept, Take PROVE ClosureIInv'
  OBVIOUS
<1>1. RowsFit(Rows(res)) /\ ClosureTypeOK /\ Waiting
  BY RowsReturned DEF Take, ClosureIInv
<1>2. /\ basis' = Rows(res) /\ phase' = "gather" /\ matrix' = matrix
      /\ UNCHANGED <<row_vec, lookup, row_space, at, with>>
  BY DEF Take, vars
<1>3. RowsFit(basis)'
  BY <1>1, <1>2 DEF RowsFit, RowsIn
<1>4. ClosureTypeOK'
  BY <1>1, <1>2 DEF ClosureTypeOK, RowsFit
<1>5. Gathering'
  <2>1. DOMAIN << >> = {} /\ Elements(<< >>) = {}
    BY DEF Elements
  <2>2. Len(basis') \in Nat
    BY <1>1, <1>2, LenProperties DEF RowsFit
  <2> QED BY <1>1, <1>2, <2>1, <2>2 DEF Gathering, Waiting, NoneTwice
<1> QED BY <1>2, <1>3, <1>4, <1>5 DEF ClosureIInv

LEMMA RowsStayFit == RowsFit(basis) /\ UNCHANGED <<vars, basis>> => RowsFit(basis)'
BY DEF RowsFit, RowsIn, vars

LEMMA GatherIInv == ClosureIInv /\ Gather => ClosureIInv'
<1> SUFFICES ASSUME ClosureIInv, Gather PROVE ClosureIInv'
  OBVIOUS
<1>1. /\ ClosureTypeOK /\ Gathering /\ RowsFit(basis)
      /\ at \in 1 .. Len(basis) /\ Len(basis) \in Nat /\ DOMAIN basis = 1 .. Len(basis)
      /\ basis[at] \in Row
  BY LenProperties, ElementOfSeq DEF ClosureIInv, ClosureTypeOK, Gather
<1>2. {basis[n] : n \in 1 .. at' - 1} = {basis[n] : n \in 1 .. at - 1} \cup {basis[at]}
  BY <1>1 DEF Gather
<1>3. CASE basis[at] = {}
  <2>1. ClosureTypeOK'
    BY <1>1, <1>3 DEF ClosureTypeOK, Gather
  <2>2. UNCHANGED <<basis, row_vec, lookup, with>> /\ at' = at + 1
    BY <1>3 DEF Gather
  <2>3. Gathering'
    <3>1. Elements(row_vec) = {basis[n] : n \in 1 .. at' - 1} \ {{}}
      BY <1>1, <1>2, <1>3 DEF Gathering
    <3>2. at' <= Len(basis) + 1
      BY <1>1, <2>2
    <3>3. Elements(row_vec') = Elements(row_vec) /\ NoneTwice(row_vec)'
      BY <1>1, <2>2 DEF Gathering, NoneTwice
    <3> QED BY <1>1, <2>2, <3>1, <3>2, <3>3 DEF Gathering
  <2> QED BY <2>1, <2>3, RowsStayFit DEF ClosureIInv, Gather
<1>4. CASE basis[at] # {}
  <2>1. /\ row_vec' = Append(row_vec, basis[at])
        /\ Elements(row_vec') = Elements(row_vec) \cup {basis[at]}
        /\ row_vec' \in Seq(Row)
        /\ Len(row_vec') = Len(row_vec) + 1
        /\ \A n \in 1 .. Len(row_vec) : row_vec'[n] = row_vec[n]
        /\ row_vec'[Len(row_vec) + 1] = basis[at]
    <3>1. row_vec' = Append(row_vec, basis[at])
      BY <1>4 DEF Gather
    <3>2. row_vec \in Seq(Row)
      BY <1>1 DEF ClosureTypeOK
    <3>3. row_vec' \in Seq(Row) /\ Len(row_vec') = Len(row_vec) + 1
      BY <1>1, <3>1, <3>2, AppendFacts
    <3>4. \A n \in 1 .. Len(row_vec) : row_vec'[n] = row_vec[n]
      BY <1>1, <3>1, <3>2, AppendFacts
    <3>5. row_vec'[Len(row_vec) + 1] = basis[at]
      BY <1>1, <3>1, <3>2, AppendFacts
    <3>6. Elements(row_vec') = Elements(row_vec) \cup {row_vec'[Len(row_vec) + 1]}
      BY <3>2, <3>3, <3>4, ElementsGrow
    <3> QED BY <3>1, <3>3, <3>4, <3>5, <3>6
  <2>2. ClosureTypeOK'
    BY <1>1, <1>4, <2>1 DEF ClosureTypeOK, Gather
  <2>3. basis[at] \notin Elements(row_vec)
    <3>1. \A n \in DOMAIN basis : n # at => basis[n] # basis[at]
      BY <1>1, <1>4 DEF RowsFit
    <3>2. basis[at] \notin {basis[n] : n \in 1 .. at - 1}
      BY <1>1, <3>1
    <3> QED BY <1>1, <3>2 DEF Gathering
  <2>4. NoneTwice(row_vec)'
    <3>1. /\ Len(row_vec) \in Nat /\ DOMAIN row_vec = 1 .. Len(row_vec)
          /\ DOMAIN (row_vec') = 1 .. Len(row_vec) + 1
      BY <1>1, <2>1, LenProperties DEF ClosureTypeOK
    <3>2. \A n \in 1 .. Len(row_vec) : row_vec'[n] # basis[at]
      BY <2>1, <2>3, <3>1 DEF Elements
    <3> QED BY <1>1, <2>1, <3>1, <3>2 DEF NoneTwice, Gathering
  <2>5. Gathering'
    BY <1>1, <1>2, <1>4, <2>1, <2>4 DEF Gathering, Gather
  <2> QED BY <2>2, <2>5, RowsStayFit DEF ClosureIInv, Gather
<1> QED BY <1>3, <1>4

LEMMA StartIInv == ClosureIInv /\ Start => ClosureIInv'
<1> SUFFICES ASSUME ClosureIInv, Start PROVE ClosureIInv'
  OBVIOUS
<1>1. /\ ClosureTypeOK /\ Gathering
      /\ at = Len(basis) + 1 /\ Len(basis) \in Nat /\ DOMAIN basis = 1 .. Len(basis)
  BY LenProperties DEF ClosureIInv, ClosureTypeOK, Gathering, Start
<1>2. Elements(row_vec) = Elements(basis) \ {{}}
  <2>1. 1 .. at - 1 = DOMAIN basis
    BY <1>1
  <2> QED BY <1>1, <2>1 DEF Gathering, Elements
<1>3. ClosureTypeOK'
  BY <1>1 DEF ClosureTypeOK, Start, Row
<1>4. Closing'
  <2>1. lookup' \subseteq Space(Elements(basis)) /\ {} \in lookup'
    BY <1>1, <1>2, SpaceHas DEF Start, Gathering
  <2>2. Elements(row_space') = lookup' \ {{}} /\ Elements(row_vec) \subseteq lookup'
    BY <1>1, <1>2 DEF Start, Gathering
  <2>3. row_vec # << >> => 1 <= Len(row_vec)
    BY <1>1, LenProperties, EmptySeq DEF ClosureTypeOK
  <2>4. row_space' = row_vec /\ at' = 1 /\ with' = 1 /\ row_vec' = row_vec /\ basis' = basis
    BY <1>1 DEF Start, Gathering
  <2>5. NoneTwice(row_vec)
    BY <1>1 DEF Gathering
  <2>6. DOMAIN row_vec \subseteq Nat \ {0}
    BY <1>1, LenProperties DEF ClosureTypeOK
  <2> QED BY <1>2, <2>1, <2>2, <2>3, <2>4, <2>5, <2>6 DEF Closing, NoneTwice
<1> QED BY <1>3, <1>4, RowsStayFit DEF ClosureIInv, Start

LEMMA CloseIInv == ClosureIInv /\ Close => ClosureIInv'
<1> SUFFICES ASSUME ClosureIInv, Close PROVE ClosureIInv'
  OBVIOUS
<1> DEFINE x == row_space[at] \cup row_vec[with]
<1>1. /\ ClosureTypeOK /\ Closing
      /\ Len(row_space) \in Nat /\ DOMAIN row_space = 1 .. Len(row_space)
      /\ Len(row_vec) \in Nat /\ DOMAIN row_vec = 1 .. Len(row_vec)
      /\ at \in 1 .. Len(row_space)
  BY LenProperties DEF ClosureIInv, ClosureTypeOK, Close
<1>2. with \in 1 .. Len(row_vec)
  BY <1>1, EmptySeq DEF Closing, ClosureTypeOK
<1>3. /\ row_space[at] \in lookup /\ row_space[at] # {} /\ row_space[at] \in Row
      /\ row_vec[with] \in Elements(basis) /\ row_vec[with] \in Row
  <2>1. row_space[at] \in Elements(row_space) /\ row_vec[with] \in Elements(row_vec)
    BY <1>1, <1>2 DEF Elements
  <2>2. row_space[at] \in Row /\ row_vec[with] \in Row
    BY <1>1, <1>2, ElementOfSeq DEF ClosureTypeOK
  <2> QED BY <1>1, <2>1, <2>2 DEF Closing
<1>4. x \in Row /\ x # {} /\ x \in Space(Elements(basis))
  <2>1. row_space[at] \in Space(Elements(basis))
    BY <1>1, <1>3 DEF Closing
  <2> QED BY <1>3, <2>1, SpaceClosed DEF Row
<1>11. x = row_space[at] \cup row_vec[with]
  OBVIOUS
<1>12. IF x \in lookup THEN row_space' = row_space /\ lookup' = lookup
      ELSE lookup' = lookup \cup {x} /\ row_space' = Append(row_space, x)
  BY DEF Close
<1> HIDE DEF x
<1>5. /\ lookup' = lookup \cup {x}
      /\ Elements(row_space') = Elements(row_space) \cup (IF x \in lookup THEN {} ELSE {x})
      /\ row_space' \in Seq(Row)
      /\ Len(row_space') >= Len(row_space) /\ Len(row_space') \in Nat
      /\ \A n \in 1 .. Len(row_space) : row_space'[n] = row_space[n]
      /\ \A n \in DOMAIN (row_space') : n \in 1 .. Len(row_space) \/ (n = Len(row_space) + 1 /\ x \notin lookup /\ row_space'[n] = x)
  <2>1. CASE x \in lookup
    <3>1. row_space' = row_space /\ lookup' = lookup
      BY <2>1, <1>12
    <3>2. lookup = lookup \cup {x}
      BY <2>1
    <3>3. Elements(row_space') = Elements(row_space)
      BY <3>1
    <3>4. row_space \in Seq(Row)
      BY <1>1 DEF ClosureTypeOK
    <3> QED BY <1>1, <2>1, <3>1, <3>2, <3>3, <3>4
  <2>2. CASE x \notin lookup
    <3>1. row_space' = Append(row_space, x)
      BY <2>2, <1>12
    <3>2. row_space \in Seq(Row)
      BY <1>1 DEF ClosureTypeOK
    <3>3. row_space' \in Seq(Row) /\ Len(row_space') = Len(row_space) + 1
      BY <1>4, <3>1, <3>2, AppendFacts
    <3>4. DOMAIN (row_space') = 1 .. Len(row_space) + 1
      BY <3>3, LenProperties
    <3>5. lookup' = lookup \cup {x}
      BY <2>2, <1>12
    <3>6. /\ \A n \in 1 .. Len(row_space) : row_space'[n] = row_space[n]
          /\ row_space'[Len(row_space) + 1] = x
      <4>1. \A n \in 1 .. Len(row_space) : row_space'[n] = row_space[n]
        BY <1>4, <3>1, <3>2, AppendFacts
      <4>2. row_space'[Len(row_space) + 1] = x
        BY <1>4, <3>1, <3>2, AppendFacts
      <4> QED BY <4>1, <4>2
    <3>7. Elements(row_space') = Elements(row_space) \cup {row_space'[Len(row_space) + 1]}
      BY <3>2, <3>3, <3>6, ElementsGrow
    <3>8. \A n \in DOMAIN (row_space') : n \in 1 .. Len(row_space) \/ n = Len(row_space) + 1
      BY <1>1, <3>4
    <3> QED BY <1>1, <2>2, <3>3, <3>5, <3>6, <3>7, <3>8
  <2> QED BY <2>1, <2>2
<1>6. UNCHANGED <<basis, row_vec, phase>>
  BY DEF Close
<1>7. IF with < Len(row_vec) THEN with' = with + 1 /\ at' = at ELSE with' = 1 /\ at' = at + 1
  BY DEF Close, Advance
<1>8. ClosureTypeOK'
  BY <1>1, <1>2, <1>4, <1>5, <1>6, <1>7 DEF ClosureTypeOK
<1>9. Closing'
  <2>1. Elements(row_space') = lookup' \ {{}}
    BY <1>1, <1>4, <1>5 DEF Closing
  <2>2. NoneTwice(row_space')
    <3>1. \A n \in 1 .. Len(row_space) : row_space[n] \in lookup
      BY <1>1 DEF Closing, Elements
    <3> QED BY <1>1, <1>5, <3>1 DEF NoneTwice, Closing
  <2>3. ASSUME NEW m \in DOMAIN (row_space'), NEW n \in DOMAIN row_vec,
               m < at' \/ (m = at' /\ n < with')
        PROVE  row_space'[m] \cup row_vec[n] \in lookup'
    <3>1. m < at \/ (m = at /\ n <= with)
      BY <1>1, <1>2, <1>5, <1>7, <2>3
    <3>2. m \in 1 .. Len(row_space) /\ (m < at \/ (m = at /\ n <= with))
      BY <3>1, <1>1, <1>5
    <3>3. row_space'[m] = row_space[m]
      BY <3>2, <1>5
    <3>4. CASE m = at /\ n = with
      BY <3>3, <3>4, <1>5, <1>11
    <3>5. CASE ~(m = at /\ n = with)
      <4>1. m < at \/ (m = at /\ n < with)
        BY <3>2, <3>5, <1>1, <1>2
      <4>2. row_space[m] \cup row_vec[n] \in lookup
        BY <3>2, <4>1, <1>1 DEF Closing
      <4> QED BY <4>2, <3>3, <1>5
    <3> QED BY <3>4, <3>5
  <2>4. with' <= Len(row_vec) /\ row_vec # << >>
    BY <1>1, <1>2, <1>7, EmptySeq
  <2>5. lookup' \subseteq Space(Elements(basis)) /\ {} \in lookup' /\ Elements(row_vec) \subseteq lookup'
    BY <1>1, <1>4, <1>5 DEF Closing
  <2>6. Elements(row_vec) = Elements(basis) \ {{}}
    BY <1>1 DEF Closing
  <2> QED BY <1>6, <2>1, <2>2, <2>3, <2>4, <2>5, <2>6 DEF Closing, NoneTwice
<1> QED BY <1>8, <1>9, RowsStayFit DEF ClosureIInv, Close

LEMMA StayIInv ==
  ClosureIInv /\ UNCHANGED own /\ (phase = "basis" \/ UNCHANGED vars) => ClosureIInv'
<1> SUFFICES ASSUME ClosureIInv, UNCHANGED own, phase = "basis" \/ UNCHANGED vars
             PROVE  ClosureIInv'
  OBVIOUS
<1>1. UNCHANGED <<basis, row_vec, lookup, row_space, phase, at, with>>
  BY DEF own
<1>2. ClosureTypeOK' /\ (Waiting => Waiting')
  BY <1>1 DEF ClosureIInv, ClosureTypeOK, Waiting
<1>3. phase # "basis" => RowsFit(basis)'
  BY <1>1, RowsStayFit DEF ClosureIInv
<1>4. /\ Elements(basis)' = Elements(basis) /\ Elements(row_vec)' = Elements(row_vec)
      /\ Elements(row_space)' = Elements(row_space)
      /\ NoneTwice(row_space)' = NoneTwice(row_space)
      /\ NoneTwice(row_vec)' = NoneTwice(row_vec)
  BY <1>1 DEF Elements, NoneTwice
<1>5. Gathering => Gathering'
  BY <1>1, <1>4 DEF Gathering
<1>6. Closing => Closing'
  BY <1>1, <1>4 DEF Closing
<1> QED BY <1>1, <1>2, <1>3, <1>5, <1>6 DEF ClosureIInv

Basis == TypeOK /\ BasisAtReturn /\ SpaceKept

LEMMA ClosureNextIInv == ClosureIInv /\ Basis /\ [ClosureNext]_closureVars => ClosureIInv'
<1> SUFFICES ASSUME ClosureIInv, Basis, [ClosureNext]_closureVars PROVE ClosureIInv'
  OBVIOUS
<1>1. CASE InBasis
  BY <1>1, StayIInv DEF InBasis
<1>2. CASE Take
  BY <1>2, TakeIInv DEF Basis
<1>3. CASE Gather
  BY <1>3, GatherIInv
<1>4. CASE Start
  BY <1>4, StartIInv
<1>5. CASE Close
  BY <1>5, CloseIInv
<1>6. CASE Return
  <2>1. /\ phase = "close" /\ phase' = "done" /\ at > Len(row_space)
        /\ UNCHANGED <<vars, basis, row_vec, lookup, row_space, at, with>>
    BY <1>6 DEF Return
  <2>2. ClosureTypeOK'
    BY <2>1 DEF ClosureIInv, ClosureTypeOK
  <2>3. RowsFit(basis)'
    BY <2>1, RowsStayFit DEF ClosureIInv
  <2>4. Closing'
    BY <2>1 DEF ClosureIInv, Closing, NoneTwice, Elements
  <2> QED BY <2>1, <2>2, <2>3, <2>4 DEF ClosureIInv
<1>7. CASE UNCHANGED closureVars
  BY <1>7, StayIInv DEF closureVars
<1> QED BY <1>1, <1>2, <1>3, <1>4, <1>5, <1>6, <1>7 DEF ClosureNext

\* Up to its return, and after it, the function does what row_space_basis does: the
\* theorems about that hold of the call.
THEOREM CallsRowBasis == ClosureSpec => Spec
<1>1. ClosureInit => Init
  BY DEF ClosureInit
<1>2. [ClosureNext]_closureVars => [Next]_vars
  BY DEF ClosureNext, closureVars, InBasis, Take, Gather, Start, Close, Return
<1> QED BY <1>1, <1>2, PTL DEF ClosureSpec, Spec

LEMMA ClosureInvariance == ClosureSpec => [](ClosureIInv /\ Basis)
<1>1. TypeOK /\ BasisAtReturn /\ SpaceKept => Basis
  BY DEF Basis
<1>2. ClosureSpec => []Basis
  BY <1>1, CallsRowBasis, TypeCorrect, ReturnsCanonicalBasis, SpaceIsKept, PTL
<1> QED BY <1>2, ClosureInitIInv, ClosureNextIInv, PTL DEF ClosureSpec

-----------------------------------------------------------------------------
(* What is shown.                                                          *)

\* The variables stay within their types (row_space_bitset_ref).
THEOREM ClosureTypeCorrect == ClosureSpec => []ClosureTypeOK
<1>1. ClosureIInv => ClosureTypeOK
  BY DEF ClosureIInv
<1> QED BY <1>1, ClosureInvariance, PTL

\* When row_space_bitset_ref returns, every union of rows has been found.
THEOREM ComputesRowSpace == ClosureSpec => []SpaceAtReturn
<1>1. ClosureIInv => SpaceAtReturn
  <2> SUFFICES ASSUME ClosureIInv, phase = "done" PROVE lookup = Space(Elements(basis))
    BY DEF SpaceAtReturn, ClosureIInv, RowsFit
  <2>1. Closing /\ ClosureTypeOK /\ at > Len(row_space)
    BY DEF ClosureIInv
  <2>2. IsFiniteSet(Elements(basis))
    <3>1. Elements(basis) \subseteq Row
      BY <2>1, LenProperties DEF ClosureTypeOK, Elements
    <3>2. IsFiniteSet(Row)
      BY ColumnsAssumption, FS_SUBSET DEF Row
    <3> QED BY <3>1, <3>2, FS_Subset
  <2>3. ASSUME NEW x \in lookup, NEW r \in Elements(basis)
        PROVE  x \cup r \in lookup
    <3>1. CASE r = {}
      BY <3>1
    <3>2. CASE x = {} /\ r # {}
      BY <3>2, <2>1 DEF Closing
    <3>3. CASE x # {} /\ r # {}
      <4>1. PICK m \in DOMAIN row_space : row_space[m] = x
        BY <2>1, <3>3 DEF Closing, Elements
      <4>2. PICK n \in DOMAIN row_vec : row_vec[n] = r
        BY <2>1, <3>3 DEF Closing, Elements
      <4>3. m < at
        BY <2>1, LenProperties DEF ClosureTypeOK
      <4> QED BY <4>1, <4>2, <4>3, <2>1 DEF Closing
    <3> QED BY <3>1, <3>2, <3>3
  <2>4. Space(Elements(basis)) \subseteq lookup
    BY <2>1, <2>2, <2>3, ClosedHasSpace DEF Closing
  <2> QED BY <2>1, <2>4 DEF Closing
<1> QED BY <1>1, ClosureInvariance, PTL

\* The vector that grows under the loop lists every row once.
THEOREM FindsOnce == ClosureSpec => []FoundOnce
<1>1. ClosureIInv => FoundOnce
  BY DEF ClosureIInv, Closing, NoneTwice, FoundOnce
<1> QED BY <1>1, ClosureInvariance, PTL
=============================================================================
