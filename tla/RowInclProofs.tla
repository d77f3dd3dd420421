--------------------------- MODULE RowInclProofs ---------------------------
(***************************************************************************)
(* The functions that decide by inclusion whether rows are in a row space: *)
(* each candidate meets every row of its half in every round, for every    *)
(* height and any number of columns, and what they return is right.        *)
(***************************************************************************)
EXTENDS RowIncl, FiniteSetTheorems, FunctionTheorems, TLAPS

-----------------------------------------------------------------------------
(* Rows of a space.                                                        *)

\* A row is in the space of some rows exactly if it is the union of those it
\* includes.
LEMMA InSpace ==
  ASSUME NEW rows, NEW x
  PROVE  x \in Space(rows) <=> x = UNION {y \in rows : y \subseteq x}
<1>1. ASSUME x = UNION {y \in rows : y \subseteq x} PROVE x \in Space(rows)
  <2>1. {y \in rows : y \subseteq x} \in SUBSET rows
    OBVIOUS
  <2> QED BY <1>1, <2>1 DEF Space
<1>2. ASSUME x \in Space(rows) PROVE x = UNION {y \in rows : y \subseteq x}
  <2>1. PICK S \in SUBSET rows : x = UNION S
    BY <1>2 DEF Space
  <2>2. S \subseteq {y \in rows : y \subseteq x}
    BY <2>1
  <2>3. UNION S \subseteq UNION {y \in rows : y \subseteq x}
    BY <2>2
  <2> QED BY <2>1, <2>3
<1> QED BY <1>1, <1>2

\* One space includes another if it has the rows that make up the other.
LEMMA SpaceIncluded ==
  ASSUME NEW A, NEW B
  PROVE  Space(A) \subseteq Space(B) <=> A \subseteq Space(B)
<1>1. A \subseteq Space(A)
  <2>1. ASSUME NEW x \in A PROVE {x} \in SUBSET A /\ UNION {x} = x
    OBVIOUS
  <2> QED BY <2>1 DEF Space
<1>2. ASSUME A \subseteq Space(B), NEW S \in SUBSET A PROVE UNION S \in Space(B)
  <2> DEFINE T == {y \in B : \E x \in S : y \subseteq x}
  <2>1. ASSUME NEW c \in UNION S PROVE c \in UNION T
    <3>1. PICK x \in S : c \in x
      OBVIOUS
    <3>2. x = UNION {y \in B : y \subseteq x}
      BY <1>2, InSpace
    <3>3. PICK y \in B : c \in y /\ y \subseteq x
      BY <3>1, <3>2
    <3> QED BY <3>3
  <2>2. UNION T \subseteq UNION S
    OBVIOUS
  <2>3. T \in SUBSET B /\ UNION S = UNION T
    BY <2>1, <2>2
  <2> QED BY <2>3 DEF Space
<1>3. A \subseteq Space(B) => Space(A) \subseteq Space(B)
  BY <1>2 DEF Space
<1> QED BY <1>1, <1>3

-----------------------------------------------------------------------------
(* Going round.  The row that lane n holds now is held m rotations later   *)
(* by lane Ahead(n, m) of the same half.                                   *)

Half(n)     == IF n \in Low THEN Low ELSE High
Ahead(n, m) == IF n + m < (IF n \in Low THEN Height ELSE 2 * Height)
               THEN n + m ELSE n + m - Height

\* The lanes that a rotation turns within their half.
Turned == IF fn = "row_space_included" THEN Low ELSE Lane
Table  == IF fn = "row_space_included" THEN rotlow ELSE rotboth

LEMMA AheadFacts ==
  /\ \A n \in Lane, m \in 0 .. Height : Ahead(n, m) \in Half(n)
  /\ \A n \in Lane : Ahead(n, 0) = n /\ Ahead(n, Height) = n
  /\ \A n \in Lane : \A l \in Half(n) :
       (\E m \in 0 .. Height - 1 : Ahead(n, m) = l) /\ (\E m \in 1 .. Height : Ahead(n, m) = l)
<1>1. \A n \in Lane, m \in 0 .. Height : Ahead(n, m) \in Half(n)
  BY HeightAssumption DEF Lane, Low, High, Half, Ahead
<1>2. \A n \in Lane : Ahead(n, 0) = n /\ Ahead(n, Height) = n
  BY HeightAssumption DEF Lane, Low, High, Half, Ahead
<1>3. ASSUME NEW n \in Lane, NEW l \in Half(n)
      PROVE  /\ \E m \in 0 .. Height - 1 : Ahead(n, m) = l
             /\ \E m \in 1 .. Height : Ahead(n, m) = l
  <2>1. CASE l > n
    <3>1. l - n \in 0 .. Height - 1 /\ l - n \in 1 .. Height /\ Ahead(n, l - n) = l
      BY <2>1, HeightAssumption DEF Lane, Low, High, Half, Ahead
    <3> QED BY <3>1
  <2>2. CASE l = n
    <3>1. 0 \in 0 .. Height - 1 /\ Height \in 1 .. Height
      BY HeightAssumption
    <3> QED BY <3>1, <2>2, <1>2
  <2>3. CASE l < n
    <3>1. /\ l - n + Height \in 0 .. Height - 1 /\ l - n + Height \in 1 .. Height
          /\ Ahead(n, l - n + Height) = l
      BY <2>3, HeightAssumption DEF Lane, Low, High, Half, Ahead
    <3> QED BY <3>1
  <2>4. l \in Int /\ n \in Int
    BY HeightAssumption DEF Lane, Low, High, Half
  <2> QED BY <2>1, <2>2, <2>3, <2>4
<1> QED BY <1>1, <1>2, <1>3

\* A lane gets what was held one lane behind it.
LEMMA TableFacts ==
  ASSUME fn \in Sizes \cup Masks
  PROVE  /\ Turned \subseteq Lane
         /\ \A n \in Turned : Half(n) \subseteq Turned
         /\ \A n \in Turned, m \in 0 .. Height - 1 : Table[Ahead(n, m + 1)] = Ahead(n, m)
         /\ \A n \in Lane : Table[n] \in Lane
<1>1. Turned \subseteq Lane /\ \A n \in Turned : Half(n) \subseteq Turned
  BY HeightAssumption DEF Turned, Lane, Half
<1>2. \A n \in Lane : rotboth[n] = IF n = 0 THEN Height - 1
                                   ELSE IF n = Height THEN 2 * Height - 1 ELSE n - 1
  BY DEF rotboth
<1>3. \A n \in Lane : rotlow[n] = IF n = 0 THEN Height - 1 ELSE IF n \in Low THEN n - 1 ELSE 0
  BY DEF rotlow
<1>4. \A n \in Lane, m \in 0 .. Height - 1 :
        /\ Ahead(n, m + 1) \in Lane
        /\ n \in Low => Ahead(n, m + 1) \in Low
        /\ rotboth[Ahead(n, m + 1)] = Ahead(n, m)
  BY <1>2, HeightAssumption DEF Lane, Low, High, Ahead
<1>5. \A n \in Low, m \in 0 .. Height - 1 : rotlow[Ahead(n, m + 1)] = Ahead(n, m)
  BY <1>3, HeightAssumption DEF Lane, Low, High, Ahead
<1>6. \A n \in Lane : rotboth[n] \in Lane /\ rotlow[n] \in Lane
  BY <1>2, <1>3, HeightAssumption DEF Lane, Low, High
<1> QED BY <1>1, <1>4, <1>5, <1>6 DEF Turned, Table

-----------------------------------------------------------------------------
(* The candidates.                                                         *)

\* A block of candidates is the next bytes in order.
LEMMA CandidatesFacts ==
  ASSUME NEW n \in 0 .. Rounds - 1
  PROVE  /\ Candidates(n) \in Vect
         /\ \A l \in Lane : ByteOf[Candidates(n)[l]] = n * (2 * Height) + l
<1>1. n % Rounds = n
  BY BytesAssumption
<1>2. ASSUME NEW l \in Lane PROVE n * (2 * Height) + l \in 0 .. Rounds * (2 * Height) - 1
  <2> DEFINE L == 2 * Height
  <2>1. L \in Nat /\ l \in 0 .. L - 1
    BY HeightAssumption DEF Lane, Low, High
  <2> HIDE DEF L
  <2>2. (Rounds - n - 1) * L \in Nat /\ n * L \in Nat
    BY <2>1, BytesAssumption
  <2>3. (Rounds - n - 1) * L = Rounds * L - n * L - L
    BY <2>1, BytesAssumption
  <2>4. Rounds * L \in Nat
    BY <2>1, BytesAssumption
  <2>5. n * L + l \in 0 .. Rounds * L - 1
    BY <2>1, <2>2, <2>3, <2>4
  <2> QED BY <2>5 DEF L
<1>3. ASSUME NEW l \in Lane
      PROVE  Candidates(n)[l] \in Row /\ ByteOf[Candidates(n)[l]] = n * (2 * Height) + l
  <2>1. PICK x \in Row : ByteOf[x] = n * (2 * Height) + l
    BY <1>2, BytesAssumption
  <2>2. Candidates(n)[l] = RowAt(n * (2 * Height) + l)
    BY <1>1 DEF Candidates
  <2> QED BY <2>1, <2>2 DEF RowAt
<1>4. Candidates(n) = [l \in Lane |-> RowAt((n % Rounds) * (2 * Height) + l)]
  BY DEF Candidates
<1>5. \A l \in Lane : RowAt((n % Rounds) * (2 * Height) + l) \in Row
  BY <1>3, <1>4
<1> QED BY <1>3, <1>4, <1>5 DEF Vect

\* The rows of the space that come before the candidates of round n.
Counted(n) == {x \in Space(RowsIn(asked.in, Low)) : ByteOf[x] < n * (2 * Height)}

\* A block adds as many rows as it has candidates that are in the space.
LEMMA CountBlock ==
  ASSUME NEW n \in 0 .. Rounds - 1, RowsIn(asked.in, Low) \subseteq Row,
         NEW L \in SUBSET Lane,
         L = {l \in Lane : Candidates(n)[l] \in Space(RowsIn(asked.in, Low))}
  PROVE  /\ Cardinality(Counted(n)) \in Nat /\ Cardinality(L) \in Nat
         /\ Cardinality(Counted(n + 1)) = Cardinality(Counted(n)) + Cardinality(L)
<1> DEFINE S    == Space(RowsIn(asked.in, Low))
           W    == 2 * Height
           New  == {x \in S : n * W <= ByteOf[x] /\ ByteOf[x] < (n + 1) * W}
           f    == [l \in L |-> Candidates(n)[l]]
<1>1. W \in Nat /\ n * W \in Nat /\ (n + 1) * W = n * W + W /\ Lane = 0 .. W - 1
  BY HeightAssumption DEF Lane, Low, High
<1>2. S \subseteq Row
  BY DEF Space, Row
<1>3. IsFiniteSet(S)
  <2>1. IsFiniteSet(Row)
    BY ColumnsAssumption, FS_SUBSET DEF Row
  <2> QED BY <1>2, <2>1, FS_Subset
<1>4. \A x \in S : ByteOf[x] \in Nat
  BY <1>2, ByteOfAssumption
<1>5. IsFiniteSet(L)
  <2>1. IsFiniteSet(0 .. W - 1)
    BY <1>1, FS_Interval
  <2> QED BY <2>1, <1>1, FS_Subset
<1>6. \A l \in Lane : Candidates(n)[l] \in Row /\ ByteOf[Candidates(n)[l]] = n * W + l
  BY CandidatesFacts DEF Vect
<1> HIDE DEF W
<1>7. f \in [L -> New]
  <2>1. ASSUME NEW l \in L PROVE Candidates(n)[l] \in New
    <3>1. l \in 0 .. W - 1 /\ Candidates(n)[l] \in S /\ ByteOf[Candidates(n)[l]] = n * W + l
      BY <1>1, <1>6
    <3>2. n * W <= n * W + l /\ n * W + l < (n + 1) * W
      BY <1>1, <3>1
    <3> QED BY <3>1, <3>2
  <2> QED BY <2>1
<1>8. ASSUME NEW l \in L, NEW m \in L, f[l] = f[m] PROVE l = m
  <2>1. n * W + l = n * W + m
    BY <1>6, <1>8
  <2>2. l \in Int /\ m \in Int
    BY <1>1
  <2> QED BY <1>1, <2>1, <2>2
<1>9. ASSUME NEW x \in New PROVE \E l \in L : f[l] = x
  <2> DEFINE l == ByteOf[x] - n * W
  <2>1. x \in Row /\ ByteOf[x] \in Nat /\ n * W <= ByteOf[x] /\ ByteOf[x] < n * W + W
    BY <1>1, <1>2, <1>4
  <2>2. l \in Lane /\ n * W + l = ByteOf[x]
    BY <1>1, <2>1
  <2> HIDE DEF l
  <2>3. Candidates(n)[l] = x
    BY <2>1, <2>2, <1>6, ByteOfAssumption
  <2>4. l \in L
    BY <2>2, <2>3
  <2> QED BY <2>3, <2>4
<1> HIDE DEF S, New, f
<1>10. f \in Bijection(L, New)
  BY <1>7, <1>8, <1>9, Fun_IsBij
<1>11. IsFiniteSet(New) /\ Cardinality(New) = Cardinality(L)
  BY <1>5, <1>10, FS_Bijection, Fun_ExistsBij
<1>12. Counted(n) = {x \in S : ByteOf[x] < n * W} /\ Counted(n + 1) = {x \in S : ByteOf[x] < (n + 1) * W}
  BY DEF Counted, S, W
<1>13. IsFiniteSet(Counted(n))
  BY <1>3, <1>12, FS_Subset
<1>14. Counted(n + 1) = Counted(n) \cup New /\ Counted(n) \cap New = {}
  <2>1. ASSUME NEW x \in S
        PROVE  /\ ByteOf[x] < (n + 1) * W <=>
                    ByteOf[x] < n * W \/ (n * W <= ByteOf[x] /\ ByteOf[x] < (n + 1) * W)
               /\ ~(ByteOf[x] < n * W /\ n * W <= ByteOf[x])
    BY <1>1, <1>4
  <2> QED BY <2>1, <1>12 DEF New
<1>15. Cardinality(Counted(n + 1)) = Cardinality(Counted(n)) + Cardinality(New)
  <2>1. Cardinality(Counted(n) \cup New)
          = Cardinality(Counted(n)) + Cardinality(New) - Cardinality(Counted(n) \cap New)
    BY <1>11, <1>13, FS_Union
  <2>2. Cardinality(Counted(n)) \in Nat /\ Cardinality(New) \in Nat
    BY <1>11, <1>13, FS_CardinalityType
  <2>3. Cardinality(Counted(n) \cap New) = 0
    BY <1>14, FS_EmptySet
  <2>4. Cardinality(Counted(n + 1)) = Cardinality(Counted(n) \cup New)
    BY <1>14
  <2> QED BY <2>1, <2>2, <2>3, <2>4
<1> QED BY <1>5, <1>11, <1>13, <1>15, FS_CardinalityType

-----------------------------------------------------------------------------
(* The invariant.                                                          *)

\* What the functions start from.
Asked ==
  /\ asked \in [block : Vect, in : Vect]
  /\ fn \in Sizes \cup {"row_space_mask"} => RowsIn(asked.in, High) = RowsIn(asked.in, Low)
  /\ fn = "row_space_included" => \A n \in High : asked.in[n] = {} /\ asked.block[n] = {}

\* Rotations move rows around within the halves.
Kept == \A n \in Turned : RowsIn(in, Half(n)) = RowsIn(asked.in, Half(n))

\* Where the candidates come from, and what has been counted.
Blocks ==
  /\ fn \in Masks => block = asked.block
  /\ fn \in Sizes =>
       /\ pc # "done" => r \in 0 .. Rounds - 1 /\ block = Candidates(r)
       /\ pc = "done" => r = Rounds
       /\ count = Cardinality(Counted(r))

\* The rows that lane n has met in this round: those it holds and that are ahead
\* of it, less its own where it is taken in after the loop only.
First   == IF fn = "row_space_size_incl1" THEN 1 ELSE 0
Met(n)  == {in[Ahead(n, m)] : m \in First .. i}
Round ==
  /\ \A n \in Turned : orincl[n] = UNION {y \in Met(n) : y \subseteq block[n]}
  /\ \A n \in Lane \ Turned : orincl[n] = {}

IInv ==
  /\ TypeOK /\ Asked /\ Kept /\ Blocks
  /\ pc = "turn" => Round /\ i <= Turns
  /\ pc = "done" /\ fn \in Masks => Round /\ i = Turns

\* At the end of a round a lane has met its half.
LEMMA MetAll ==
  ASSUME IInv, Round, i = Turns, NEW n \in Lane
  PROVE  orincl[n] = UNION {y \in RowsFor(n) : y \subseteq block[n]}
<1>1. fn \in Sizes \cup Masks
  BY DEF IInv, TypeOK
<1>2. RowsFor(n) = RowsIn(asked.in, Half(n))
  BY DEF RowsFor, Half
<1>3. CASE n \in Turned
  <2>1. \/ First = 0 /\ i = Height - 1
        \/ First = 1 /\ i = Height
    BY DEF First, Turns
  <2>2. Met(n) = RowsIn(in, Half(n))
    <3>1. ASSUME NEW m \in First .. i PROVE Ahead(n, m) \in Half(n)
      BY <2>1, HeightAssumption, AheadFacts
    <3>2. ASSUME NEW l \in Half(n) PROVE \E m \in First .. i : Ahead(n, m) = l
      BY <2>1, AheadFacts
    <3> QED BY <3>1, <3>2 DEF Met, RowsIn
  <2>3. RowsIn(in, Half(n)) = RowsIn(asked.in, Half(n))
    BY <1>3 DEF IInv, Kept
  <2> QED BY <1>2, <1>3, <2>2, <2>3 DEF Round
<1>4. CASE n \notin Turned
  <2>1. fn = "row_space_included" /\ n \in High /\ n \notin Low
    BY <1>4, HeightAssumption DEF Turned, Lane, Low, High
  <2>2. \A l \in High : asked.in[l] = {}
    BY <2>1 DEF IInv, Asked
  <2>3. UNION {y \in RowsFor(n) : y \subseteq block[n]} = {}
    BY <1>2, <2>1, <2>2 DEF RowsIn, Half
  <2> QED BY <1>4, <2>3 DEF Round
<1> QED BY <1>3, <1>4

LEMMA InitIInv == Init => IInv
<1> SUFFICES ASSUME Init PROVE IInv
  OBVIOUS
<1>1. Zero \in Vect
  BY DEF Zero, Vect, Row
<1>2. CASE fn \in Sizes
  <2>1. PICK m \in Matrices : asked = [block |-> Candidates(0), in |-> Twice(m)]
    BY <1>2 DEF Init, Sizes, Masks
  <2>2. \A n \in Lane : n % Height \in Low
    BY HeightAssumption DEF Lane, Low, High
  <2>3. m \in [Low -> Row] /\ Twice(m) \in Vect
    BY <2>2, InputsAssumption DEF Twice, Vect
  <2>4. 0 \in 0 .. Rounds - 1
    BY BytesAssumption
  <2>5. asked \in [block : Vect, in : Vect] /\ asked.in = Twice(m) /\ asked.block = Candidates(0)
    BY <2>1, <2>3, <2>4, CandidatesFacts
  <2>6. RowsIn(asked.in, High) = RowsIn(asked.in, Low)
    <3>1. \A n \in Low : n + Height \in High /\ Twice(m)[n + Height] = Twice(m)[n]
      <4>1. ASSUME NEW n \in Low
            PROVE  /\ n + Height \in High /\ n + Height \in Lane /\ n \in Lane
                   /\ (n + Height) % Height = n % Height
        BY HeightAssumption DEF Low, High, Lane
      <4> QED BY <4>1 DEF Twice
    <3>2. \A n \in High : n - Height \in Low /\ (n - Height) + Height = n
      BY HeightAssumption DEF Low, High
    <3>3. \A n \in High : \E l \in Low : Twice(m)[n] = Twice(m)[l]
      BY <3>1, <3>2
    <3> QED BY <2>5, <3>1, <3>3 DEF RowsIn
  <2>7. Cardinality(Counted(0)) = 0
    <3>1. \A n \in Low : n \in Lane
      BY DEF Lane
    <3>2. RowsIn(asked.in, Low) \subseteq Row
      BY <2>5, <3>1 DEF RowsIn, Vect
    <3>3. Space(RowsIn(asked.in, Low)) \subseteq Row
      BY <3>2 DEF Space, Row
    <3>4. \A x \in Row : ~(ByteOf[x] < 0 * (2 * Height))
      BY ByteOfAssumption, HeightAssumption
    <3>5. Counted(0) = {}
      BY <3>3, <3>4 DEF Counted
    <3> QED BY <3>5, FS_EmptySet
  <2>8. Blocks
    BY <1>2, <2>4, <2>5, <2>7 DEF Blocks, Init, Sizes, Masks
  <2> QED BY <1>1, <1>2, <2>5, <2>6, <2>8, HeightAssumption, BytesAssumption
          DEF Init, IInv, TypeOK, Asked, Kept, Sizes, Masks
<1>3. CASE fn \in Masks
  <2>1. asked \in Questions /\ asked \in [block : Vect, in : Vect]
    BY <1>3, InputsAssumption DEF Init, Sizes, Masks
  <2>2. ASSUME fn = "row_space_mask" PROVE RowsIn(asked.in, High) = RowsIn(asked.in, Low)
    <3>1. \A n \in Low : n + Height \in High /\ asked.in[n] = asked.in[n + Height]
      BY <2>2, <1>3, HeightAssumption DEF Init, Sizes, Masks, Low, High
    <3>2. \A n \in High : n - Height \in Low /\ (n - Height) + Height = n
      BY HeightAssumption DEF Low, High
    <3>3. \A n \in High : \E l \in Low : asked.in[n] = asked.in[l]
      BY <3>1, <3>2
    <3> QED BY <3>1, <3>3 DEF RowsIn
  <2>3. Asked
    BY <1>3, <2>1, <2>2 DEF Asked, Init, Sizes, Masks
  <2>4. Blocks
    BY <1>3 DEF Blocks, Init, Sizes, Masks
  <2>5. TypeOK
    BY <1>1, <1>3, <2>1, HeightAssumption, BytesAssumption DEF Init, TypeOK
  <2>6. in = asked.in /\ pc = "open"
    BY DEF Init
  <2> QED BY <2>3, <2>4, <2>5, <2>6 DEF IInv, Kept
<1> QED BY <1>2, <1>3 DEF Init

\* In row_space_included the lanes above have an empty candidate.
LEMMA EmptyAbove ==
  ASSUME IInv, NEW n \in Lane \ Turned
  PROVE  block[n] = {}
<1>1. fn = "row_space_included" /\ n \in High
  BY HeightAssumption DEF Turned, Lane
<1> QED BY <1>1 DEF IInv, Asked, Blocks, Masks

LEMMA OpenIInv == IInv /\ Open => IInv'
<1> SUFFICES ASSUME IInv, Open PROVE IInv'
  OBVIOUS
<1>1. /\ TypeOK /\ Asked /\ Kept /\ Blocks /\ pc = "open" /\ pc' = "turn" /\ i' = 0
      /\ UNCHANGED <<fn, asked, in, block, r, count>>
      /\ orincl' = IF fn = "row_space_size_incl1" THEN Zero ELSE Taken(Zero, in)
  BY DEF IInv, Open
<1>2. \A n \in Lane : in[n] \in Row /\ Zero[n] = {}
  BY <1>1 DEF TypeOK, Vect, Zero
<1>3. Taken(Zero, in) \in Vect /\ Zero \in Vect
  BY <1>2 DEF Taken, Vect, Zero, Row
<1>4. TypeOK'
  BY <1>1, <1>3, HeightAssumption DEF TypeOK
<1>5. Asked' /\ Kept' /\ Blocks'
  BY <1>1 DEF Asked, Kept, Blocks, Turned, Counted
<1>6. Round'
  <2>1. ASSUME NEW n \in Turned
        PROVE  orincl'[n] = UNION {y \in Met(n)' : y \subseteq block[n]}
    <3>1. n \in Lane /\ Ahead(n, 0) = n
      BY AheadFacts, HeightAssumption DEF Turned, Lane
    <3>2. CASE fn = "row_space_size_incl1"
      <4>1. Met(n)' = {}
        BY <1>1, <3>2 DEF Met, First
      <4> QED BY <1>1, <1>2, <3>1, <3>2, <4>1
    <3>3. CASE fn # "row_space_size_incl1"
      <4>1. Met(n)' = {in[n]}
        BY <1>1, <3>1, <3>3 DEF Met, First
      <4>2. orincl'[n] = IF in[n] \subseteq block[n] THEN in[n] ELSE {}
        BY <1>1, <1>2, <3>1, <3>3 DEF Taken
      <4> QED BY <4>1, <4>2
    <3> QED BY <3>2, <3>3
  <2>2. ASSUME NEW n \in Lane \ Turned PROVE orincl'[n] = {}
    <3>1. block[n] = {}
      BY EmptyAbove
    <3>2. fn # "row_space_size_incl1"
      BY DEF Turned
    <3> QED BY <1>1, <1>2, <3>1, <3>2 DEF Taken
  <2> QED BY <1>1, <2>1, <2>2 DEF Round, Turned
<1>7. i' <= Turns'
  BY <1>1, HeightAssumption DEF Turns
<1> QED BY <1>1, <1>4, <1>5, <1>6, <1>7 DEF IInv

\* What a rotation does to the rows ahead of a lane.
LEMMA RotatedFacts ==
  ASSUME fn \in Sizes \cup Masks
  PROVE  /\ \A n \in Lane : Rotated(in)[n] = in[Table[n]] /\ Table[n] \in Lane
         /\ \A n \in Turned, m \in 0 .. Height - 1 : Rotated(in)[Ahead(n, m + 1)] = in[Ahead(n, m)]
<1>1. \A n \in Lane : Rotated(in)[n] = in[Table[n]]
  BY DEF Rotated, Table
<1>2. \A n \in Turned, m \in 0 .. Height - 1 :
        Ahead(n, m + 1) \in Lane /\ Table[Ahead(n, m + 1)] = Ahead(n, m)
  <2>1. ASSUME NEW n \in Turned, NEW m \in 0 .. Height - 1 PROVE Ahead(n, m + 1) \in Lane
    <3>1. n \in Lane /\ m + 1 \in 0 .. Height
      BY TableFacts, HeightAssumption
    <3>2. Ahead(n, m + 1) \in Half(n) /\ Half(n) \subseteq Lane
      BY <3>1, AheadFacts DEF Half, Lane
    <3> QED BY <3>2
  <2> QED BY <2>1, TableFacts
<1> QED BY <1>1, <1>2, TableFacts

LEMMA TurnIInv == IInv /\ Turn => IInv'
<1> SUFFICES ASSUME IInv, Turn PROVE IInv'
  OBVIOUS
<1>1. /\ TypeOK /\ Asked /\ Kept /\ Blocks /\ Round /\ pc = "turn" /\ pc' = "turn"
      /\ i \in Nat /\ i < Turns /\ i' = i + 1
      /\ UNCHANGED <<fn, asked, block, r, count>>
      /\ in' = Rotated(in)
      /\ orincl' = Taken(orincl, IF fn = "row_space_size_incl1" THEN in ELSE in')
  BY DEF IInv, Turn, TypeOK
<1>2. fn \in Sizes \cup Masks
  BY <1>1 DEF TypeOK
<1>3. /\ \A n \in Lane : in'[n] = in[Table[n]] /\ Table[n] \in Lane
      /\ \A n \in Turned, m \in 0 .. Height - 1 : in'[Ahead(n, m + 1)] = in[Ahead(n, m)]
  BY <1>1, <1>2, RotatedFacts
<1>4. \A n \in Lane : in[n] \in Row /\ in'[n] \in Row /\ orincl[n] \in Row
  BY <1>1, <1>3 DEF TypeOK, Vect
<1>5. TypeOK'
  <2>1. in' \in Vect
    BY <1>1, <1>4 DEF Rotated, Vect
  <2>2. orincl' \in Vect
    BY <1>1, <1>4 DEF Taken, Vect, Row
  <2>3. i' \in 0 .. Height
    BY <1>1, HeightAssumption DEF Turns
  <2> QED BY <1>1, <2>1, <2>2, <2>3 DEF TypeOK
<1>6. ASSUME NEW n \in Turned PROVE RowsIn(in', Half(n)) = RowsIn(in, Half(n))
  <2>1. n \in Lane
    BY <1>2, TableFacts
  <2>2. ASSUME NEW l \in Half(n) PROVE \E h \in Half(n) : in'[l] = in[h]
    <3>1. PICK m \in 1 .. Height : Ahead(n, m) = l
      BY <2>1, AheadFacts
    <3>2. m - 1 \in 0 .. Height - 1 /\ m - 1 \in 0 .. Height /\ (m - 1) + 1 = m
      BY HeightAssumption
    <3>3. in'[l] = in[Ahead(n, m - 1)] /\ Ahead(n, m - 1) \in Half(n)
      BY <1>3, <2>1, <3>1, <3>2, AheadFacts
    <3> QED BY <3>3
  <2>3. ASSUME NEW l \in Half(n) PROVE \E h \in Half(n) : in[l] = in'[h]
    <3>1. PICK m \in 0 .. Height - 1 : Ahead(n, m) = l
      BY <2>1, AheadFacts
    <3>2. m + 1 \in 0 .. Height
      BY HeightAssumption
    <3>3. in[l] = in'[Ahead(n, m + 1)] /\ Ahead(n, m + 1) \in Half(n)
      BY <1>3, <2>1, <3>1, <3>2, AheadFacts
    <3> QED BY <3>3
  <2> QED BY <2>2, <2>3 DEF RowsIn
<1>7. Kept'
  <2>1. Turned' = Turned
    BY <1>1 DEF Turned
  <2> QED BY <1>1, <1>6, <2>1 DEF Kept
<1>8. Asked' /\ Blocks'
  BY <1>1 DEF Asked, Blocks, Counted
<1>9. ASSUME NEW n \in Turned
      PROVE  orincl'[n] = UNION {y \in Met(n)' : y \subseteq block[n]}
  <2> DEFINE row == IF fn = "row_space_size_incl1" THEN in[n] ELSE in'[n]
  <2>1. n \in Lane /\ Ahead(n, 0) = n
    BY <1>2, TableFacts, AheadFacts
  <2>2. i \in 0 .. Height - 1 /\ (fn # "row_space_size_incl1" => i \in 0 .. Height - 2)
    BY <1>1, HeightAssumption DEF Turns
  <2>3. {in'[Ahead(n, m)] : m \in First + 1 .. i + 1} = Met(n)
    <3>1. ASSUME NEW m \in First + 1 .. i + 1
          PROVE  m - 1 \in First .. i /\ in'[Ahead(n, m)] = in[Ahead(n, m - 1)]
      <4>1. m - 1 \in First .. i /\ m - 1 \in 0 .. Height - 1 /\ (m - 1) + 1 = m
        BY <2>2, HeightAssumption DEF First
      <4> QED BY <1>3, <4>1
    <3>2. ASSUME NEW m \in First .. i
          PROVE  m + 1 \in First + 1 .. i + 1 /\ in[Ahead(n, m)] = in'[Ahead(n, m + 1)]
      <4>1. m + 1 \in First + 1 .. i + 1 /\ m \in 0 .. Height - 1
        BY <2>2, HeightAssumption DEF First
      <4> QED BY <1>3, <4>1
    <3> QED BY <3>1, <3>2 DEF Met
  <2>4. in'[Ahead(n, First)] = row
    <3>1. 0 \in 0 .. Height - 1 /\ 0 + 1 = 1
      BY HeightAssumption
    <3>2. in'[Ahead(n, 1)] = in[n]
      BY <1>3, <2>1, <3>1
    <3> QED BY <2>1, <3>2 DEF First
  <2>5. Met(n)' = {in'[Ahead(n, m)] : m \in First .. i + 1}
    BY <1>1 DEF Met, First
  <2>6. First .. i + 1 = {First} \cup (First + 1 .. i + 1)
    BY <1>1 DEF First
  <2>7. Met(n)' = Met(n) \cup {row}
    BY <2>3, <2>4, <2>5, <2>6
  <2>8. orincl'[n] = IF row \subseteq block[n] THEN orincl[n] \cup row ELSE orincl[n]
    BY <1>1, <2>1 DEF Taken
  <2>9. orincl[n] = UNION {y \in Met(n) : y \subseteq block[n]}
    BY <1>1 DEF Round
  <2> HIDE DEF row
  <2>10. CASE row \subseteq block[n]
    <3>1. {y \in Met(n)' : y \subseteq block[n]} = {y \in Met(n) : y \subseteq block[n]} \cup {row}
      BY <2>7, <2>10
    <3> QED BY <2>8, <2>9, <2>10, <3>1
  <2>11. CASE ~(row \subseteq block[n])
    <3>1. {y \in Met(n)' : y \subseteq block[n]} = {y \in Met(n) : y \subseteq block[n]}
      BY <2>7, <2>11
    <3> QED BY <2>8, <2>9, <2>11, <3>1
  <2> QED BY <2>10, <2>11
<1>10. ASSUME NEW n \in Lane \ Turned PROVE orincl'[n] = {}
  <2>1. block[n] = {} /\ orincl[n] = {}
    BY <1>1, EmptyAbove DEF Round
  <2> DEFINE row == IF fn = "row_space_size_incl1" THEN in[n] ELSE in'[n]
  <2>2. orincl'[n] = IF row \subseteq block[n] THEN orincl[n] \cup row ELSE orincl[n]
    BY <1>1 DEF Taken
  <2> HIDE DEF row
  <2> QED BY <2>1, <2>2
<1>11. Round'
  BY <1>1, <1>9, <1>10 DEF Round, Turned
<1>12. i' <= Turns'
  BY <1>1, HeightAssumption DEF Turns
<1> QED BY <1>1, <1>5, <1>7, <1>8, <1>11, <1>12 DEF IInv

\* The candidates that agree are those in the space of their half.
LEMMA AgreeingFacts ==
  ASSUME IInv, Round, i = Turns
  PROVE  Agreeing = {n \in Lane : block[n] \in Space(RowsFor(n))}
<1>1. ASSUME NEW n \in Lane PROVE block[n] = orincl[n] <=> block[n] \in Space(RowsFor(n))
  <2>1. orincl[n] = UNION {y \in RowsFor(n) : y \subseteq block[n]}
    BY MetAll
  <2>2. block[n] \in Space(RowsFor(n)) <=> block[n] = UNION {y \in RowsFor(n) : y \subseteq block[n]}
    BY InSpace
  <2> QED BY <2>1, <2>2
<1> QED BY <1>1 DEF Agreeing

LEMMA CountIInv == IInv /\ Count => IInv'
<1> SUFFICES ASSUME IInv, Count PROVE IInv'
  OBVIOUS
<1>1. /\ TypeOK /\ Asked /\ Kept /\ Blocks /\ Round /\ fn \in Sizes /\ pc = "turn" /\ i = Turns
      /\ UNCHANGED <<fn, asked, in, orincl, i>>
      /\ count' = count + Cardinality(Agreeing) /\ block' = Candidates(r + 1) /\ r' = r + 1
      /\ pc' = IF r' = Rounds THEN "done" ELSE "open"
  BY DEF IInv, Count
<1>2. r \in 0 .. Rounds - 1 /\ block = Candidates(r) /\ count = Cardinality(Counted(r))
  BY <1>1 DEF Blocks
<1>3. RowsIn(asked.in, Low) \subseteq Row
  <2>1. \A n \in Low : n \in Lane
    BY DEF Lane
  <2> QED BY <1>1, <2>1 DEF Asked, RowsIn, Vect
<1>4. Agreeing = {n \in Lane : Candidates(r)[n] \in Space(RowsIn(asked.in, Low))}
  <2>1. \A n \in Lane : RowsFor(n) = RowsIn(asked.in, Low)
    BY <1>1 DEF RowsFor, Asked
  <2> QED BY <1>1, <1>2, <2>1, AgreeingFacts
<1>5. Agreeing \in SUBSET Lane
  BY DEF Agreeing
<1>6. count \in Nat /\ count' \in Nat /\ count' = Cardinality(Counted(r + 1))
  BY <1>1, <1>2, <1>3, <1>4, <1>5, CountBlock
<1>7. CASE r + 1 = Rounds
  <2>1. Candidates(r + 1) \in Vect
    <3>1. Rounds % Rounds = 0 % Rounds /\ 0 \in 0 .. Rounds - 1
      BY BytesAssumption
    <3>2. Candidates(Rounds) = Candidates(0)
      BY <3>1 DEF Candidates
    <3> QED BY <1>7, <3>1, <3>2, CandidatesFacts
  <2>2. TypeOK'
    BY <1>1, <1>2, <1>6, <1>7, <2>1, BytesAssumption DEF TypeOK
  <2>3. Asked' /\ Kept'
    BY <1>1 DEF Asked, Kept, Turned
  <2>4. Counted(r)' = Counted(r + 1)
    BY <1>1 DEF Counted
  <2>5. Blocks'
    BY <1>1, <1>6, <1>7, <2>4 DEF Blocks, Sizes, Masks
  <2> QED BY <1>1, <1>7, <2>2, <2>3, <2>5 DEF IInv, Sizes, Masks
<1>8. CASE r + 1 # Rounds
  <2>1. r + 1 \in 0 .. Rounds - 1
    BY <1>2, <1>8, BytesAssumption
  <2>2. Candidates(r + 1) \in Vect
    BY <2>1, CandidatesFacts
  <2>3. TypeOK'
    BY <1>1, <1>2, <1>6, <1>8, <2>1, <2>2, BytesAssumption DEF TypeOK
  <2>4. Asked' /\ Kept'
    BY <1>1 DEF Asked, Kept, Turned
  <2>5. Counted(r)' = Counted(r + 1)
    BY <1>1 DEF Counted
  <2>6. Blocks'
    BY <1>1, <1>6, <1>8, <2>1, <2>5 DEF Blocks, Sizes, Masks
  <2> QED BY <1>1, <1>8, <2>3, <2>4, <2>6 DEF IInv
<1> QED BY <1>7, <1>8

LEMMA ReturnIInv == IInv /\ Return => IInv'
<1> SUFFICES ASSUME IInv, Return PROVE IInv'
  OBVIOUS
<1>1. /\ TypeOK /\ Asked /\ Kept /\ Blocks /\ Round /\ fn \in Masks /\ i = Turns /\ pc' = "done"
      /\ UNCHANGED <<fn, asked, in, block, orincl, i, r, count>>
  BY DEF IInv, Return
<1>2. TypeOK' /\ Asked' /\ Kept' /\ Blocks' /\ Round' /\ Turns' = Turns
  BY <1>1 DEF TypeOK, Asked, Kept, Blocks, Round, Turned, Met, First, Turns, Sizes, Masks
<1> QED BY <1>1, <1>2 DEF IInv

LEMMA NextIInv == IInv /\ [Next]_vars => IInv'
<1> SUFFICES ASSUME IInv, [Next]_vars PROVE IInv'
  OBVIOUS
<1>1. CASE Open
  BY <1>1, OpenIInv
<1>2. CASE Turn
  BY <1>2, TurnIInv
<1>3. CASE Count
  BY <1>3, CountIInv
<1>4. CASE Return
  BY <1>4, ReturnIInv
<1>5. CASE UNCHANGED vars
  <2>1. UNCHANGED <<fn, asked, in, block, orincl, pc, i, r, count>>
    BY <1>5 DEF vars
  <2>2. TypeOK' = TypeOK /\ Asked' = Asked /\ Kept' = Kept /\ Turns' = Turns
    BY <2>1 DEF TypeOK, Asked, Kept, Turned, Turns
  <2>3. Blocks' = Blocks
    BY <2>1 DEF Blocks, Counted
  <2>4. Round' = Round
    BY <2>1 DEF Round, Turned, Met, First
  <2> QED BY <2>1, <2>2, <2>3, <2>4 DEF IInv
<1> QED BY <1>1, <1>2, <1>3, <1>4, <1>5 DEF Next

LEMMA Invariance == Spec => []IInv
<1> QED BY InitIInv, NextIInv, PTL DEF Spec

-----------------------------------------------------------------------------
(* What is shown.                                                          *)

\* The variables stay within their types (the loops of the inclusion functions).
THEOREM TypeCorrect == Spec => []TypeOK
<1>1. IInv => TypeOK
  BY DEF IInv
<1> QED BY <1>1, Invariance, PTL

\* By the end of each round a candidate has met every row of its half, whatever
\* the loop rotates first and however far earlier rounds have turned the rows.
THEOREM AllRowsMet == Spec => []AllTaken
<1>1. IInv => AllTaken
  <2> SUFFICES ASSUME IInv, pc = "turn", i = Turns, NEW n \in Lane
               PROVE  orincl[n] = UNION {y \in RowsFor(n) : y \subseteq block[n]}
    BY DEF AllTaken
  <2>1. Round
    BY DEF IInv
  <2> QED BY <2>1, MetAll
<1> QED BY <1>1, Invariance, PTL

\* row_space_size_incl and row_space_size_incl1 count every row of the space once.
THEOREM CountsTheSpace == Spec => []CountSoFar
<1>1. IInv => CountSoFar
  <2> SUFFICES ASSUME IInv, fn \in Sizes
               PROVE  count = Cardinality({x \in Space(RowsIn(asked.in, Low)) :
                                             ByteOf[x] < r * 2 * Height})
    BY DEF CountSoFar
  <2>1. count = Cardinality(Counted(r)) /\ r \in Nat
    BY BytesAssumption DEF IInv, Blocks, TypeOK
  <2>2. r * 2 * Height = r * (2 * Height)
    BY <2>1, HeightAssumption
  <2> QED BY <2>1, <2>2 DEF Counted
<1> QED BY <1>1, Invariance, PTL

\* One half of the candidates agrees throughout exactly if its space is included.
LEMMA HalfAgrees ==
  ASSUME NEW half, half \in {Low, High}, block = asked.block,
         Agreeing = {n \in Lane : block[n] \in Space(RowsFor(n))}
  PROVE  half \subseteq Agreeing <=> Included(half)
<1>1. half \subseteq Lane /\ \A n \in half : RowsFor(n) = RowsIn(asked.in, half)
  BY HeightAssumption DEF RowsFor, Lane, Low, High
<1>2. half \subseteq Agreeing <=> \A n \in half : asked.block[n] \in Space(RowsIn(asked.in, half))
  BY <1>1
<1>3. half \subseteq Agreeing <=> RowsIn(asked.block, half) \subseteq Space(RowsIn(asked.in, half))
  BY <1>2 DEF RowsIn
<1>4. Included(half) <=> RowsIn(asked.block, half) \subseteq Space(RowsIn(asked.in, half))
  BY SpaceIncluded DEF Included
<1> QED BY <1>3, <1>4

\* row_space_mask, row_space_included and row_space_included2 answer what is asked.
THEOREM AnswersAreRight == Spec => []AnswerAtReturn
<1>1. IInv => AnswerAtReturn
  <2> SUFFICES ASSUME IInv, pc = "done", fn \in Masks PROVE AnswerAtReturn
    BY DEF AnswerAtReturn, Masks
  <2>1. Round /\ i = Turns /\ block = asked.block /\ Asked
    BY DEF IInv, Blocks
  <2>2. Agreeing = {n \in Lane : block[n] \in Space(RowsFor(n))}
    BY <2>1, AgreeingFacts
  <2>3. (Low \subseteq Agreeing <=> Included(Low)) /\ (High \subseteq Agreeing <=> Included(High))
    BY <2>1, <2>2, HalfAgrees
  <2>4. ASSUME fn = "row_space_mask"
        PROVE  Agreeing = {n \in Lane : asked.block[n] \in Space(RowsIn(asked.in, Low))}
    <3>1. \A n \in Lane : RowsFor(n) = RowsIn(asked.in, Low)
      BY <2>1, <2>4 DEF RowsFor, Asked
    <3> QED BY <2>1, <2>2, <3>1
  <2>5. ASSUME fn = "row_space_included" PROVE Agreeing = Lane <=> Low \subseteq Agreeing
    <3>1. \A n \in High : n \in Lane /\ block[n] = {}
      BY <2>1, <2>5 DEF Asked, Lane
    <3>2. \A rows : {} \in Space(rows)
      <4>1. ASSUME NEW rows PROVE {} \in SUBSET rows /\ UNION {} = {}
        OBVIOUS
      <4> QED BY <4>1 DEF Space
    <3>3. High \subseteq Agreeing
      BY <2>2, <3>1, <3>2
    <3> QED BY <2>2, <3>3 DEF Lane
  <2> QED BY <2>3, <2>4, <2>5 DEF AnswerAtReturn
<1> QED BY <1>1, Invariance, PTL
=============================================================================
