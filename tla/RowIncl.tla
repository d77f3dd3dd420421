------------------------------ MODULE RowIncl ------------------------------
(***************************************************************************)
(* Row spaces by inclusion: a row is in the space of a matrix exactly if   *)
(* it is the union of the rows of the matrix that it includes.  The        *)
(* matrices are rotated under a block of candidate rows, one for each      *)
(* lane, which takes the union of what it includes.                        *)
(*                                                                         *)
(* row_space_size_incl and row_space_size_incl1 run through all candidates *)
(* block by block and count; row_space_mask, row_space_included and        *)
(* row_space_included2 are given theirs.  The functions differ in where    *)
(* the loop rotates, in what the halves of the vector hold and in what is  *)
(* made of the lanes that agree.                                           *)
(***************************************************************************)
EXTENDS RowSpace

CONSTANTS
  Height,      \* rows of a matrix: 8 in the code
  Rounds,      \* blocks of candidates: 16 in the code
  Matrices,    \* the matrices the functions are called for
  Questions    \* the pairs of vectors in the other calls: candidates and rows

ASSUME HeightAssumption == Height \in Nat \ {0}

Low  == 0 .. Height - 1
High == Height .. 2 * Height - 1
Lane == Low \cup High
Vect == [Lane -> Row]

\* The blocks run through the bytes of all rows.
ASSUME BytesAssumption ==
  /\ Rounds \in Nat \ {0}
  /\ {ByteOf[x] : x \in Row} = 0 .. Rounds * (2 * Height) - 1

ASSUME InputsAssumption ==
  /\ Matrices \subseteq [Low -> Row]
  /\ Questions \subseteq [block : Vect, in : Vect]

VARIABLES
  fn, asked,   \* the function called, and the vectors it starts from
  in,          \* the rows, rotated
  block,       \* the candidates
  orincl,      \* the union of the rows met that a candidate includes
  pc, i,       \* before, in or after the loop; rotations made in this round
  r, count     \* rounds made and rows counted

vars == <<fn, asked, in, block, orincl, pc, i, r, count>>

Sizes == {"row_space_size_incl", "row_space_size_incl1"}
Masks == {"row_space_mask", "row_space_included", "row_space_included2"}

Zero       == [n \in Lane |-> {}]
Twice(m)   == [n \in Lane |-> m[n % Height]]
RowAt(b)   == CHOOSE x \in Row : ByteOf[x] = b
RowsIn(v, half) == {v[n] : n \in half}

\* The candidates of a round: block starts as the lane numbers and grows by the
\* number of lanes, modulo the bytes there are.  Faulty: by half of it.
FaultyCandidates(n) == [l \in Lane |-> RowAt(((n % Rounds) * Height + l) % (Rounds * 2 * Height))]
Candidates(n)       == [l \in Lane |-> RowAt((n % Rounds) * (2 * Height) + l)]

\* rotboth turns each half in itself.  Faulty: one circle of all lanes.
FaultyRotboth == [n \in Lane |-> IF n = 0 THEN 2 * Height - 1 ELSE n - 1]
rotboth == [n \in Lane |-> IF n = 0 THEN Height - 1
                           ELSE IF n = Height THEN 2 * Height - 1 ELSE n - 1]
rotlow  == [n \in Lane |-> IF n = 0 THEN Height - 1 ELSE IF n \in Low THEN n - 1 ELSE 0]
Rotated(v) ==
  LET table == IF fn = "row_space_included" THEN rotlow ELSE rotboth
  IN  [n \in Lane |-> v[table[n]]]

\* The candidates take in the rows they include.
Taken(sum, v) == [n \in Lane |-> IF v[n] \subseteq block[n] THEN sum[n] \cup v[n] ELSE sum[n]]

\* The rotations of a round.  Faulty: one too few where the first row needs none.
FaultyTurns == IF fn = "row_space_size_incl1" THEN Height ELSE Height - 2
Turns       == IF fn = "row_space_size_incl1" THEN Height ELSE Height - 1

Init ==
  /\ \/ /\ fn \in Sizes
        /\ asked \in {[block |-> Candidates(0), in |-> Twice(m)] : m \in Matrices}
     \/ /\ fn \in Masks
        /\ asked \in Questions
        /\ fn = "row_space_mask" => \A n \in Low : asked.in[n] = asked.in[n + Height]
        /\ fn = "row_space_included" => \A n \in High : asked.in[n] = {} /\ asked.block[n] = {}
  /\ in = asked.in /\ block = asked.block
  /\ orincl = Zero
  /\ pc = "open" /\ i = 0 /\ r = 0 /\ count = 0

\* The start of a round; all functions but one take in the rows as they stand.
Open ==
  /\ pc = "open"
  /\ orincl' = IF fn = "row_space_size_incl1" THEN Zero ELSE Taken(Zero, in)
  /\ i' = 0
  /\ pc' = "turn"
  /\ UNCHANGED <<fn, asked, in, block, r, count>>

\* One iteration of the loop.
Turn ==
  /\ pc = "turn" /\ i < Turns
  /\ in' = Rotated(in)
  /\ orincl' = Taken(orincl, IF fn = "row_space_size_incl1" THEN in ELSE in')
  /\ i' = i + 1
  /\ UNCHANGED <<fn, asked, block, pc, r, count>>

\* The candidates that the rows make up.
Agreeing == {n \in Lane : block[n] = orincl[n]}

\* The sizes count them and go on to the next block.
Count ==
  /\ fn \in Sizes /\ pc = "turn" /\ i = Turns
  /\ count' = count + Cardinality(Agreeing)
  /\ block' = Candidates(r + 1)
  /\ r' = r + 1
  /\ pc' = IF r' = Rounds THEN "done" ELSE "open"
  /\ UNCHANGED <<fn, asked, in, orincl, i>>

\* The others return what follows from them.
Return ==
  /\ fn \in Masks /\ pc = "turn" /\ i = Turns
  /\ pc' = "done"
  /\ UNCHANGED <<fn, asked, in, block, orincl, i, r, count>>

Next == Open \/ Turn \/ Count \/ Return

Spec == Init /\ [][Next]_vars

-----------------------------------------------------------------------------
TypeOK ==
  /\ fn \in Sizes \cup Masks
  /\ {in, block, orincl} \subseteq Vect
  /\ pc \in {"open", "turn", "done"}
  /\ i \in 0 .. Height /\ r \in 0 .. Rounds /\ count \in Nat

\* The rows a lane must meet: those of its half.
RowsFor(n) == RowsIn(asked.in, IF n \in Low THEN Low ELSE High)

(***************************************************************************)
(* However often the rows have been rotated before, by the end of a round  *)
(* each candidate has taken in all rows it includes and no row of the      *)
(* other half; in row_space_included, where rotlow brings rows of the      *)
(* lower half to the upper one, because the candidates there are empty.    *)
(***************************************************************************)
AllTaken ==
  pc = "turn" /\ i = Turns =>
    \A n \in Lane : orincl[n] = UNION {y \in RowsFor(n) : y \subseteq block[n]}

(***************************************************************************)
(* After each round exactly the rows of the space below the next candidate *)
(* have been counted; at the end, all of them.                             *)
(***************************************************************************)
CountSoFar ==
  fn \in Sizes /\ pc \in {"open", "done"} =>
    count = Cardinality({x \in Space(RowsIn(asked.in, Low)) : ByteOf[x] < r * 2 * Height})

(***************************************************************************)
(* row_space_mask tells for each of its sixteen rows whether it is in the  *)
(* space; row_space_included and row_space_included2 compare spaces        *)
(* although only the rows are looked at.                                   *)
(***************************************************************************)
Included(half) == Space(RowsIn(asked.block, half)) \subseteq Space(RowsIn(asked.in, half))
AnswerAtReturn ==
  pc = "done" =>
    /\ fn = "row_space_mask" =>
         Agreeing = {n \in Lane : asked.block[n] \in Space(RowsIn(asked.in, Low))}
    /\ fn = "row_space_included" => (Agreeing = Lane <=> Included(Low))
    /\ fn = "row_space_included2" =>
         /\ Low \subseteq Agreeing <=> Included(Low)
         /\ High \subseteq Agreeing <=> Included(High)
=============================================================================
