------------------------------ MODULE RowBasis ------------------------------
(***************************************************************************)
(* BMat8::row_space_basis: the canonical basis of the row space, with all  *)
(* rows at work at once.  The rows are sorted and their duplicates cleared *)
(* so that a copy of the vector, rotated under it, shows every row all the *)
(* others; a row that is the union of those it includes is then dropped.   *)
(*                                                                         *)
(* The matrix is in the lower half of a vector, its last row in lane 0.    *)
(***************************************************************************)
EXTENDS RowSpace

CONSTANTS
  Height,    \* rows of a matrix: 8 in the code
  Matrices   \* the matrices the function is called for

ASSUME HeightAssumption == Height \in Nat \ {0}

Low  == 0 .. Height - 1
Lane == 0 .. 2 * Height - 1

ASSUME MatricesAssumption == Matrices \subseteq [Low -> Row]

VARIABLES
  matrix,   \* the matrix
  res,      \* its rows, those in the way cleared
  rescy,    \* the copy that is rotated
  orincl,   \* for each lane the union of the other rows it includes
  pc, k     \* what is done next; the number of rotations made

vars == <<matrix, res, rescy, orincl, pc, k>>

RowsIn(v) == {v[i] : i \in Low}

\* revsorted8: each lane of the lower half goes to its rank; in the upper half
\* there is nothing to sort.
Before(v, i, j) ==
  \/ ByteOf[v[i]] > ByteOf[v[j]]
  \/ v[i] = v[j] /\ i < j
Rank(v, i) == Cardinality({j \in Low : Before(v, j, i)})
Falling(v) == [n \in Lane |-> IF n \in Low THEN v[CHOOSE i \in Low : Rank(v, i) = n] ELSE v[n]]

\* sorted8: the same from the other end.
Rising(v)  == [n \in Lane |-> IF n \in Low THEN Falling(v)[Height - 1 - n] ELSE v[n]]

\* remove_dups: a lane that equals its left neighbour is cleared; lane 0 is
\* compared with zero.
FaultyRemoveDups(v) == v
RemoveDups(v) ==
  [i \in Lane |-> IF v[i] = (IF i = 0 THEN {} ELSE v[i - 1]) THEN {} ELSE v[i]]

\* Faulty: every second lane only.
FaultyRotlow ==
  [i \in Lane |-> IF i < 2 THEN Height - 2 + i ELSE IF i \in Low THEN i - 2 ELSE 0]

\* The shuffle by rotlow, whose upper half is zero: those lanes get lane 0.
rotlow == [i \in Lane |-> IF i = 0 THEN Height - 1 ELSE IF i \in Low THEN i - 1 ELSE 0]
Rotated(v) == [i \in Lane |-> v[rotlow[i]]]

\* The rotations after which every row has met every other.  Faulty: one too
\* few.
FaultyRotationsFew == Height - 2
Rotations == Height - 1

Zero == [i \in Lane |-> {}]

Init ==
  /\ matrix \in Matrices
  /\ res = [i \in Lane |-> IF i \in Low THEN matrix[i] ELSE {}]
  /\ rescy = Zero /\ orincl = Zero
  /\ pc = "sort" /\ k = 0

Sort ==
  /\ pc = "sort"
  /\ res' = Falling(res)
  /\ pc' = "clear"
  /\ UNCHANGED <<matrix, rescy, orincl, k>>

Clear ==
  /\ pc = "clear"
  /\ res' = RemoveDups(res)
  /\ rescy' = res'
  /\ pc' = "rotate"
  /\ UNCHANGED <<matrix, orincl, k>>

\* One iteration of the loop.
Rotate ==
  /\ pc = "rotate" /\ k < Rotations
  /\ rescy' = Rotated(rescy)
  /\ orincl' = [i \in Lane |-> orincl[i] \cup (IF rescy'[i] \subseteq res[i] THEN rescy'[i] ELSE {})]
  /\ k' = k + 1
  /\ UNCHANGED <<matrix, res, pc>>

\* Whatever the others make up is dropped, in all lanes at once.
Drop ==
  /\ pc = "rotate" /\ k = Rotations
  /\ res' = [i \in Lane |-> IF res[i] # orincl[i] THEN res[i] ELSE {}]
  /\ pc' = "arrange"
  /\ UNCHANGED <<matrix, rescy, orincl, k>>

Arrange ==
  /\ pc = "arrange"
  /\ res' = Rising(res)
  /\ pc' = "done"
  /\ UNCHANGED <<matrix, rescy, orincl, k>>

Next == Sort \/ Clear \/ Rotate \/ Drop \/ Arrange

Spec == Init /\ [][Next]_vars

\* What rows() makes of the result.
Rows(v) == [n \in 1 .. Height |-> v[Height - n]]

-----------------------------------------------------------------------------
TypeOK ==
  /\ matrix \in [Low -> Row]
  /\ {res, rescy, orincl} \subseteq [Lane -> Row]
  /\ pc \in {"sort", "clear", "rotate", "arrange", "done"}
  /\ k \in 0 .. Height - 1

(***************************************************************************)
(* When the rotations are over every row that is left has met each of the  *)
(* others, and itself never: orincl is the union of the rows below it.     *)
(***************************************************************************)
UnionsComplete ==
  pc = "rotate" /\ k = Rotations =>
    \A i \in Low : orincl[i] = UNION Smaller(res[i], RowsIn(res))

(***************************************************************************)
(* Clearing duplicates and dropping rows never loses a row of the space,   *)
(* although rows are dropped at once that others are made up of.           *)
(***************************************************************************)
SpaceKept == Space(RowsIn(res)) = Space(RowsIn(matrix))

(***************************************************************************)
(* The basis depends on nothing but the row space (bmat8.hpp 190-191): it  *)
(* lists the irreducible rows of the space, each once and falling, and     *)
(* then empty rows.                                                        *)
(***************************************************************************)
BasisAtReturn ==
  pc = "done" =>
    LET rows == Rows(res)
    IN  /\ {rows[n] : n \in 1 .. Height} \ {{}} = Irreducible(Space(RowsIn(matrix)))
        /\ \A m, n \in 1 .. Height : m < n =>
             ByteOf[rows[m]] > ByteOf[rows[n]] \/ rows[n] = {}
=============================================================================
