------------------------------ MODULE RowSpace ------------------------------
(***************************************************************************)
(* Rows of Boolean matrices and what they span.  A row is the set of the   *)
(* columns where it is true: the byte of the code by its bits, so that the *)
(* bitwise or is the union and (x | y) == y is inclusion.  The row space   *)
(* of a matrix is everything that unions of its rows make, the empty row   *)
(* included.                                                               *)
(***************************************************************************)
EXTENDS Integers, FiniteSets

CONSTANTS
  Columns,
  ByteOf     \* the byte that holds a row: rows are sorted as bytes

Row == SUBSET Columns

ASSUME ColumnsAssumption == IsFiniteSet(Columns)
ASSUME ByteOfAssumption  ==
  /\ ByteOf \in [Row -> Nat]
  /\ \A x, y \in Row : ByteOf[x] = ByteOf[y] => x = y

Space(rows) == {UNION S : S \in SUBSET rows}

\* The rows that no others make up: the only smallest generators of a space.
Smaller(x, rows)  == {y \in rows : y \subseteq x /\ y # x}
Irreducible(rows) == {x \in rows : UNION Smaller(x, rows) # x}
=============================================================================
