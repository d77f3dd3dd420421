----------------------------- MODULE MC_SortPerm -----------------------------
(***************************************************************************)
(* Arguments and blocks for the run of NetworkSortPerm.                   *)
(***************************************************************************)
EXTENDS NetworkSortPerm, Epu8Tables

Bytes16 == 0 .. 15
Up      == {TRUE}

Names  == {"sorting_rounds", "sorting_rounds8"}
Tables == [n \in Names |-> IF n = "sorting_rounds" THEN sorting_rounds
                                                  ELSE sorting_rounds8]
Parts  == [n \in Names |-> IF n = "sorting_rounds" THEN {0 .. 15}
                                                  ELSE {0 .. 7, 8 .. 15}]

\* Arithmetic progressions read modulo m.  With m = 16 and an odd step they
\* are permutations of the bytes 0 .. 15, with a small m they are full of ties,
\* and the even steps leave runs of equal bytes at a distance.
Sawtooth ==
  {[i \in 0 .. 15 |-> ((a * i + b) % m)] : a \in 0 .. 15, b \in 0 .. 15, m \in {2, 3, 5, 16}}

\* The same, folded in the middle, so that the second half falls when the first
\* rises.
Folded ==
  {[i \in 0 .. 15 |-> IF i < 8 THEN x[2 * i] ELSE x[31 - 2 * i]] : x \in Sawtooth}

Mixed == Sawtooth \cup Folded
=============================================================================
