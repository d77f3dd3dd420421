------------------------------- MODULE MC_Sort -------------------------------
(***************************************************************************)
(* The tables with their certificates, computed, and arguments for the run *)
(* of network_sort.                                                        *)
(***************************************************************************)
EXTENDS ZeroOne, Epu8Tables, TLC

S == INSTANCE SequencesExt

Bytes16 == 0 .. 15
Both    == {TRUE, FALSE}

Names  == {"sorting_rounds", "sorting_rounds8"}
Tables == [n \in Names |-> IF n = "sorting_rounds" THEN sorting_rounds
                                                  ELSE sorting_rounds8]
Parts  == [n \in Names |-> IF n = "sorting_rounds" THEN {0 .. 15}
                                                  ELSE {0 .. 7, 8 .. 15}]

\* Round by round, the images of all the 0/1 vectors.
Images(table, d) ==
  Epu8Of(S!FoldLeft(LAMBDA sets, round :
                      Append(sets, {SortRound(d, w, round) : w \in S!Last(sets)}),
                    << [Lane -> {0, 1}] >>, table))
UpImages16   == Images(sorting_rounds, TRUE)
DownImages16 == Images(sorting_rounds, FALSE)
UpImages8    == Images(sorting_rounds8, TRUE)
DownImages8  == Images(sorting_rounds8, FALSE)
Certificate16 == (TRUE :> UpImages16) @@ (FALSE :> DownImages16)
Certificate8  == (TRUE :> UpImages8) @@ (FALSE :> DownImages8)
Certificate ==
  ("sorting_rounds" :> Certificate16) @@ ("sorting_rounds8" :> Certificate8)

\* Arithmetic progressions read modulo m: permutations of 0 .. 15 and vectors
\* with ties.
Sawtooth ==
  {[i \in 0 .. 15 |-> ((a * i + b) % m)] : a \in 0 .. 15, b \in {0, 7}, m \in {3, 5, 16}}

\* And zeros and ones, one half of the vector the complement of the other: each
\* half takes each of its 256 values.
BitHalves ==
  {[i \in 0 .. 15 |-> IF i < 8 THEN x[i] ELSE 1 - x[i - 8]] : x \in [0 .. 7 -> {0, 1}]}
Arguments == Sawtooth \cup BitHalves
=============================================================================
