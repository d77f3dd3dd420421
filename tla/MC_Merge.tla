------------------------------- MODULE MC_Merge -------------------------------
(***************************************************************************)
(* Sorted vectors of sixteen lanes over three bytes: the first step at     *)
(* every position, the second at the same place, just after it, further on *)
(* or nowhere.  Any two of them are merged, so two sorted vectors of zeros *)
(* and ones interleave in every way, with ties, and three-valued ones in   *)
(* many.                                                                   *)
(***************************************************************************)
EXTENDS Merge, Epu8Tables

S == INSTANCE SequencesExt

Bytes3 == 0 .. 2

Stairs ==
  {[i \in 0 .. 15 |-> IF i < p THEN 0 ELSE IF i < p + d THEN 1 ELSE 2]
     : p \in 0 .. 16, d \in {0, 1, 5, 16}}

\* Round by round, the images of the 0/1 vectors there are to sort.
Images ==
  Epu8Of(S!FoldLeft(LAMBDA sets, round :
                      Append(sets, {SortRound(TRUE, w, round) : w \in S!Last(sets)}),
                    << {VMin(x, y) : x \in Falling, y \in Rising}
                         \cup {VMax(x, y) : x \in Falling, y \in Rising} >>,
                    merge_rounds))
=============================================================================
