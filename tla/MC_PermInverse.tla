---------------------------- MODULE MC_PermInverse ----------------------------
(***************************************************************************)
(* One permutation of sixteen lanes for every cycle type, and a conjugate  *)
(* of it that scatters the cycles over the lanes.                          *)
(***************************************************************************)
EXTENDS PermInverse, Epu8Tables, TLC

S == INSTANCE SequencesExt

AllAlgorithms == {"ref", "cycl", "sort", "pow"}

\* Round by round, the images of all the vectors of zeros and ones.
Images ==
  Epu8Of(S!FoldLeft(LAMBDA sets, round :
                      Append(sets, {SortRound(TRUE, w, round) : w \in S!Last(sets)}),
                    << [Lane -> {0, 1}] >>, sorting_rounds))

\* The lanes cut into intervals of which none is longer than the next: starts
\* is the set of their first lanes, without 0.
End(starts, s)    == Min({t \in starts \cup {16} : t > s})
Length(starts, s) == End(starts, s) - s
CycleTypes ==
  {starts \in SUBSET (1 .. 15) :
     \A s, t \in starts \cup {0} :
       s < t => Length(starts, s) <= Length(starts, t)}

\* Each interval a cycle.
Cycles(starts) ==
  [x \in 0 .. 15 |-> IF x + 1 \in starts \cup {16}
                     THEN Max({s \in starts \cup {0} : s <= x})
                     ELSE x + 1]

Scatter(x)   == (5 * x + 3) % 16
Conjugate(p) == [x \in 0 .. 15 |-> LET y == CHOOSE y \in 0 .. 15 : Scatter(y) = x
                                   IN  Scatter(p[y])]

\* The same function, tabulated once and for all.
Tabulated(f) == FoldSet(LAMBDA x, table : (x :> f[x]) @@ table, <<>>, DOMAIN f)

EveryCycleType ==
  LET plain == {Tabulated(Cycles(starts)) : starts \in CycleTypes}
  IN  plain \cup {Tabulated(Conjugate(p)) : p \in plain}

\* Uninitialised lanes that are all zero, out of range, or look like a
\* permutation.
Leftovers == {[x \in 0 .. 15 |-> 0], [x \in 0 .. 15 |-> 255], [x \in 0 .. 15 |-> 15 - x]}
=============================================================================
