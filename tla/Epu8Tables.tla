----------------------------- MODULE Epu8Tables -----------------------------
(***************************************************************************)
(* The constant shuffle tables of epu8_impl.hpp.  A table is the sequence  *)
(* of its rounds, a round the vector of lanes each lane is compared with   *)
(* or combined with.                                                       *)
(***************************************************************************)
EXTENDS Integers, Sequences

Epu8Of(s) == [i \in 0 .. Len(s) - 1 |-> s[i + 1]]

\* Knuth's 16-way network, nine rounds.
sorting_rounds ==
  << Epu8Of(<<1, 0, 3, 2, 5, 4, 7, 6, 9, 8, 11, 10, 13, 12, 15, 14>>),
     Epu8Of(<<2, 3, 0, 1, 6, 7, 4, 5, 10, 11, 8, 9, 14, 15, 12, 13>>),
     Epu8Of(<<4, 5, 6, 7, 0, 1, 2, 3, 12, 13, 14, 15, 8, 9, 10, 11>>),
     Epu8Of(<<8, 9, 10, 11, 12, 13, 14, 15, 0, 1, 2, 3, 4, 5, 6, 7>>),
     Epu8Of(<<0, 2, 1, 12, 8, 10, 9, 11, 4, 6, 5, 7, 3, 14, 13, 15>>),
     Epu8Of(<<0, 4, 8, 10, 1, 9, 12, 13, 2, 5, 3, 14, 6, 7, 11, 15>>),
     Epu8Of(<<0, 1, 4, 5, 2, 3, 8, 9, 6, 7, 12, 13, 10, 11, 14, 15>>),
     Epu8Of(<<0, 1, 2, 6, 4, 8, 3, 10, 5, 12, 7, 11, 9, 13, 14, 15>>),
     Epu8Of(<<0, 1, 2, 4, 3, 6, 5, 8, 7, 10, 9, 12, 11, 13, 14, 15>>) >>

\* Batcher's 8-way network on both halves, six rounds.
sorting_rounds8 ==
  << Epu8Of(<<1, 0, 3, 2, 5, 4, 7, 6, 9, 8, 11, 10, 13, 12, 15, 14>>),
     Epu8Of(<<2, 3, 0, 1, 6, 7, 4, 5, 10, 11, 8, 9, 14, 15, 12, 13>>),
     Epu8Of(<<0, 2, 1, 3, 4, 6, 5, 7, 8, 10, 9, 11, 12, 14, 13, 15>>),
     Epu8Of(<<4, 5, 6, 7, 0, 1, 2, 3, 12, 13, 14, 15, 8, 9, 10, 11>>),
     Epu8Of(<<0, 1, 4, 5, 2, 3, 6, 7, 8, 9, 12, 13, 10, 11, 14, 15>>),
     Epu8Of(<<0, 2, 1, 4, 3, 6, 5, 7, 8, 10, 9, 12, 11, 14, 13, 15>>) >>

(***************************************************************************)
(* The bitonic merging network.  The array is declared with six rounds and *)
(* initialised with four: the last two are zero vectors, which compare     *)
(* every lane with lane 0.                                                 *)
(***************************************************************************)
merge_rounds ==
  << Epu8Of(<<8, 9, 10, 11, 12, 13, 14, 15, 0, 1, 2, 3, 4, 5, 6, 7>>),
     Epu8Of(<<4, 5, 6, 7, 0, 1, 2, 3, 12, 13, 14, 15, 8, 9, 10, 11>>),
     Epu8Of(<<2, 3, 0, 1, 6, 7, 4, 5, 10, 11, 8, 9, 14, 15, 12, 13>>),
     Epu8Of(<<1, 0, 3, 2, 5, 4, 7, 6, 9, 8, 11, 10, 13, 12, 15, 14>>),
     [i \in 0 .. 15 |-> 0],
     [i \in 0 .. 15 |-> 0] >>

\* Halving of positions: round r moves to the front the lanes whose
\* number, as it was before the first round, has bit 2 - r clear.
inverting_rounds ==
  << Epu8Of(<<0, 1, 2, 3, 8, 9, 10, 11, 4, 5, 6, 7, 12, 13, 14, 15>>),
     Epu8Of(<<0, 1, 4, 5, 8, 9, 12, 13, 2, 3, 6, 7, 10, 11, 14, 15>>),
     Epu8Of(<<0, 2, 4, 6, 8, 10, 12, 14, 1, 3, 5, 7, 9, 11, 13, 15>>) >>

FF == 255

\* Prefix networks: with FF the shuffle clears the lane, which is neutral for
\* sums and maxima; the rounds for minima name the lane itself instead.
summing_rounds ==
  << Epu8Of(<<FF, 0, FF, 2, FF, 4, FF, 6, FF, 8, FF, 10, FF, 12, FF, 14>>),
     Epu8Of(<<FF, FF, 1, 1, FF, FF, 5, 5, FF, FF, 9, 9, FF, FF, 13, 13>>),
     Epu8Of(<<FF, FF, FF, FF, 3, 3, 3, 3, FF, FF, FF, FF, 11, 11, 11, 11>>),
     Epu8Of(<<FF, FF, FF, FF, FF, FF, FF, FF, 7, 7, 7, 7, 7, 7, 7, 7>>) >>

mining_rounds ==
  << Epu8Of(<<0, 0, 2, 2, 4, 4, 6, 6, 8, 8, 10, 10, 12, 12, 14, 14>>),
     Epu8Of(<<0, 1, 1, 1, 4, 5, 5, 5, 8, 9, 9, 9, 12, 13, 13, 13>>),
     Epu8Of(<<0, 1, 2, 3, 3, 3, 3, 3, 8, 9, 10, 11, 11, 11, 11, 11>>),
     Epu8Of(<<0, 1, 2, 3, 4, 5, 6, 7, 7, 7, 7, 7, 7, 7, 7, 7>>) >>
=============================================================================
