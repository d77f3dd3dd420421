-------------------------------- MODULE Merge --------------------------------
(***************************************************************************)
(* merge(a, b) and merge_rev(a, b): two sorted vectors become the lower    *)
(* and the upper half of their sorted union.  merge reverses a and calls   *)
(* merge_rev, which separates the smaller bytes from the larger ones and   *)
(* sorts each half with network_sort and the table merge_rounds.           *)
(*                                                                         *)
(* The table is an array of six rounds with four initialisers.  Its last   *)
(* two rounds are zero vectors: lane 0 takes the minimum of itself, every  *)
(* other lane the maximum of its byte and lane 0's.  That is not a round   *)
(* of exchanges, and a vector out of order would lose bytes in it; all     *)
(* depends on the vector being sorted by then.                             *)
(***************************************************************************)
EXTENDS Epu8, Sequences

CONSTANTS
  MergeRounds,  \* merge_rounds
  MergeReach,   \* MergeReach[r]: a set of 0/1 vectors, a certificate about MergeRounds
  Arguments     \* the sorted vectors that are merged

ASSUME MergeAssumption ==
  /\ MergeRounds \in Seq([Lane -> Lane])
  /\ Len(MergeRounds) > 0
  /\ Arguments \subseteq {x \in Vec : IsSorted(x)}

\* The zero vectors of the table: they do not pair the lanes off.
Padding(round) == \E i \in Lane : round[round[i]] # i

(***************************************************************************)
(* A certificate about the table, as in ZeroOne.  The 0/1 vectors that are *)
(* sorted after the minima and maxima are those of a rising and a falling  *)
(* vector; the rounds put them in order, and a padding round finds them in *)
(* order already.                                                          *)
(***************************************************************************)
Rising  == {Threshold(Id, t) : t \in 0 .. Size}
Falling == {Threshold(Rev, t) : t \in 0 .. Size}
ASSUME MergeReachAssumption ==
  /\ \A x \in Falling, y \in Rising : VMin(x, y) \in MergeReach[0] /\ VMax(x, y) \in MergeReach[0]
  /\ \A r \in 1 .. Len(MergeRounds) :
       /\ {SortRound(TRUE, w, MergeRounds[r]) : w \in MergeReach[r - 1]} \subseteq MergeReach[r]
       /\ Padding(MergeRounds[r]) => \A w \in MergeReach[r - 1] : Ordered(w, TRUE, Lane)
  /\ \A w \in MergeReach[Len(MergeRounds)] : Ordered(w, TRUE, Lane)

VARIABLES
  args,    \* the vectors merge_rev works on, kept to state what was merged
  a, b,    \* the two vectors, merged in place
  pc,      \* what happens next
  applied  \* the number of rounds the current network_sort has applied

mergeVars == <<args, a, b, pc, applied>>

\* A call of merge with two sorted vectors, or of merge_rev with a the reverse
\* of a sorted vector.
MergeInit ==
  /\ pc \in {"reverse", "split"}
  /\ b \in Arguments
  /\ IF pc = "reverse" THEN a \in Arguments
                       ELSE a \in {Permuted(x, Rev) : x \in Arguments}
  /\ args = <<a, b>>
  /\ applied = 0

\* Faulty: a goes on as it is.
FaultyReverse ==
  /\ pc = "reverse"
  /\ pc' = "split"
  /\ UNCHANGED <<args, a, b, applied>>

Reverse ==
  /\ pc = "reverse"
  /\ a' = Permuted(a, Rev)
  /\ pc' = "split"
  /\ UNCHANGED <<args, b, applied>>

\* Faulty: the minima overwrite a before the maxima are taken.
FaultySplit ==
  /\ pc = "split"
  /\ a' = VMin(a, b)
  /\ b' = VMax(a', b)
  /\ pc' = "lower"
  /\ UNCHANGED <<args, applied>>

Split ==
  /\ pc = "split"
  /\ a' = VMin(a, b)
  /\ b' = VMax(a, b)
  /\ pc' = "lower"
  /\ UNCHANGED <<args, applied>>

\* Faulty: one round too many.
FaultyAdvance(next) ==
  IF applied < Len(MergeRounds) THEN applied' = applied + 1 /\ pc' = pc
                               ELSE applied' = 0 /\ pc' = next

\* The loop of network_sort moves on, and after its last round the function
\* moves on to next.
Advance(next) ==
  IF applied + 1 < Len(MergeRounds) THEN applied' = applied + 1 /\ pc' = pc
                                   ELSE applied' = 0 /\ pc' = next

\* Faulty: the other half is copied over this one.
FaultySortLower ==
  /\ pc = "lower"
  /\ a' = SortRound(TRUE, b, MergeRounds[applied + 1])
  /\ Advance("upper")
  /\ UNCHANGED <<args, b>>

SortLower ==
  /\ pc = "lower"
  /\ a' = SortRound(TRUE, a, MergeRounds[applied + 1])
  /\ Advance("upper")
  /\ UNCHANGED <<args, b>>

SortUpper ==
  /\ pc = "upper"
  /\ b' = SortRound(TRUE, b, MergeRounds[applied + 1])
  /\ Advance("done")
  /\ UNCHANGED <<args, a>>

MergeNext == Reverse \/ Split \/ SortLower \/ SortUpper

MergeSpec == MergeInit /\ [][MergeNext]_mergeVars

-----------------------------------------------------------------------------
MergeTypeOK ==
  /\ args \in Vec \X Vec
  /\ a \in Vec /\ b \in Vec
  /\ pc \in {"reverse", "split", "lower", "upper", "done"}
  /\ applied \in 0 .. Len(MergeRounds) - 1

(***************************************************************************)
(* One lanewise min/max separates the halves for good: from then on no     *)
(* byte of a exceeds a byte of b.  This is the bitonic argument, and it    *)
(* needs the one vector rising and the other falling.                      *)
(***************************************************************************)
HalvesSeparated ==
  pc \in {"lower", "upper", "done"} => \A i, j \in Lane : a[i] <= b[j]

(***************************************************************************)
(* The rounds of the table that do not pair the lanes off find the vector  *)
(* in order and change nothing.                                            *)
(***************************************************************************)
InPadding   == pc \in {"lower", "upper"} /\ Padding(MergeRounds[applied + 1])
PaddingIdle == [][InPadding => UNCHANGED <<a, b>>]_mergeVars

(***************************************************************************)
(* The two vectors side by side are one vector of twice the size, which    *)
(* merging rearranges and leaves sorted (epu8.hpp 148-154): a and b are    *)
(* sorted and a[15] <= b[0].                                               *)
(***************************************************************************)
Join(x, y) == [i \in 0 .. 2 * Size - 1 |-> IF i < Size THEN x[i] ELSE y[i - Size]]
MergePromise == INSTANCE SortPromise
             WITH blocks <- {0 .. 2 * Size - 1},
                  Inputs <- [0 .. 2 * Size - 1 -> Byte], Directions <- {TRUE},
                  input <- Join(args[1], args[2]), up <- TRUE,
                  v <- Join(a, b), done <- pc = "done"
MergesAsPromised == MergePromise!Spec
=============================================================================
