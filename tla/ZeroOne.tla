------------------------------- MODULE ZeroOne -------------------------------
(***************************************************************************)
(* Why checking a network on zeros and ones is enough.  Reach is a         *)
(* certificate about the table alone: for each direction and each number   *)
(* of rounds, a set of 0/1 vectors that contains every vector the network  *)
(* can have made of 0/1 arguments by then.  TLC computes it for the tables *)
(* of the code and evaluates ReachAssumption; from that assumption         *)
(* SortProofs derives that the network sorts every vector of bytes.        *)
(***************************************************************************)
EXTENDS NetworkSort

CONSTANT Reach   \* Reach[n][d][r]: the 0/1 vectors after r rounds of n in direction d

ASSUME ReachAssumption ==
  \A n \in Networks, d \in Directions :
    LET last == Len(RoundsOf[n])
    IN  /\ [Lane -> {0, 1}] \subseteq Reach[n][d][0]
        /\ \A r \in 1 .. last :
             {SortRound(d, w, RoundsOf[n][r]) : w \in Reach[n][d][r - 1]}
               \subseteq Reach[n][d][r]
        /\ \A w \in Reach[n][d][last], B \in BlocksOf[n] : Ordered(w, d, B)

(***************************************************************************)
(* Whatever bytes are sorted, the pattern of the lanes that reach a given  *)
(* threshold is at every round one the network makes of zeros and ones.    *)
(***************************************************************************)
ThresholdsReached == \A t \in Byte : Threshold(v, t) \in Reach[net][up][k]
=============================================================================
