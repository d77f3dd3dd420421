----------------------------- MODULE NetworkSort -----------------------------
(***************************************************************************)
(* network_sort<Increasing>(v, rounds), which sorted, revsorted, sorted8   *)
(* and revsorted8 call with one of the tables of Epu8Tables: a loop over   *)
(* the rounds, each a lanewise min/max against the shuffled vector.        *)
(***************************************************************************)
EXTENDS Epu8, Sequences

CONSTANTS
  Networks,    \* the names of the networks
  RoundsOf,    \* RoundsOf[n]: the table of network n
  BlocksOf,    \* BlocksOf[n]: the sets of lanes it sorts on their own
  Inputs,      \* the vectors the function is called with
  Directions   \* the values of the template argument Increasing

ASSUME InputsAssumption ==
  /\ Inputs \subseteq Vec
  /\ Directions \subseteq BOOLEAN

(***************************************************************************)
(* What the tables of the code satisfy: a round pairs the lanes off, and   *)
(* never pairs lanes of different blocks.                                  *)
(***************************************************************************)
ASSUME RoundsAssumption ==
  \A n \in Networks :
    /\ RoundsOf[n] \in Seq([Lane -> Lane])
    /\ Len(RoundsOf[n]) > 0
    /\ \A r \in 1 .. Len(RoundsOf[n]) :
         \A i \in Lane : RoundsOf[n][r][RoundsOf[n][r][i]] = i
    /\ BlocksOf[n] \subseteq SUBSET Lane
    /\ \A r \in 1 .. Len(RoundsOf[n]), B \in BlocksOf[n] :
         \A i \in B : RoundsOf[n][r][i] \in B

VARIABLES
  net,     \* the network, named by its table, the second argument
  input,   \* the argument, kept to state what was rearranged
  up,      \* the template argument Increasing
  v,       \* the local variable res of the code
  k        \* the number of rounds applied

vars == <<net, input, up, v, k>>

\* The argument rounds, and the blocks it is written for.
Rounds == RoundsOf[net]
Blocks == BlocksOf[net]

\* Faulty: the loop starts at the second round.
FaultyInit ==
  /\ net \in Networks /\ input \in Inputs /\ up \in Directions /\ v = input /\ k = 1

Init ==
  /\ net \in Networks
  /\ input \in Inputs
  /\ up \in Directions
  /\ v = input
  /\ k = 0

\* A faulty iteration: the template argument lost.
FaultyRoundAlwaysUp ==
  /\ k < Len(Rounds)
  /\ v' = SortRound(TRUE, v, Rounds[k + 1])
  /\ k' = k + 1
  /\ UNCHANGED <<net, input, up>>

\* Faulty: the direction alternates, as in a bitonic network.
FaultyRoundFlips ==
  /\ k < Len(Rounds)
  /\ v' = SortRound(up = (k % 2 = 0), v, Rounds[k + 1])
  /\ k' = k + 1
  /\ UNCHANGED <<net, input, up>>

\* One iteration of the loop over the rounds.
ApplyRound ==
  /\ k < Len(Rounds)
  /\ v' = SortRound(up, v, Rounds[k + 1])
  /\ k' = k + 1
  /\ UNCHANGED <<net, input, up>>

Next == ApplyRound

Spec == Init /\ [][Next]_vars

\* The loop is over: v is the returned vector.
Returned == k = Len(Rounds)

-----------------------------------------------------------------------------
TypeOK ==
  /\ net \in Networks
  /\ input \in Inputs
  /\ up \in Directions
  /\ v \in Vec
  /\ k \in 0 .. Len(Rounds)

(***************************************************************************)
(* The vector returned by sorted, sorted8, revsorted and revsorted8 is in  *)
(* the order their documentation promises (epu8.hpp 112-136).              *)
(***************************************************************************)
SortedAtReturn == Returned => \A B \in Blocks : Ordered(v, up, B)

(***************************************************************************)
(* Every round only moves bytes between the lanes of a block: none is lost *)
(* and none duplicated, although min and max are computed from two         *)
(* separate copies of the vector.                                          *)
(***************************************************************************)
ContentKept == \A B \in Blocks : SameContent(v, input, B)

(***************************************************************************)
(* A block that is in order is not disturbed by the rounds that remain:    *)
(* sorting is idempotent, and no round of a table works against another.   *)
(***************************************************************************)
Undisturbed(x, y) == \A B \in Blocks : Ordered(x, up, B) => \A i \in B : y[i] = x[i]
OrderKept == [][Undisturbed(v, v')]_vars

(***************************************************************************)
(* The loop implements the promise of SortPromise.                         *)
(***************************************************************************)
Promise == INSTANCE SortPromise WITH blocks <- Blocks, done <- Returned
ImplementsPromise == Promise!Spec
=============================================================================
