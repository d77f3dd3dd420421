----------------------------- MODULE SortPromise -----------------------------
(***************************************************************************)
(* What the sorting functions of epu8.hpp promise, whatever network they   *)
(* use: the vector is rearranged within each block of lanes, and when the  *)
(* function returns every block is in order.  sorted and revsorted have    *)
(* one block of sixteen lanes, sorted8 and revsorted8 two of eight.        *)
(***************************************************************************)
EXTENDS Arrangements

CONSTANTS
  Inputs,      \* the vectors the function is called with
  Directions   \* TRUE: sort up, FALSE: sort down

VARIABLES
  blocks,  \* the sets of lanes that are sorted on their own
  input,   \* the argument
  up,      \* the direction, a template argument in the code
  v,       \* the vector being sorted
  done     \* has the function returned?

vars == <<blocks, input, up, v, done>>

Init ==
  /\ input \in Inputs
  /\ up \in Directions
  /\ v = input
  /\ done = FALSE

Rearranged ==
  /\ DOMAIN v' = DOMAIN v
  /\ \A B \in blocks : SameContent(v', v, B)

\* Entries change places within their block.
Rearrange ==
  /\ ~done
  /\ Rearranged
  /\ UNCHANGED <<blocks, input, up, done>>

\* The last change leaves every block in order.
Finish ==
  /\ ~done
  /\ Rearranged
  /\ \A B \in blocks : Ordered(v', up, B)
  /\ done' = TRUE
  /\ UNCHANGED <<blocks, input, up>>

Next == Rearrange \/ Finish

Spec == Init /\ [][Next]_vars
=============================================================================
