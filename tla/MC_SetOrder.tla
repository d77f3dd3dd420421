----------------------------- MODULE MC_SetOrder -----------------------------
(***************************************************************************)
(* Permutations in a std::set: the identity, exchanges of two neighbours,  *)
(* and the permutation that turns all points around.                       *)
(***************************************************************************)
EXTENDS SetOrder

Bytes == 0 .. 15
MC_Keys ==
  {Id, Rev} \cup
  {[Id EXCEPT ![i] = i + 1, ![i + 1] = i] : i \in {0, 3, 6, 7, 8, 14}}
=============================================================================
