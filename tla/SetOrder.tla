------------------------------- MODULE SetOrder -------------------------------
(***************************************************************************)
(* Vectors in a std::set.  The library gives std::less<epu8> an order of   *)
(* its own, "not lexicographic comparison, but we don't care when using in *)
(* std::set" (epu8_impl.hpp 595-604): it reads the first eight lanes as    *)
(* two floats.  The container takes two elements for one if neither is     *)
(* less than the other.                                                    *)
(***************************************************************************)
EXTENDS Epu8

CONSTANT Keys    \* the vectors that are inserted, looked up and erased

VARIABLES
  tree,     \* the vectors in the std::set
  wanted    \* those inserted and not erased since

vars == <<tree, wanted>>

\* Lanes 4n to 4n + 3, the last one the most significant, as a float: a sign and
\* a magnitude, ordered like integers.
Float(v, n) ==
  LET magnitude == ((v[4 * n + 3] % 128) * 2^24) + (v[4 * n + 2] * 2^16)
                     + (v[4 * n + 1] * 2^8) + v[4 * n]
  IN  IF v[4 * n + 3] >= 128 THEN -magnitude ELSE magnitude
less(v1, v2) ==
  IF Float(v1, 0) = Float(v2, 0) THEN Float(v1, 1) < Float(v2, 1)
  ELSE Float(v1, 0) < Float(v2, 0)

\* The keys are to have no word that is not a number (magnitude above 0x7F800000):
\* such a word is in no order.  The bytes of a permutation never make one.
Equivalent(v) == {w \in tree : ~less(v, w) /\ ~less(w, v)}

-----------------------------------------------------------------------------
Init == tree = {} /\ wanted = {}

\* insert, which leaves the set alone if it holds an equivalent element.
Insert(v) ==
  /\ tree' = IF Equivalent(v) = {} THEN tree \cup {v} ELSE tree
  /\ wanted' = wanted \cup {v}

\* erase by key.
Erase(v) ==
  /\ tree' = tree \ Equivalent(v)
  /\ wanted' = wanted \ {v}

Next == \E v \in Keys : Insert(v) \/ Erase(v)

Spec == Init /\ [][Next]_vars

-----------------------------------------------------------------------------
(***************************************************************************)
(* The set holds the vectors that were put into it: the comparison is good *)
(* enough for std::set, as the comment on std::less<epu8> says.            *)
(***************************************************************************)
HoldsWhatWasInserted == tree = wanted
=============================================================================
