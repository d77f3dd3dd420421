---------------------------- MODULE Arrangements ----------------------------
(***************************************************************************)
(* The vocabulary in which sorting, merging and permuting are specified:   *)
(* what it means that two arrays have the same content and that an array   *)
(* is in order.  B is always the set of positions that is looked at.       *)
(***************************************************************************)
EXTENDS Integers, FiniteSets

CONSTANT Byte   \* the values an entry can have

ASSUME ByteAssumption == Byte \subseteq Nat

\* How many positions of B hold the byte x.
Count(a, B, x) == Cardinality({i \in B : a[i] = x})

\* The positions of B hold the same bytes in both arrays, each as often.
SameContent(a, b, B) == \A x \in Byte : Count(a, B, x) = Count(b, B, x)

\* The entries at B are in increasing (up) or in decreasing order.
Ordered(a, up, B) ==
  \A i, j \in B : i < j => IF up THEN a[i] <= a[j] ELSE a[j] <= a[i]
=============================================================================
