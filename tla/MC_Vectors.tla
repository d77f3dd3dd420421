----------------------------- MODULE MC_Vectors -----------------------------
(***************************************************************************)
(* Arguments for the run of the vector functions.                          *)
(***************************************************************************)
EXTENDS Vectors

Bytes == 0 .. 255

\* Permutations: affine maps modulo 16, modulo 8 on both halves, and modulo 17.
Affine ==
  {[i \in 0 .. 15 |-> ((m * i + c) % 16)] : m \in {1, 3, 5, 7, 9, 11, 13, 15}, c \in {0, 1, 6, 13}}
Halved ==
  {[i \in 0 .. 15 |-> IF i < 8 THEN (m * i + c) % 8 ELSE 8 + ((m * i + 1) % 8)] :
     m \in {1, 3, 5, 7}, c \in {0, 3}}
Prime == {[i \in 0 .. 15 |-> ((m * (i + 1)) % 17) - 1] : m \in 2 .. 16}
Bijections == Affine \cup Halved \cup Prime

\* Vectors with repetitions, with bytes past the lanes, and with the top bit set.
Squares == {[i \in 0 .. 15 |-> ((m * i * i + c) % n)] :
              m \in {1, 3}, c \in {0, 2, 13}, n \in {2, 5, 11, 16, 17, 255}}
High    == {[i \in 0 .. 15 |-> ((m * i + c) % 256)] : m \in {17, 23, 120}, c \in {0, 127, 250}}
Partial == {[i \in 0 .. 15 |-> IF (i % d) = r THEN 255 ELSE p[i]] :
              d \in {2, 5}, r \in {0, 1}, p \in Halved \cup Prime}
Vectors == Bijections \cup Squares \cup High \cup Partial

\* The last lane of v changed: pairs that differ late.
Late(v) == [v EXCEPT ![15] = (v[15] + 128) % 256]

\* A second argument: a partial map, a map that is not injective, and bytes.
Others == {[i \in 0 .. 15 |-> IF i % 3 = 1 THEN 255 ELSE (5 * i) % 16],
           [i \in 0 .. 15 |-> (i * i) % 16], [i \in 0 .. 15 |-> (19 * i) % 256]}

Pairs ==
  [p \in Loops |->
     CASE p \in {"lehmer", "cycles_partition"} -> {<<v, v>> : v \in Bijections}
       [] p = "left_weak_leq" -> Bijections \X (Halved \cup Prime)
       [] p = "permutation_of" ->
            {<<v, w>> : v \in Vectors, w \in {[i \in 0 .. 15 |-> i], [i \in 0 .. 15 |-> 15 - i]}}
              \cup {<<v, Late(v)>> : v \in Vectors}
       [] OTHER -> {<<v, w>> : v \in Vectors, w \in Others}]
=============================================================================
