---------------------------- MODULE MC_RowClosure ----------------------------
(***************************************************************************)
(* Matrices of eight rows.  With three columns there is every set of rows, *)
(* each of them in turn repeated until there are eight.  With four columns *)
(* there are those with at most three different rows, over and over, and   *)
(* for every set of at most four rows none of which the others make up two *)
(* matrices: one with empty rows in between, one with a repeated row and a *)
(* union of two.                                                           *)
(***************************************************************************)
EXTENDS RowClosure, SequencesExt

FourColumns == 0 .. 3
Bytes == [x \in SUBSET FourColumns |-> SumSet({2 ^ c : c \in x})]
RowOf == [b \in 0 .. 15 |-> CHOOSE x \in SUBSET FourColumns : Bytes[x] = b]

\* The bytes of a set, one of them again and again; and all of them over and over.
Listed(B) ==
  [n \in 1 .. Cardinality(B) |-> CHOOSE b \in B : Cardinality({c \in B : c < b}) = n - 1]
Filled(B, b) == [n \in 1 .. 8 |-> IF n \in DOMAIN Listed(B) THEN Listed(B)[n] ELSE b]
Repeated(B)  == [n \in 1 .. 8 |-> Listed(B)[(n % Cardinality(B)) + 1]]

\* Sets of rows none of which the others make up.
Independent(rows) == \A x \in rows : x \notin Space(rows \ {x})
Families ==
  {rows \in UNION {kSubset(n, SUBSET FourColumns \ {{}}) : n \in 0 .. 4} : Independent(rows)}

At(s, n)     == IF n \in DOMAIN s THEN s[n] ELSE {}
Redundant(s) == s \o <<At(s, 1), At(s, 1) \cup At(s, 2)>>

\* The rows in an order that is not theirs.
Scattered(s, step) == [i \in Low |-> At(s, ((step * i) % 8) + 1)]
Named(s) == [n \in DOMAIN s |-> RowOf[s[n]]]
MCMatrices ==
  UNION {{Scattered(Named(Filled(B, b)), 3) : b \in B} : B \in SUBSET (0 .. 7)}
    \cup {Scattered(Named(Repeated(B)), 3) : B \in UNION {kSubset(n, 1 .. 15) : n \in 1 .. 3}}
    \cup UNION {{Scattered(s, 5), Scattered(Redundant(s), 5)} : s \in {SetToSeq(rows) : rows \in Families}}
=============================================================================
