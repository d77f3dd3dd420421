----------------------------- MODULE MC_RowIncl -----------------------------
(***************************************************************************)
(* The sixteen blocks of all 256 rows, for matrices whose rows are bytes   *)
(* in arithmetic and geometric progression; and questions about matrices   *)
(* of two and three columns.                                               *)
(***************************************************************************)
EXTENDS RowIncl, FiniteSetsExt

EightColumns == 0 .. 7
Bytes == [x \in SUBSET EightColumns |-> SumSet({2 ^ c : c \in x})]
RowOf == [b \in 0 .. 255 |-> {c \in EightColumns : (b \div 2 ^ c) % 2 = 1}]

Progressions ==
  {[n \in Low |-> RowOf[(a + b * n) % 256]] : a \in {0, 1, 77}, b \in {0, 1, 16, 37}}
    \cup {[n \in Low |-> RowOf[(b * 2 ^ n) % 256]] : b \in {1, 3, 5}}

\* Matrices with two rows, in lanes next to each other, far apart or at the ends.
Sparse(x, y, p, q) == [l \in Low |-> IF l = p THEN RowOf[x] ELSE IF l = q THEN RowOf[y] ELSE {}]
Small ==
  UNION {{Sparse(x, y, 0, 7), Sparse(x, y, 7, 3), Sparse(x, y, 2, 1)} : x \in {0, 1, 3, 5}, y \in {2, 6, 7}}

Side(low, high) == [l \in Lane |-> IF l \in Low THEN low[l] ELSE high[l - Height]]
Empty == [l \in Low |-> {}]
Pairs ==
  {[block |-> Side(a, Empty), in |-> Side(b, Empty)] : a \in Small, b \in Small}
    \cup {[block |-> Side(a, b), in |-> Side(b, a)] : a \in Small, b \in Small}
    \cup {[block |-> [l \in Lane |-> RowOf[l % 8]], in |-> Side(b, b)] : b \in Small}
=============================================================================
