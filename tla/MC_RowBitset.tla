---------------------------- MODULE MC_RowBitset ----------------------------
(***************************************************************************)
(* Matrices of eight rows of eight columns: bytes in progression, and      *)
(* matrices with two or three rows that are not empty.  On the same        *)
(* matrices the operations that are not about row spaces.                  *)
(***************************************************************************)
EXTENDS RowBitset, BMat8Ops

EightColumns == 0 .. 7
Bytes == [x \in SUBSET EightColumns |-> SumSet({2 ^ c : c \in x})]
RowOf == [b \in 0 .. 255 |-> {c \in EightColumns : (b \div 2 ^ c) % 2 = 1}]

Progressions ==
  {[n \in 0 .. 7 |-> RowOf[(a + b * n) % 256]] : a \in {0, 1, 77, 200}, b \in {0, 1, 16, 37, 85}}
    \cup {[n \in 0 .. 7 |-> RowOf[(b * 2 ^ n) % 256]] : b \in {1, 3, 5, 11}}
Sparse ==
  {[n \in 0 .. 7 |-> RowOf[IF n = p THEN 5 ELSE IF n = q THEN 130 ELSE IF n = 7 - p THEN 24 ELSE 0]] :
     p \in 0 .. 7, q \in 0 .. 7}
MCMatrices == Progressions \cup Sparse

\* The matrix under way as a word, and others that depend on it.
Word    == {8 * n + c : n \in 0 .. 7, c \in 0 .. 7} \cap {b \in Bits : b % 8 \in matrix[b \div 8]}
Other   == {63 - b : b \in Word} \cup {0, 9, 63}
Shift   == [i \in ByteLanes |-> IF i < 8 THEN (i + Cardinality(Word)) % 8 ELSE i]
Called  == pc = "mix" /\ m = 0

\* Matrices that permute the rows of another: permutation matrices, and those of
\* test_bmat8.cpp 525-551.
M(s)    == FromRows([i \in 1 .. Len(s) |-> [j \in 1 .. Len(s) |-> s[i][j] = 1]])
Turned  == [i \in ByteLanes |-> IF i < 8 THEN (3 * i + 1) % 8 ELSE i]
Actions ==
  {<<M(<< <<1, 1, 0>>, <<1, 0, 1>>, <<0, 0, 0>> >>), M(<< <<0, 0, 0>>, <<1, 0, 1>>, <<1, 1, 0>> >>)>>,
   <<M(<< <<1, 1, 0, 1>>, <<1, 0, 1, 0>>, <<0, 0, 0, 1>>, <<0, 0, 0, 0>> >>),
     M(<< <<1, 0, 0, 0>>, <<0, 1, 0, 1>>, <<1, 0, 1, 0>>, <<0, 0, 0, 1>> >>)>>,
   <<M(<< <<0, 1, 0, 0>>, <<0, 0, 1, 0>>, <<1, 0, 0, 1>>, <<0, 0, 0, 0>> >>),
     M(<< <<1, 0, 0, 1>>, <<0, 0, 1, 0>>, <<0, 1, 0, 0>>, <<0, 0, 0, 1>> >>)>>,
   <<M(<< <<0, 0, 0, 1>>, <<1, 0, 0, 0>>, <<0, 0, 1, 0>>, <<0, 1, 0, 0>> >>),
     M(<< <<0, 1, 0, 0>>, <<0, 0, 1, 0>>, <<1, 0, 0, 0>>, <<0, 0, 0, 1>> >>)>>}
    \cup {<<row_permutation_matrix(p), row_permutation_matrix(q)>> : p, q \in {rev8, Turned}}

\* Transposes and entries: all implementations on the matrices of the run.
TransposesAgree == Called => TransposesAgreeOn(Word, Other)
\* Products, permutations of rows and columns, and the action on a basis.
ProductsRight ==
  Called => /\ ProductsRightOn(Word, Other, Shift)
            /\ \A a \in Actions : PermActionOn(a[1], a[2])
            /\ PermActionOn(ones(8), row_permutation_matrix(Shift))
=============================================================================
