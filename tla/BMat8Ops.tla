------------------------------ MODULE BMat8Ops ------------------------------
(***************************************************************************)
(* BMat8 without its row spaces: entries, transposes, products and         *)
(* permutations of rows and columns.  A 64-bit word is the set of the bits *)
(* that are one, so that | ^ & are set operations; entry (i, j) of the     *)
(* matrix is bit 63 - 8i - j.  A vector of sixteen bytes is a function to  *)
(* sets of bits, the lower word of a register in lanes 0 to 7.             *)
(***************************************************************************)
EXTENDS Integers, Sequences, FiniteSetsExt

Bits      == 0 .. 63
ByteLanes == 0 .. 15
Shl(w, k) == {b + k : b \in w} \cap Bits
Shr(w, k) == {b - k : b \in w} \cap Bits
Xor(w, u) == (w \ u) \cup (u \ w)

\* set_epi64x and extract_epi64, movemask, and the byte shuffle.
Register(high, low) ==
  [n \in ByteLanes |-> {b \in 0 .. 7 : 8 * (n % 8) + b \in IF n < 8 THEN low ELSE high}]
Extract(x, half) == {b \in Bits : b % 8 \in x[8 * half + (b \div 8)]}
Movemask(x)      == {n \in ByteLanes : 7 \in x[n]}
Shuffled(x, s)   == [n \in ByteLanes |-> x[s[n]]]

BIT_MASK(i, j) == 63 - (8 * i + j)
ROW_MASK(i)    == {BIT_MASK(i, j) : j \in 0 .. 7}
COL_MASK(j)    == {BIT_MASK(i, j) : i \in 0 .. 7}

Entry(w, i, j)    == 63 \in Shl(w, 8 * i + j)
Set(w, i, j, val) ==
  Xor(w, Xor(IF val THEN Bits ELSE {}, w) \cap {BIT_MASK(i, j)})

\* From a list of rows, as many as each is long: the bit moves on by one for
\* every entry and past the columns that are left out after every row.
FromRows(mat) ==
  LET dim == Len(mat)
  IN  {63 - e - (8 - dim) * (e \div dim) :
         e \in {k \in 0 .. dim * dim - 1 : mat[1 + (k \div dim)][1 + (k % dim)]}}
ones(dim)        == {BIT_MASK(i, i) : i \in 0 .. dim - 1}
random(w, dim)   == w \ UNION {ROW_MASK(i) \cup COL_MASK(i) : i \in dim .. 7}
\* The entries as they are written, the word shifted by one for each; comparing two
\* matrices compares their words as numbers.
write(w)         == [i \in 1 .. 8 |-> [j \in 1 .. 8 |-> 63 \in Shl(w, 8 * (i - 1) + j - 1)]]
Less(w, u)       == w # u /\ Max(Xor(w, u)) \in u
Greater(w, u)    == w # u /\ Max(Xor(w, u)) \in w
rows(w)          == [i \in 0 .. 7 |-> {b \in 0 .. 7 : 56 + b \in Shl(w, 8 * i)}]

-----------------------------------------------------------------------------
\* Swap the bits of a mask with those k further on.
SwapBits(w, k, mask) ==
  LET y == Xor(w, Shr(w, k)) \cap mask IN Xor(Xor(w, y), Shl(y, k))
\* Faulty: the last exchange is of every row, not of the upper four with the
\* lower four.
Faultytranspose(w) ==
  LET x1 == SwapBits(w, 7, {b \in Bits : (b \div 8) % 2 = 0 /\ b % 2 = 1})
      x2 == SwapBits(x1, 14, {b \in Bits : (b \div 8) % 4 < 2 /\ b % 4 >= 2})
  IN  SwapBits(x2, 28, {b \in Bits : b % 8 >= 4})
\* Swap blocks of one, two and four rows and columns across the diagonal.
transpose(w) ==
  LET x1 == SwapBits(w, 7, {b \in Bits : (b \div 8) % 2 = 0 /\ b % 2 = 1})
      x2 == SwapBits(x1, 14, {b \in Bits : (b \div 8) % 4 < 2 /\ b % 4 >= 2})
  IN  SwapBits(x2, 28, {b \in Bits : b \div 8 < 4 /\ b % 8 >= 4})

\* Two columns at a time as the top bits of a register, gathered in a word that
\* is shifted by sixteen; the bytes of the register shift by themselves, or the
\* words do.
Gathered(x) ==
  LET res[n \in 0 .. 3] ==
        IF n = 0 THEN Movemask(x[0]) ELSE Shl(res[n - 1], 16) \cup Movemask(x[n])
  IN  res[3]
transpose_mask(w) ==
  LET x == Register(w, Shl(w, 1))
  IN  Gathered([n \in 0 .. 3 |->
                  [l \in ByteLanes |-> {b + 2 * n : b \in x[l]} \cap 0 .. 7]])
transpose_maskd(w) ==
  Gathered([n \in 0 .. 3 |-> Register(Shl(w, 2 * n), Shl(w, 2 * n + 1))])
\* Both halves of a register go through the exchanges of transpose.
transpose2(w, u) == <<transpose(w), transpose(u)>>

-----------------------------------------------------------------------------
\* Rotations of the bytes of one half or of both.
rothigh == [n \in ByteLanes |-> IF n < 8 THEN n ELSE IF n = 8 THEN 15 ELSE n - 1]
rot2    == [n \in ByteLanes |-> IF n % 8 < 2 THEN n + 6 ELSE n - 2]

\* Diagonals, two at a time: the rows of one matrix against rotated rows of the
\* other; diag holds the bit that the meeting of two rows stands for.
\* Faulty: the bits of the diagonal are not rotated on.
Faultymult_transpose(w, that) ==
  LET x    == Register(w, w)
      diag == [n \in ByteLanes |-> IF n < 8 THEN {n} ELSE IF n = 8 THEN {7} ELSE {n - 9}]
      after[i \in 0 .. 4] ==
        IF i = 0 THEN [data |-> [n \in ByteLanes |-> {}], y |-> Shuffled(Register(that, that), rothigh)]
        ELSE LET s == after[i - 1]
             IN  [data |-> [n \in ByteLanes |-> s.data[n] \cup
                              IF x[n] \cap s.y[n] # {} THEN diag[n] ELSE {}],
                  y    |-> Shuffled(s.y, rot2)]
  IN  Extract(after[4].data, 0) \cup Extract(after[4].data, 1)
mult_transpose(w, that) ==
  LET x == Register(w, w)
      after[i \in 0 .. 4] ==
        IF i = 0 THEN
          [data |-> [n \in ByteLanes |-> {}],
           y    |-> Shuffled(Register(that, that), rothigh),
           diag |-> [n \in ByteLanes |-> IF n < 8 THEN {n} ELSE IF n = 8 THEN {7} ELSE {n - 9}]]
        ELSE LET s == after[i - 1]
             IN  [data |-> [n \in ByteLanes |-> s.data[n] \cup
                              IF x[n] \cap s.y[n] # {} THEN s.diag[n] ELSE {}],
                  y    |-> Shuffled(s.y, rot2),
                  diag |-> Shuffled(s.diag, rot2)]
  IN  Extract(after[4].data, 0) \cup Extract(after[4].data, 1)
Product(w, that) == mult_transpose(w, transpose(that))

nr_rows(w) == Cardinality({n \in ByteLanes : Register(w, {})[n] # {}})

rev8 == [n \in ByteLanes |-> IF n < 8 THEN 7 - n ELSE n]
row_permuted(w, p) ==
  Extract(Shuffled(Shuffled(Shuffled(Register({}, w), rev8), p), rev8), 0)
col_permuted(w, p)        == transpose(row_permuted(transpose(w), p))
row_permutation_matrix(p) == row_permuted(ones(8), p)
col_permutation_matrix(p) == transpose(row_permuted(ones(8), p))

\* Where each row of w is found among the rows of w * bm, a loop through both;
\* the rows from nr_rows on stay.
right_perm_action_on_basis_ref(w, bm) ==
  LET product == rows(Product(w, bm))
      Find(row) == LET at == {i \in 0 .. 7 : product[i] = row}
                   IN  IF at = {} THEN 8 ELSE Min(at)
  IN  [i \in ByteLanes |-> IF i < nr_rows(w) THEN Find(rows(w)[i]) ELSE i]
\* The same by permutation_of, which answers for bytes that occur once.
right_perm_action_on_basis(w, other) ==
  LET reversed == [n \in ByteLanes |-> 15 - n]
      x == Shuffled(Register(w, {}), reversed)
      y == Shuffled(Register(Product(w, other), {}), reversed)
  IN  [i \in ByteLanes |-> IF x[i] = {} THEN i ELSE CHOOSE j \in ByteLanes : y[j] = x[i]]

-----------------------------------------------------------------------------
IsTransposed(w, t) == \A i, j \in 0 .. 7 : Entry(t, j, i) <=> Entry(w, i, j)
IsProduct(w, u, p) ==
  \A i, j \in 0 .. 7 : Entry(p, i, j) <=> \E k \in 0 .. 7 : Entry(w, i, k) /\ Entry(u, k, j)

(***************************************************************************)
(* All transposes move every entry across the diagonal, by exchanges of    *)
(* blocks as well as by collecting top bits, setting an entry changes that *)
(* entry only, what is written is read back as the same matrix, and        *)
(* matrices are ordered by the first entry that differs.                   *)
(***************************************************************************)
TransposesAgreeOn(w, u) ==
  /\ {transpose(w), transpose_mask(w), transpose_maskd(w), transpose2(w, u)[1]} = {transpose(w)}
  /\ transpose2(w, u)[2] = transpose(u)
  /\ IsTransposed(w, transpose(w))
  /\ FromRows(write(w)) = w
  /\ Less(w, u) <=> \E i, j \in 1 .. 8 :
       /\ ~write(w)[i][j] /\ write(u)[i][j]
       /\ \A k, l \in 1 .. 8 : 8 * k + l < 8 * i + j => (write(w)[k][l] <=> write(u)[k][l])
  /\ Less(u, w) <=> Greater(w, u)
  /\ \A dim \in 1 .. 8 :
       LET part == random(w, dim)
       IN  /\ part = FromRows([i \in 1 .. dim |-> [j \in 1 .. dim |-> Entry(w, i - 1, j - 1)]])
           /\ \A i, j \in 0 .. 7 : Entry(part, i, j) <=> i < dim /\ j < dim /\ Entry(w, i, j)
  /\ \A i, j \in {0, 3, 7}, val \in BOOLEAN :
       \A k, l \in 0 .. 7 :
         Entry(Set(w, i, j, val), k, l) = IF <<k, l>> = <<i, j>> THEN val ELSE Entry(w, k, l)

(***************************************************************************)
(* The product taken by diagonals is the matrix product; the identity is   *)
(* neutral; permuting rows or columns is multiplying by the permutation    *)
(* matrix.                                                                 *)
(***************************************************************************)
ProductsRightOn(w, u, p) ==
  /\ IsProduct(w, u, Product(w, u))
  /\ Product(w, ones(8)) = w /\ Product(ones(8), w) = w
  /\ row_permuted(w, p) = Product(row_permutation_matrix(p), w)
  /\ col_permuted(w, p) = Product(w, col_permutation_matrix(p))
  /\ nr_rows(w) = Cardinality({i \in 0 .. 7 : rows(w)[i] # {}})

(***************************************************************************)
(* If multiplying by other permutes the rows of a matrix whose rows differ *)
(* until they are zero, both implementations of the action name the same   *)
(* permutation, and it finds the rows.                                     *)
(***************************************************************************)
PermActionOn(w, other) ==
  LET used    == {rows(w)[i] : i \in 0 .. nr_rows(w) - 1}
      product == rows(Product(w, other))
      action  == right_perm_action_on_basis(w, other)
  IN  {} \notin used /\ Cardinality(used) = nr_rows(w) /\ used = {product[i] : i \in 0 .. 7} \ {{}} =>
        /\ action = right_perm_action_on_basis_ref(w, other)
        /\ \A i \in 0 .. nr_rows(w) - 1 : product[action[i]] = rows(w)[i]
=============================================================================
