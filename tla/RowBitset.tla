----------------------------- MODULE RowBitset -----------------------------
(***************************************************************************)
(* BMat8::row_space_bitset: the row space as 256 bits in two vectors.  The *)
(* unions of the lower four rows are laid out in the sixteen lanes of one  *)
(* block, those of the upper four in another.  One block is rotated under  *)
(* the other so that every union meets every other, and each block of      *)
(* unions is rotated under the bits, a lane of which holds eight of them.  *)
(***************************************************************************)
EXTENDS RowSpace, Sequences

CONSTANT Matrices   \* the matrices the function is called for

Height == 8         \* rows of a matrix
Half   == 4
Width  == 8         \* bits in a lane of the bitset
Lanes  == 16
Lane   == 0 .. Lanes - 1

\* Each byte has its bit in a lane of one of the two vectors.
ASSUME BytesAssumption    == \A x \in Row : ByteOf[x] < 2 * Lanes * Width
ASSUME MatricesAssumption == Matrices \subseteq [0 .. Height - 1 -> Row]

VARIABLES
  matrix,           \* the matrix, its last row in lane 0
  block0, block1,   \* the unions of its lower and of its upper rows
  block,            \* unions of both
  set0, set1,       \* the bytes whose bits are set in the two vectors
  pc, m, r, slice8  \* the loop; masks used, rotations of block1 and of block

vars == <<matrix, block0, block1, block, set0, set1, pc, m, r, slice8>>

FF == 255

\* A list that is shorter than the vector it initialises leaves zero in the rest.
Initialised(list) == [n \in Lane |-> IF n < Len(list) THEN list[n + 1] ELSE 0]

\* For each lane the row that a mask selects there, or FF for none.  The first
\* list has fourteen entries: its mask selects row 0 in lane 14, as in lane 15.
masks ==
  << Initialised(<<FF,  0, FF,  0, FF,  0, FF,  0, FF,  0, FF,  0, FF,  0>>),
     Initialised(<<FF, FF,  1,  1, FF, FF,  1,  1, FF, FF,  1,  1, FF, FF,  1,  1>>),
     Initialised(<<FF, FF, FF, FF,  2,  2,  2,  2, FF, FF, FF, FF,  2,  2,  2,  2>>),
     Initialised(<<FF, FF, FF, FF, FF, FF, FF, FF,  3,  3,  3,  3,  3,  3,  3,  3>>) >>

Zero == [n \in Lane |-> {}]

Init ==
  /\ matrix \in Matrices
  /\ block0 = Zero /\ block1 = Zero /\ block = Zero
  /\ set0 = {} /\ set1 = {}
  /\ pc = "mix" /\ m = 0 /\ r = 0 /\ slice8 = 0

\* Lane n of the rows shuffled by mask j, or by that mask with four or-ed in,
\* which names the row of the upper half and leaves FF alone.  Faulty: nothing
\* or-ed in.
FaultyRead(j, n, upper) ==
  LET row == masks[j + 1][n] IN IF row = FF THEN {} ELSE matrix[row]
Read(j, n, upper) ==
  LET row == masks[j + 1][n]
  IN  IF row = FF THEN {} ELSE matrix[IF upper THEN row + Half ELSE row]
Selected(j, upper) == [n \in Lane |-> Read(j, n, upper)]

Join(a, b) == [n \in Lane |-> a[n] \cup b[n]]

Mix ==
  /\ pc = "mix" /\ m < Half
  /\ block0' = Join(block0, Selected(m, FALSE))
  /\ block1' = Join(block1, Selected(m, TRUE))
  /\ m' = m + 1
  /\ UNCHANGED <<matrix, block, set0, set1, pc, r, slice8>>

right_cycle == [n \in Lane |-> (n + 1) % Lanes]
Cycled(v)   == [n \in Lane |-> v[right_cycle[n]]]

\* A call of row_space_update_bitset with the unions as they meet now.
Call ==
  /\ pc = "mix" /\ m = Half /\ r < Lanes
  /\ block' = Join(block0, block1)
  /\ slice8' = 0
  /\ pc' = "mark"
  /\ UNCHANGED <<matrix, block0, block1, set0, set1, m, r>>

\* The bytes that have their bit in the lane they are in: lane n of set0 is for
\* those from n * Width on, of set1 for those beyond all of set0.
Homed(upper) ==
  {ByteOf[block[n]] : n \in {l \in Lane : ByteOf[block[l]] \div Width = IF upper THEN l + Lanes ELSE l}}

\* One iteration of its loop.
Mark ==
  /\ pc = "mark" /\ slice8 < Lanes
  /\ set0' = set0 \cup Homed(FALSE)
  /\ set1' = set1 \cup Homed(TRUE)
  /\ block' = Cycled(block)
  /\ slice8' = slice8 + 1
  /\ UNCHANGED <<matrix, block0, block1, pc, m, r>>

\* Back in row_space_bitset, block1 is rotated on.  Faulty: both blocks are, and
\* nothing new meets.
FaultyTurn ==
  /\ pc = "mark" /\ slice8 = Lanes
  /\ block1' = Cycled(block1) /\ block0' = Cycled(block0)
  /\ r' = r + 1
  /\ pc' = IF r' = Lanes THEN "done" ELSE "mix"
  /\ UNCHANGED <<matrix, block, set0, set1, m, slice8>>
Turn ==
  /\ pc = "mark" /\ slice8 = Lanes
  /\ block1' = Cycled(block1)
  /\ r' = r + 1
  /\ pc' = IF r' = Lanes THEN "done" ELSE "mix"
  /\ UNCHANGED <<matrix, block0, block, set0, set1, m, slice8>>

Next == Mix \/ Call \/ Mark \/ Turn

Spec == Init /\ [][Next]_vars

-----------------------------------------------------------------------------
TypeOK ==
  /\ matrix \in [0 .. Height - 1 -> Row]
  /\ {block0, block1, block} \subseteq [Lane -> Row]
  /\ set0 \subseteq 0 .. Lanes * Width - 1
  /\ set1 \subseteq Lanes * Width .. 2 * Lanes * Width - 1
  /\ pc \in {"mix", "mark", "done"}
  /\ m \in 0 .. Half /\ r \in 0 .. Lanes /\ slice8 \in 0 .. Lanes

\* The union of the rows that the masks select in lane n from one half.
Part(n, upper) == UNION {Read(j, n, upper) : j \in 0 .. Half - 1}

\* What meets in lane n after d rotations.
Pair(n, d) == Part(n, FALSE) \cup Part((n + d) % Lanes, TRUE)

(***************************************************************************)
(* After r rotations each union of lower rows has met r different unions   *)
(* of upper rows, and the bits of what they make are set, whichever lanes  *)
(* they belong to; no others are.                                          *)
(***************************************************************************)
PairsMet ==
  pc # "mark" =>
    set0 \cup set1 = {ByteOf[Pair(n, d)] : n \in Lane, d \in 0 .. r - 1}

row_space_size_bitset == Cardinality(set0) + Cardinality(set1)

\* The lower rows in L together with the upper rows in U.
Joined(L, U) == (UNION {matrix[j] : j \in L}) \cup (UNION {matrix[j + Half] : j \in U})

\* The sets of rows of one half that some lane selects: rows 1 to 3 never come
\* without row 0.
Selections == (SUBSET (0 .. Half - 1)) \ {{1, 2, 3}}

HoldsExactly(rows) ==
  /\ set0 \cup set1 = {ByteOf[x] : x \in rows}
  /\ row_space_size_bitset = Cardinality(rows)

(***************************************************************************)
(* What the two vectors hold and row_space_size_bitset counts: the unions  *)
(* of rows except those that take rows 1 to 3 of a half without its row 0, *)
(* unless other rows make them too.                                        *)
(***************************************************************************)
BitsAtReturn == pc = "done" => HoldsExactly({Joined(L, U) : L, U \in Selections})

(***************************************************************************)
(* "Returns the the row space of this as 256 bits" (bmat8.hpp 226), and    *)
(* "the cardinality of the row space of this" (231).  It does not.         *)
(***************************************************************************)
RowSpaceAtReturn ==
  pc = "done" => HoldsExactly(Space({matrix[n] : n \in 0 .. Height - 1}))

\* Row 0 of each half adds nothing to the others.
FirstsCovered ==
  /\ matrix[0] \subseteq matrix[1] \cup matrix[2] \cup matrix[3]
  /\ matrix[Half] \subseteq matrix[Half + 1] \cup matrix[Half + 2] \cup matrix[Half + 3]
=============================================================================
