-------------------------- MODULE RowBitsetProofs --------------------------
(***************************************************************************)
(* row_space_bitset sets exactly the bits of the unions its masks select:  *)
(* those of the lower and of the upper rows meet in all pairs, and each    *)
(* byte passes the lane that has its bit.  On the words of 64 bits: the    *)
(* transposes, products and permutations of every matrix are those of its  *)
(* entries.                                                                *)
(***************************************************************************)
EXTENDS MC_RowBitset, FiniteSetTheorems, FunctionTheorems, SequenceTheorems, TLAPS

-----------------------------------------------------------------------------
(* Going round the lanes.                                                  *)

Shifted(n, d) == IF n + d < Lanes THEN n + d ELSE n + d - Lanes

LEMMA ShiftedFacts ==
  /\ \A n \in Lane, d \in 0 .. Lanes : Shifted(n, d) \in Lane
  /\ \A n \in Lane : Shifted(n, 0) = n
  /\ \A n \in Lane, d \in 0 .. Lanes - 1 : Shifted(Shifted(n, 1), d) = Shifted(n, d + 1)
  /\ \A n \in Lane, l \in Lane : \E d \in 0 .. Lanes - 1 : Shifted(n, d) = l
<1> DEFINE L == Lanes
<1>1. L \in Nat \ {0} /\ Lane = 0 .. L - 1
  BY DEF Lane, Lanes
<1>2. \A n, d : Shifted(n, d) = IF n + d < L THEN n + d ELSE n + d - L
  BY DEF Shifted
<1> HIDE DEF L
<1>3. \A n \in Lane, d \in 0 .. L : Shifted(n, d) \in Lane
  BY <1>1, <1>2
<1>4. \A n \in Lane : Shifted(n, 0) = n
  BY <1>1, <1>2
<1>5. \A n \in Lane, d \in 0 .. L - 1 : Shifted(Shifted(n, 1), d) = Shifted(n, d + 1)
  BY <1>1, <1>2
<1>6. ASSUME NEW n \in Lane, NEW l \in Lane PROVE \E d \in 0 .. L - 1 : Shifted(n, d) = l
  <2>1. CASE n <= l
    <3>1. l - n \in 0 .. L - 1 /\ Shifted(n, l - n) = l
      BY <1>1, <1>2, <2>1
    <3> QED BY <3>1
  <2>2. CASE l < n
    <3>1. l - n + L \in 0 .. L - 1 /\ Shifted(n, l - n + L) = l
      BY <1>1, <1>2, <2>2
    <3> QED BY <3>1
  <2> QED BY <1>1, <2>1, <2>2
<1> QED BY <1>3, <1>4, <1>5, <1>6 DEF L

\* The remainders in the module are such shifts.
LEMMA Remainders ==
  /\ \A n \in Lane, d \in 0 .. Lanes - 1 : (n + d) % Lanes = Shifted(n, d)
  /\ \A n \in Lane : right_cycle[n] = Shifted(n, 1)
<1> DEFINE L == Lanes
<1>1. L \in Nat \ {0} /\ Lane = 0 .. L - 1
  BY DEF Lane, Lanes
<1>2. \A n, d : Shifted(n, d) = IF n + d < L THEN n + d ELSE n + d - L
  BY DEF Shifted
<1> HIDE DEF L
<1>3. ASSUME NEW a \in 0 .. L - 1 PROVE a % L = a /\ (a + L) % L = a
  BY <1>1
<1>4. ASSUME NEW a \in 0 .. 2 * L - 1 PROVE a % L = IF a < L THEN a ELSE a - L
  <2>1. CASE a < L
    BY <1>1, <1>3, <2>1
  <2>2. CASE ~(a < L)
    <3>1. a - L \in 0 .. L - 1 /\ (a - L) + L = a
      BY <1>1, <2>2
    <3>2. ((a - L) + L) % L = a - L
      BY <1>3, <3>1
    <3> QED BY <3>1, <3>2, <2>2
  <2> QED BY <2>1, <2>2
<1>5. ASSUME NEW n \in Lane, NEW d \in 0 .. L - 1 PROVE (n + d) % L = Shifted(n, d)
  <2>1. n + d \in 0 .. 2 * L - 1
    BY <1>1
  <2>2. (n + d) % L = IF n + d < L THEN n + d ELSE (n + d) - L
    BY <1>4, <2>1
  <2> QED BY <1>1, <1>2, <2>2
<1>6. ASSUME NEW n \in Lane PROVE right_cycle[n] = Shifted(n, 1)
  <2>1. n + 1 \in 0 .. 2 * L - 1
    BY <1>1
  <2>2. (n + 1) % L = IF n + 1 < L THEN n + 1 ELSE (n + 1) - L
    BY <1>4, <2>1
  <2>3. right_cycle[n] = (n + 1) % L
    BY DEF right_cycle, L
  <2> QED BY <1>1, <1>2, <2>2, <2>3
<1> QED BY <1>5, <1>6 DEF L

\* What Cycled brings to a lane was shifted by one less.
LEMMA CycledFacts ==
  ASSUME NEW w, NEW n \in Lane
  PROVE  Shifted(n, 1) \in Lane /\ Cycled(w)[n] = w[Shifted(n, 1)]
<1>1. 1 \in 0 .. Lanes /\ right_cycle[n] = Shifted(n, 1)
  BY Remainders DEF Lanes
<1>2. Shifted(n, 1) \in Lane
  BY <1>1, ShiftedFacts
<1>3. Cycled(w)[n] = w[right_cycle[n]]
  BY DEF Cycled
<1> QED BY <1>1, <1>2, <1>3

-----------------------------------------------------------------------------
(* The invariant.                                                          *)

\* The union of the rows that the first k masks select in lane n.
Upto(n, k, upper) == UNION {Read(j, n, upper) : j \in 0 .. k - 1}

\* The unions that face each other in lane n after d rotations, and their bytes.
Facing(n, d) == Part(n, FALSE) \cup Part(Shifted(n, d), TRUE)
Met(k)       == {ByteOf[Facing(n, d)] : n \in Lane, d \in 0 .. k - 1}

\* The lane of a byte's bit, and the unions that have passed theirs in this round.
Home(x) == IF ByteOf[x] \div Width < Lanes THEN ByteOf[x] \div Width
                                           ELSE ByteOf[x] \div Width - Lanes
Passed  == {n \in Lane : \E d \in 0 .. slice8 - 1 : Shifted(Home(Facing(n, r)), d) = n}

Ranges ==
  /\ matrix \in [0 .. Height - 1 -> Row]
  /\ block \in [Lane -> Row]
  /\ pc \in {"mix", "mark", "done"}
  /\ m \in 0 .. Half /\ r \in 0 .. Lanes /\ slice8 \in 0 .. Lanes
  /\ \A b \in set0 : b \in Nat /\ b \div Width < Lanes
  /\ \A b \in set1 : b \in Nat /\ ~(b \div Width < Lanes)

\* Where the unions are.
Places ==
  /\ m < Half => pc = "mix" /\ r = 0
  /\ \A n \in Lane : block0[n] = Upto(n, m, FALSE) /\ block1[n] = Upto(Shifted(n, r), m, TRUE)
  /\ pc = "mark" => r < Lanes /\ \A n \in Lane : block[n] = Facing(Shifted(n, slice8), r)
  /\ pc = "done" => r = Lanes

\* Which bits are set.
BitsSet ==
  set0 \cup set1 =
    IF pc = "mark" THEN Met(r) \cup {ByteOf[Facing(n, r)] : n \in Passed} ELSE Met(r)

IInv == Ranges /\ Places /\ BitsSet

LEMMA HalfFacts == Half \in Nat /\ Height = 2 * Half /\ Lanes \in Nat \ {0} /\ 0 \in Lane
BY DEF Half, Height, Lanes, Lane

\* A byte has its bit in one of the two vectors.
LEMMA RowBytes ==
  ASSUME NEW x \in Row
  PROVE  ByteOf[x] \in Nat /\ ByteOf[x] \div Width \in 0 .. 2 * Lanes - 1
<1>1. ByteOf[x] \in Nat /\ ByteOf[x] < 256
  BY ByteOfAssumption, BytesAssumption DEF Lanes, Width
<1>2. ByteOf[x] \div 8 \in 0 .. 31
  BY <1>1
<1> QED BY <1>1, <1>2 DEF Lanes, Width

\* Mask j selects row j or nothing.
LEMMA MaskEntries ==
  \A n \in Lane :
    /\ masks[1][n] = IF n \in {1, 3, 5, 7, 9, 11, 13, 14, 15} THEN 0 ELSE FF
    /\ masks[2][n] = IF n \in {2, 3, 6, 7, 10, 11, 14, 15} THEN 1 ELSE FF
    /\ masks[3][n] = IF n \in {4, 5, 6, 7, 12, 13, 14, 15} THEN 2 ELSE FF
    /\ masks[4][n] = IF n \in {8, 9, 10, 11, 12, 13, 14, 15} THEN 3 ELSE FF
<1> SUFFICES ASSUME NEW n \in Lane
             PROVE  /\ masks[1][n] = IF n \in {1, 3, 5, 7, 9, 11, 13, 14, 15} THEN 0 ELSE FF
                    /\ masks[2][n] = IF n \in {2, 3, 6, 7, 10, 11, 14, 15} THEN 1 ELSE FF
                    /\ masks[3][n] = IF n \in {4, 5, 6, 7, 12, 13, 14, 15} THEN 2 ELSE FF
                    /\ masks[4][n] = IF n \in {8, 9, 10, 11, 12, 13, 14, 15} THEN 3 ELSE FF
  OBVIOUS
<1>1. n \in 0 .. 15
  BY DEF Lane, Lanes
<1>2. masks[1][n] = IF n \in {1, 3, 5, 7, 9, 11, 13, 14, 15} THEN 0 ELSE FF
  BY <1>1 DEF masks, Initialised
<1>3. masks[2][n] = IF n \in {2, 3, 6, 7, 10, 11, 14, 15} THEN 1 ELSE FF
  BY <1>1 DEF masks, Initialised
<1>4. masks[3][n] = IF n \in {4, 5, 6, 7, 12, 13, 14, 15} THEN 2 ELSE FF
  BY <1>1 DEF masks, Initialised
<1>5. masks[4][n] = IF n \in {8, 9, 10, 11, 12, 13, 14, 15} THEN 3 ELSE FF
  BY <1>1 DEF masks, Initialised
<1> QED BY <1>2, <1>3, <1>4, <1>5

\* The rows of a half that lane n is given.
Taken(n) == {j \in 0 .. Half - 1 : masks[j + 1][n] # FF}

LEMMA SelectedIs ==
  ASSUME NEW n \in Lane, NEW j \in 0 .. Half - 1, NEW upper
  PROVE  Read(j, n, upper) = IF j \in Taken(n) THEN matrix[IF upper THEN j + Half ELSE j] ELSE {}
<1>1. masks[j + 1][n] = j \/ masks[j + 1][n] = FF
  <2>1. j = 0 \/ j = 1 \/ j = 2 \/ j = 3
    BY DEF Half
  <2>2. /\ 0 + 1 = 1 /\ 1 + 1 = 2 /\ 2 + 1 = 3 /\ 3 + 1 = 4
    OBVIOUS
  <2> QED BY <2>1, <2>2, MaskEntries
<1>2. FF # j
  BY DEF FF, Half
<1> QED BY <1>1, <1>2 DEF Read, Taken

\* Lane 14 has rows 1 to 3, and row 0 as well.
LEMMA TakenSets == {Taken(n) : n \in Lane} = Selections
<1>1. ASSUME NEW n \in Lane
      PROVE  /\ Taken(n) \in SUBSET (0 .. 3)
             /\ 0 \in Taken(n) <=> n \in {1, 3, 5, 7, 9, 11, 13, 14, 15}
             /\ 1 \in Taken(n) <=> n \in {2, 3, 6, 7, 10, 11, 14, 15}
             /\ 2 \in Taken(n) <=> n \in {4, 5, 6, 7, 12, 13, 14, 15}
             /\ 3 \in Taken(n) <=> n \in {8, 9, 10, 11, 12, 13, 14, 15}
  <2>1. /\ 0 + 1 = 1 /\ 1 + 1 = 2 /\ 2 + 1 = 3 /\ 3 + 1 = 4
        /\ {0, 1, 2, 3} \subseteq 0 .. 3
    OBVIOUS
  <2>2. 0 # FF /\ 1 # FF /\ 2 # FF /\ 3 # FF /\ Half - 1 = 3
    BY DEF FF, Half
  <2> QED BY <2>1, <2>2, MaskEntries DEF Taken
<1>2. ASSUME NEW n \in Lane PROVE Taken(n) \in Selections
  <2>1. n \in 0 .. 15
    BY DEF Lane, Lanes
  <2>2. 1 \in Taken(n) /\ 2 \in Taken(n) /\ 3 \in Taken(n) => 0 \in Taken(n)
    BY <1>1, <2>1
  <2>3. Taken(n) # {1, 2, 3}
    BY <2>2
  <2> QED BY <1>1, <2>3 DEF Selections, Half
<1>3. ASSUME NEW S \in Selections PROVE \E n \in Lane : S = Taken(n)
  <2>1. S \in SUBSET (0 .. 3) /\ S # {1, 2, 3}
    BY DEF Selections, Half
  <2>2. 1 \in S /\ 2 \in S /\ 3 \in S => 0 \in S
    <3> SUFFICES ASSUME 1 \in S, 2 \in S, 3 \in S, 0 \notin S PROVE FALSE
      OBVIOUS
    <3>1. \A j \in 0 .. 3 : j = 0 \/ j = 1 \/ j = 2 \/ j = 3
      OBVIOUS
    <3>2. \A j \in S : j = 1 \/ j = 2 \/ j = 3
      BY <2>1, <3>1
    <3>3. S = {1, 2, 3}
      BY <3>2
    <3> QED BY <2>1, <3>3
  <2> DEFINE n == (IF 0 \in S THEN 1 ELSE 0) + (IF 1 \in S THEN 2 ELSE 0)
                    + (IF 2 \in S THEN 4 ELSE 0) + (IF 3 \in S THEN 8 ELSE 0)
  <2>3. /\ n \in 0 .. 15
        /\ 0 \in S <=> n \in {1, 3, 5, 7, 9, 11, 13, 14, 15}
        /\ 1 \in S <=> n \in {2, 3, 6, 7, 10, 11, 14, 15}
        /\ 2 \in S <=> n \in {4, 5, 6, 7, 12, 13, 14, 15}
        /\ 3 \in S <=> n \in {8, 9, 10, 11, 12, 13, 14, 15}
    BY <2>2
  <2>4. n \in Lane
    BY <2>3 DEF Lane, Lanes
  <2> HIDE DEF n
  <2>5. Taken(n) \in SUBSET (0 .. 3) /\ \A j \in {0, 1, 2, 3} : j \in S <=> j \in Taken(n)
    BY <1>1, <2>3, <2>4
  <2>6. S = Taken(n)
    <3>1. \A j \in 0 .. 3 : j \in {0, 1, 2, 3}
      OBVIOUS
    <3>2. \A j \in 0 .. 3 : j \in S <=> j \in Taken(n)
      BY <2>5, <3>1, Zenon
    <3>3. S \subseteq 0 .. 3 /\ Taken(n) \subseteq 0 .. 3
      BY <2>1, <2>5
    <3> QED BY <3>2, <3>3, Zenon
  <2> QED BY <2>4, <2>6
<1> QED BY <1>2, <1>3

\* The unions are rows.
LEMMA FacingFacts ==
  ASSUME matrix \in [0 .. Height - 1 -> Row]
  PROVE  /\ \A n \in Lane, k \in 0 .. Half : \A upper : Upto(n, k, upper) \in Row
         /\ \A n \in Lane, d \in 0 .. Lanes : Facing(n, d) \in Row
         /\ \A n \in Lane, d \in 0 .. Lanes : Home(Facing(n, d)) \in Lane
<1>1. ASSUME NEW n \in Lane, NEW k \in 0 .. Half, NEW upper PROVE Upto(n, k, upper) \in Row
  <2>1. ASSUME NEW j \in 0 .. k - 1 PROVE Read(j, n, upper) \in Row
    <3>1. j \in 0 .. Half - 1 /\ j + Half \in 0 .. Height - 1 /\ j \in 0 .. Height - 1
      BY HalfFacts
    <3>2. matrix[IF upper THEN j + Half ELSE j] \in Row /\ {} \in Row
      BY <3>1 DEF Row
    <3> QED BY <3>1, <3>2, SelectedIs
  <2> QED BY <2>1 DEF Upto, Row
<1>2. \A n, upper : Part(n, upper) = Upto(n, Half, upper)
  BY DEF Part, Upto
<1>3. Half \in 0 .. Half
  BY HalfFacts
<1>4. ASSUME NEW n \in Lane, NEW d \in 0 .. Lanes PROVE Facing(n, d) \in Row
  <2>1. Shifted(n, d) \in Lane
    BY ShiftedFacts
  <2>2. Part(n, FALSE) \in Row /\ Part(Shifted(n, d), TRUE) \in Row
    BY <1>1, <1>2, <1>3, <2>1
  <2> QED BY <2>2 DEF Facing, Row
<1>5. ASSUME NEW x \in Row PROVE Home(x) \in Lane
  <2>1. ByteOf[x] \div Width \in 0 .. 2 * Lanes - 1
    BY RowBytes
  <2> QED BY <2>1, HalfFacts DEF Home, Lane
<1> QED BY <1>1, <1>4, <1>5

LEMMA InitIInv == Init => IInv
<1> SUFFICES ASSUME Init PROVE IInv
  OBVIOUS
<1>1. Zero \in [Lane -> Row] /\ \A n \in Lane : Zero[n] = {}
  BY DEF Zero, Row
<1>2. Ranges
  BY <1>1, HalfFacts, MatricesAssumption DEF Init, Ranges
<1>3. \A n, upper : Upto(n, 0, upper) = {}
  BY DEF Upto
<1>4. Places
  BY <1>1, <1>3 DEF Init, Places
<1>5. Met(0) = {}
  BY DEF Met
<1> QED BY <1>2, <1>4, <1>5 DEF Init, IInv, BitsSet

LEMMA UnionOne ==
  ASSUME NEW A, NEW x
  PROVE  UNION (A \cup {x}) = (UNION A) \cup x
OBVIOUS

\* A mask adds its row to the lanes that it selects.
LEMMA MixIInv == IInv /\ Mix => IInv'
<1> SUFFICES ASSUME IInv, Mix PROVE IInv'
  OBVIOUS
<1>0. /\ Ranges /\ Places /\ BitsSet /\ pc = "mix" /\ m < Half /\ m' = m + 1
      /\ block0' = Join(block0, Selected(m, FALSE)) /\ block1' = Join(block1, Selected(m, TRUE))
      /\ UNCHANGED <<matrix, block, set0, set1, pc, r, slice8>>
  BY DEF IInv, Mix
<1>1. m \in Nat /\ r = 0
  BY <1>0, HalfFacts DEF Ranges, Places
<1>2. ASSUME NEW n, NEW upper
      PROVE  Upto(n, m + 1, upper) = Upto(n, m, upper) \cup Read(m, n, upper)
  <2> DEFINE A == {Read(j, n, upper) : j \in 0 .. m - 1}
             B == {Read(j, n, upper) : j \in 0 .. (m + 1) - 1}
             row == Read(m, n, upper)
  <2>1. (0 .. (m + 1) - 1) = (0 .. m - 1) \cup {m}
    BY <1>0, <1>1
  <2>2. B = A \cup {row}
    BY <2>1
  <2>3. Upto(n, m, upper) = UNION A /\ Upto(n, m + 1, upper) = UNION B
    BY DEF Upto
  <2> HIDE DEF A, B, row
  <2>4. UNION (A \cup {row}) = (UNION A) \cup row
    BY UnionOne
  <2>5. Upto(n, m + 1, upper) = Upto(n, m, upper) \cup row
    BY <2>2, <2>3, <2>4
  <2> QED BY <2>5 DEF row
<1>3. ASSUME NEW n \in Lane
      PROVE  block0'[n] = Upto(n, m + 1, FALSE) /\ block1'[n] = Upto(n, m + 1, TRUE)
  <2>1. block0[n] = Upto(n, m, FALSE) /\ block1[n] = Upto(n, m, TRUE)
    BY <1>0, <1>1, ShiftedFacts DEF Places
  <2>2. /\ block0'[n] = block0[n] \cup Read(m, n, FALSE)
        /\ block1'[n] = block1[n] \cup Read(m, n, TRUE)
    BY <1>0, <1>1 DEF Join, Selected
  <2> QED BY <1>2, <2>1, <2>2
<1>4. Ranges'
  BY <1>0, <1>1, HalfFacts DEF Ranges
<1>5. Places'
  <2>1. \A n \in Lane : Upto(n, m, FALSE)' = Upto(n, m + 1, FALSE)
                        /\ Upto(Shifted(n, r), m, TRUE)' = Upto(Shifted(n, 0), m + 1, TRUE)
    BY <1>0, <1>1 DEF Upto, Read, Shifted
  <2>2. \A n \in Lane : block0'[n] = Upto(n, m, FALSE)' /\ block1'[n] = Upto(Shifted(n, r), m, TRUE)'
    BY <1>3, <2>1, ShiftedFacts
  <2> QED BY <1>0, <1>1, <2>2 DEF Places
<1>6. BitsSet'
  BY <1>0, <1>1 DEF BitsSet, Met, Facing, Part, Read
<1> QED BY <1>4, <1>5, <1>6 DEF IInv

LEMMA CallIInv == IInv /\ Call => IInv'
<1> SUFFICES ASSUME IInv, Call PROVE IInv'
  OBVIOUS
<1>1. /\ Ranges /\ Places /\ BitsSet /\ pc = "mix" /\ m = Half /\ r < Lanes
      /\ block' = Join(block0, block1) /\ slice8' = 0 /\ pc' = "mark"
      /\ UNCHANGED <<matrix, block0, block1, set0, set1, m, r>>
  BY DEF IInv, Call
<1>2. ASSUME NEW n \in Lane PROVE block'[n] = Facing(n, r)
  <2>1. block'[n] = block0[n] \cup block1[n]
    BY <1>1 DEF Join
  <2>2. block0[n] = Upto(n, Half, FALSE) /\ block1[n] = Upto(Shifted(n, r), Half, TRUE)
    BY <1>1 DEF Places
  <2> QED BY <2>1, <2>2 DEF Facing, Part, Upto
<1>3. Ranges'
  <2>1. block' \in [Lane -> Row]
    <3>1. \A n \in Lane : block'[n] \in Row
      BY <1>1, <1>2, FacingFacts DEF Ranges
    <3> QED BY <1>1, <3>1 DEF Join
  <2> QED BY <1>1, <2>1, HalfFacts DEF Ranges
<1>4. Places'
  <2>1. \A n \in Lane : block'[n] = Facing(Shifted(n, 0), r)
    BY <1>2, ShiftedFacts
  <2>2. \A n \in Lane : Facing(Shifted(n, slice8), r)' = Facing(Shifted(n, 0), r)
    BY <1>1 DEF Facing, Part, Read, Shifted
  <2>3. \A n \in Lane : block0[n] = Upto(n, m, FALSE)' /\ block1[n] = Upto(Shifted(n, r), m, TRUE)'
    BY <1>1 DEF Upto, Read, Shifted, Places
  <2>4. ~(m' < Half) /\ pc' = "mark" /\ r' < Lanes
    BY <1>1, HalfFacts
  <2>5. \A n \in Lane : block'[n] = Facing(Shifted(n, slice8), r)'
    BY <2>1, <2>2
  <2> QED BY <1>1, <2>3, <2>4, <2>5 DEF Places
<1>5. BitsSet'
  <2>1. Passed' = {}
    BY <1>1 DEF Passed
  <2>2. Met(r)' = Met(r)
    BY <1>1 DEF Met, Facing, Part, Read
  <2> QED BY <1>1, <2>1, <2>2 DEF BitsSet
<1> QED BY <1>3, <1>4, <1>5 DEF IInv

\* The bits that one iteration sets are those of the unions in their lanes.
LEMMA MarkIInv == IInv /\ Mark => IInv'
<1> SUFFICES ASSUME IInv, Mark PROVE IInv'
  OBVIOUS
<1>1. /\ Ranges /\ Places /\ BitsSet /\ pc = "mark" /\ slice8 \in Nat /\ slice8 < Lanes
      /\ set0' = set0 \cup Homed(FALSE) /\ set1' = set1 \cup Homed(TRUE)
      /\ block' = Cycled(block) /\ slice8' = slice8 + 1
      /\ UNCHANGED <<matrix, block0, block1, pc, m, r>>
  BY HalfFacts DEF IInv, Mark, Ranges
<1>2. /\ slice8 \in 0 .. Lanes - 1
      /\ \A n \in Lane : block[n] \in Row /\ block[n] = Facing(Shifted(n, slice8), r)
  BY <1>1, HalfFacts DEF Ranges, Places
<1>3. \A x \in Row : ByteOf[x] \in Nat /\ ByteOf[x] \div Width \in 0 .. 2 * Lanes - 1
  BY RowBytes
<1>4. /\ \A b \in Homed(FALSE) : b \in Nat /\ b \div Width < Lanes
      /\ \A b \in Homed(TRUE) : b \in Nat /\ ~(b \div Width < Lanes)
  <2>1. \A l \in Lane : l < Lanes /\ ~(l + Lanes < Lanes)
    BY HalfFacts DEF Lane
  <2> QED BY <1>2, <1>3, <2>1 DEF Homed
<1>5. ASSUME NEW n \in Lane PROVE block'[n] = Facing(Shifted(n, slice8 + 1), r)
  <2>1. Shifted(n, 1) \in Lane /\ block'[n] = block[Shifted(n, 1)]
    BY <1>1, CycledFacts
  <2>2. Shifted(Shifted(n, 1), slice8) = Shifted(n, slice8 + 1)
    BY <1>2, ShiftedFacts
  <2> QED BY <1>2, <2>1, <2>2
<1>6. Ranges'
  <2>1. block' \in [Lane -> Row]
    <3>1. ASSUME NEW n \in Lane PROVE block'[n] \in Row
      <4>1. slice8 + 1 \in 0 .. Lanes /\ r \in 0 .. Lanes
        BY <1>2, HalfFacts, <1>1 DEF Ranges
      <4>2. Shifted(n, slice8 + 1) \in Lane
        BY <4>1, ShiftedFacts
      <4>3. Facing(Shifted(n, slice8 + 1), r) \in Row
        BY <1>1, <4>1, <4>2, FacingFacts DEF Ranges
      <4> QED BY <1>5, <4>3
    <3> QED BY <1>1, <3>1 DEF Cycled
  <2>2. slice8' \in 0 .. Lanes
    BY <1>1, HalfFacts
  <2> QED BY <1>1, <1>4, <2>1, <2>2 DEF Ranges
<1>7. Places'
  <2>1. \A n \in Lane : Facing(Shifted(n, slice8), r)' = Facing(Shifted(n, slice8 + 1), r)
    BY <1>1 DEF Facing, Part, Read, Shifted
  <2>2. \A n \in Lane : Upto(n, m, FALSE)' = Upto(n, m, FALSE)
                        /\ Upto(Shifted(n, r), m, TRUE)' = Upto(Shifted(n, r), m, TRUE)
    BY <1>1 DEF Upto, Read, Shifted
  <2>3. \A n \in Lane : block'[n] = Facing(Shifted(n, slice8), r)'
    BY <1>5, <2>1
  <2> QED BY <1>1, <2>2, <2>3 DEF Places
<1>8. Homed(FALSE) \cup Homed(TRUE) = {ByteOf[block[l]] : l \in {n \in Lane : Home(block[n]) = n}}
  <2>1. ASSUME NEW l \in Lane
        PROVE  Home(block[l]) = l <=> \/ ByteOf[block[l]] \div Width = l
                                      \/ ByteOf[block[l]] \div Width = l + Lanes
    <3>1. ByteOf[block[l]] \div Width \in 0 .. 2 * Lanes - 1
      BY <1>2, <1>3
    <3> QED BY <3>1, HalfFacts DEF Home, Lane
  <2> QED BY <2>1 DEF Homed
<1>9. Passed' = Passed \cup {n \in Lane : Shifted(Home(Facing(n, r)), slice8) = n}
  <2>1. 0 .. slice8' - 1 = (0 .. slice8 - 1) \cup {slice8}
    BY <1>1
  <2>2. \A n, d : Shifted(Home(Facing(n, r)), d)' = Shifted(Home(Facing(n, r)), d)
    BY <1>1 DEF Facing, Part, Read, Shifted, Home
  <2>3. Passed' = {n \in Lane : \E d \in 0 .. slice8' - 1 : Shifted(Home(Facing(n, r)), d) = n}
    BY <2>2 DEF Passed
  <2> QED BY <2>1, <2>3 DEF Passed
<1>10. {ByteOf[block[l]] : l \in {n \in Lane : Home(block[n]) = n}}
         = {ByteOf[Facing(n, r)] : n \in {l \in Lane : Shifted(Home(Facing(l, r)), slice8) = l}}
  <2>1. ASSUME NEW l \in Lane, Home(block[l]) = l
        PROVE  /\ Shifted(l, slice8) \in Lane
               /\ block[l] = Facing(Shifted(l, slice8), r)
               /\ Shifted(Home(Facing(Shifted(l, slice8), r)), slice8) = Shifted(l, slice8)
    <3>1. slice8 \in 0 .. Lanes
      BY <1>1, HalfFacts
    <3>2. Shifted(l, slice8) \in Lane
      BY <3>1, ShiftedFacts
    <3>3. block[l] = Facing(Shifted(l, slice8), r)
      BY <1>2
    <3> QED BY <2>1, <3>2, <3>3
  <2>2. ASSUME NEW n \in Lane, Shifted(Home(Facing(n, r)), slice8) = n
        PROVE  /\ Home(Facing(n, r)) \in Lane
               /\ block[Home(Facing(n, r))] = Facing(n, r)
    BY <1>1, <1>2, <2>2, FacingFacts DEF Ranges
  <2> QED BY <2>1, <2>2
<1>11. BitsSet'
  <2>1. set0' \cup set1' = (set0 \cup set1) \cup (Homed(FALSE) \cup Homed(TRUE))
    BY <1>1
  <2>2. set0' \cup set1' = Met(r) \cup {ByteOf[Facing(n, r)] : n \in Passed'}
    BY <1>1, <1>8, <1>9, <1>10, <2>1 DEF BitsSet
  <2>3. /\ Met(r)' = Met(r)
        /\ {ByteOf[Facing(n, r)] : n \in Passed}' = {ByteOf[Facing(n, r)] : n \in Passed'}
    BY <1>1 DEF Met, Facing, Part, Read, Shifted
  <2> QED BY <1>1, <2>2, <2>3 DEF BitsSet
<1> QED BY <1>6, <1>7, <1>11 DEF IInv

LEMMA TurnIInv == IInv /\ Turn => IInv'
<1> SUFFICES ASSUME IInv, Turn PROVE IInv'
  OBVIOUS
<1>1. /\ Ranges /\ Places /\ BitsSet /\ pc = "mark" /\ slice8 = Lanes /\ ~(m < Half)
      /\ r \in Nat /\ r < Lanes /\ block1' = Cycled(block1) /\ r' = r + 1
      /\ pc' = IF r' = Lanes THEN "done" ELSE "mix"
      /\ UNCHANGED <<matrix, block0, block, set0, set1, m, slice8>>
  <2>1. /\ Ranges /\ Places /\ BitsSet /\ pc = "mark" /\ slice8 = Lanes
        /\ block1' = Cycled(block1) /\ r' = r + 1
        /\ pc' = IF r' = Lanes THEN "done" ELSE "mix"
        /\ UNCHANGED <<matrix, block0, block, set0, set1, m, slice8>>
    BY DEF IInv, Turn
  <2>2. r \in Nat
    BY <2>1, HalfFacts DEF Ranges
  <2>3. ~(m < Half) /\ r < Lanes
    BY <2>1 DEF Places
  <2> QED BY <2>1, <2>2, <2>3
<1>2. Passed = Lane
  <2>1. ASSUME NEW n \in Lane PROVE \E d \in 0 .. Lanes - 1 : Shifted(Home(Facing(n, r)), d) = n
    <3>1. Home(Facing(n, r)) \in Lane
      BY <1>1, FacingFacts DEF Ranges
    <3> QED BY <3>1, ShiftedFacts
  <2> QED BY <1>1, <2>1 DEF Passed
<1>3. Met(r + 1) = Met(r) \cup {ByteOf[Facing(n, r)] : n \in Lane}
  <2>1. 0 .. (r + 1) - 1 = (0 .. r - 1) \cup {r}
    BY <1>1
  <2> QED BY <2>1 DEF Met
<1>4. Ranges'
  BY <1>1, HalfFacts DEF Ranges
<1>5. ASSUME NEW n \in Lane PROVE block1'[n] = Upto(Shifted(n, r + 1), m, TRUE)
  <2>1. Shifted(n, 1) \in Lane /\ block1'[n] = block1[Shifted(n, 1)]
    BY <1>1, CycledFacts
  <2>2. r \in 0 .. Lanes - 1
    BY <1>1, HalfFacts
  <2>3. Shifted(Shifted(n, 1), r) = Shifted(n, r + 1)
    BY <2>2, ShiftedFacts
  <2> QED BY <1>1, <2>1, <2>3 DEF Places
<1>6. Places'
  <2>1. \A n \in Lane : Upto(n, m, FALSE)' = Upto(n, m, FALSE)
                        /\ Upto(Shifted(n, r), m, TRUE)' = Upto(Shifted(n, r + 1), m, TRUE)
    BY <1>1 DEF Upto, Read, Shifted
  <2>2. \A n \in Lane : block0'[n] = Upto(n, m, FALSE)' /\ block1'[n] = Upto(Shifted(n, r), m, TRUE)'
    BY <1>1, <1>5, <2>1 DEF Places
  <2> QED BY <1>1, <2>2 DEF Places
<1>7. BitsSet'
  <2>1. Met(r)' = Met(r + 1)
    BY <1>1 DEF Met, Facing, Part, Read, Shifted
  <2> QED BY <1>1, <1>2, <1>3, <2>1 DEF BitsSet
<1> QED BY <1>4, <1>6, <1>7 DEF IInv

LEMMA NextIInv == IInv /\ [Next]_vars => IInv'
<1> SUFFICES ASSUME IInv, [Next]_vars PROVE IInv'
  OBVIOUS
<1>1. CASE Mix
  BY <1>1, MixIInv
<1>2. CASE Call
  BY <1>2, CallIInv
<1>3. CASE Mark
  BY <1>3, MarkIInv
<1>4. CASE Turn
  BY <1>4, TurnIInv
<1>5. CASE UNCHANGED vars
  <2>1. UNCHANGED <<matrix, block0, block1, block, set0, set1, pc, m, r, slice8>>
    BY <1>5 DEF vars
  <2>2. Ranges' = Ranges
    BY <2>1 DEF Ranges
  <2>3. Places' = Places
    BY <2>1 DEF Places, Upto, Facing, Part, Read, Shifted
  <2>4. BitsSet' = BitsSet
    BY <2>1 DEF BitsSet, Met, Passed, Facing, Part, Read, Shifted, Home
  <2> QED BY <2>2, <2>3, <2>4 DEF IInv
<1> QED BY <1>1, <1>2, <1>3, <1>4, <1>5 DEF Next

LEMMA Invariance == Spec => []IInv
<1> QED BY InitIInv, NextIInv, PTL DEF Spec

-----------------------------------------------------------------------------
(* What is shown.                                                          *)

\* After each rotation of the outer loop exactly the bits of the pairs of unions
\* that have faced each other are set, each in whatever lane it belongs to.
THEOREM PairsAreMet == Spec => []PairsMet
<1>1. IInv => PairsMet
  <2>1. IInv /\ pc # "mark" => set0 \cup set1 = Met(r) /\ r \in 0 .. Lanes
    BY DEF IInv, BitsSet, Ranges
  <2>2. ASSUME IInv, NEW n \in Lane, NEW d \in 0 .. r - 1 PROVE Facing(n, d) = Pair(n, d)
    <3>1. r \in 0 .. Lanes
      BY <2>2 DEF IInv, Ranges
    <3>2. d \in 0 .. Lanes - 1
      BY <3>1, HalfFacts
    <3>3. (n + d) % Lanes = Shifted(n, d)
      BY <3>2, Remainders
    <3> QED BY <3>3 DEF Facing, Pair
  <2>3. IInv => Met(r) = {ByteOf[Pair(n, d)] : n \in Lane, d \in 0 .. r - 1}
    BY <2>2 DEF Met
  <2> QED BY <2>1, <2>3 DEF PairsMet
<1> QED BY <1>1, Invariance, PTL

\* The pairs make up what is joined of two selections.
LEMMA AllPairs ==
  {Facing(n, d) : n \in Lane, d \in 0 .. Lanes - 1} = {Joined(L, U) : L, U \in Selections}
<1>1. ASSUME NEW n \in Lane
      PROVE  /\ Part(n, FALSE) = UNION {matrix[j] : j \in Taken(n)}
             /\ Part(n, TRUE) = UNION {matrix[j + Half] : j \in Taken(n)}
  <2>1. \A j \in 0 .. Half - 1 : /\ Read(j, n, FALSE) = IF j \in Taken(n) THEN matrix[j] ELSE {}
                                 /\ Read(j, n, TRUE) = IF j \in Taken(n) THEN matrix[j + Half] ELSE {}
    BY SelectedIs
  <2>2. Taken(n) \subseteq 0 .. Half - 1
    BY DEF Taken
  <2>3. UNION {Read(j, n, FALSE) : j \in 0 .. Half - 1} = UNION {matrix[j] : j \in Taken(n)}
    BY <2>1, <2>2
  <2>4. UNION {Read(j, n, TRUE) : j \in 0 .. Half - 1} = UNION {matrix[j + Half] : j \in Taken(n)}
    BY <2>1, <2>2
  <2> QED BY <2>3, <2>4 DEF Part
<1>2. ASSUME NEW n \in Lane, NEW d \in 0 .. Lanes - 1
      PROVE  Facing(n, d) = Joined(Taken(n), Taken(Shifted(n, d)))
  <2>1. Shifted(n, d) \in Lane
    <3>1. d \in 0 .. Lanes
      BY HalfFacts
    <3> QED BY <3>1, ShiftedFacts
  <2> QED BY <1>1, <2>1 DEF Facing, Joined
<1>3. ASSUME NEW n \in Lane, NEW d \in 0 .. Lanes - 1
      PROVE  Facing(n, d) \in {Joined(L, U) : L, U \in Selections}
  <2>1. Shifted(n, d) \in Lane
    <3>1. d \in 0 .. Lanes
      BY HalfFacts
    <3> QED BY <3>1, ShiftedFacts
  <2>2. Taken(n) \in Selections /\ Taken(Shifted(n, d)) \in Selections
    BY <2>1, TakenSets
  <2> QED BY <1>2, <2>2
<1>4. ASSUME NEW L \in Selections, NEW U \in Selections
      PROVE  \E n \in Lane, d \in 0 .. Lanes - 1 : Joined(L, U) = Facing(n, d)
  <2>1. PICK n \in Lane : L = Taken(n)
    BY TakenSets
  <2>2. PICK l \in Lane : U = Taken(l)
    BY TakenSets
  <2>3. PICK d \in 0 .. Lanes - 1 : Shifted(n, d) = l
    BY ShiftedFacts
  <2> QED BY <1>2, <2>1, <2>2, <2>3
<1>5. {Facing(n, d) : n \in Lane, d \in 0 .. Lanes - 1} \subseteq {Joined(L, U) : L, U \in Selections}
  BY <1>3
<1>6. {Joined(L, U) : L, U \in Selections} \subseteq {Facing(n, d) : n \in Lane, d \in 0 .. Lanes - 1}
  BY <1>4
<1> QED BY <1>5, <1>6

\* Two disjoint sets of bytes that together are those of some rows count them.
LEMMA CountsRows ==
  ASSUME NEW held \in SUBSET Row, set0 \cup set1 = {ByteOf[x] : x \in held}, set0 \cap set1 = {}
  PROVE  HoldsExactly(held)
<1> DEFINE bytes == {ByteOf[x] : x \in held}
           f == [x \in held |-> ByteOf[x]]
<1>1. IsFiniteSet(held)
  <2>1. IsFiniteSet(Row)
    BY ColumnsAssumption, FS_SUBSET DEF Row
  <2> QED BY <2>1, FS_Subset
<1>2. f \in Bijection(held, bytes)
  <2>1. f \in [held -> bytes]
    OBVIOUS
  <2>2. \A x, y \in held : f[x] = f[y] => x = y
    BY ByteOfAssumption
  <2>3. \A b \in bytes : \E x \in held : f[x] = b
    OBVIOUS
  <2> HIDE DEF f, bytes
  <2> QED BY <2>1, <2>2, <2>3, Fun_IsBij
<1>3. set0 \cup set1 = bytes
  OBVIOUS
<1> HIDE DEF f, bytes
<1>4. IsFiniteSet(bytes) /\ Cardinality(bytes) = Cardinality(held)
  BY <1>1, <1>2, FS_Bijection, Fun_ExistsBij
<1>5. IsFiniteSet(set0) /\ IsFiniteSet(set1)
  BY <1>3, <1>4, FS_Subset
<1>6. Cardinality(set0 \cup set1) = Cardinality(set0) + Cardinality(set1) - Cardinality(set0 \cap set1)
  BY <1>5, FS_Union
<1>7. Cardinality(set0) \in Nat /\ Cardinality(set1) \in Nat
  BY <1>5, FS_CardinalityType
<1>8. Cardinality(set0 \cap set1) = 0
  BY FS_EmptySet
<1>9. row_space_size_bitset = Cardinality(set0 \cup set1)
  BY <1>6, <1>7, <1>8 DEF row_space_size_bitset
<1>10. row_space_size_bitset = Cardinality(held)
  BY <1>3, <1>4, <1>9
<1> QED BY <1>10 DEF HoldsExactly

\* A selection of rows of a half names rows of the matrix.
LEMMA JoinedRows ==
  ASSUME matrix \in [0 .. Height - 1 -> Row]
  PROVE  \A L, U \in SUBSET (0 .. Half - 1) :
           Joined(L, U) \in Space({matrix[n] : n \in 0 .. Height - 1})
<1> DEFINE given == {matrix[n] : n \in 0 .. Height - 1}
<1>1. \A j \in 0 .. Half - 1 : matrix[j] \in given /\ matrix[j + Half] \in given
  <2>1. \A j \in 0 .. Half - 1 : j \in 0 .. Height - 1 /\ j + Half \in 0 .. Height - 1
    BY HalfFacts
  <2> QED BY <2>1
<1>2. ASSUME NEW L \in SUBSET (0 .. Half - 1), NEW U \in SUBSET (0 .. Half - 1)
      PROVE  Joined(L, U) \in Space(given)
  <2> DEFINE S == {matrix[j] : j \in L} \cup {matrix[j + Half] : j \in U}
  <2>1. S \in SUBSET given
    BY <1>1
  <2>2. Joined(L, U) = UNION S
    BY DEF Joined
  <2> HIDE DEF S, given
  <2> QED BY <2>1, <2>2 DEF Space
<1> QED BY <1>2

\* A union of rows joins lower rows with upper ones.
LEMMA SpaceIsJoined ==
  ASSUME matrix \in [0 .. Height - 1 -> Row], NEW x \in Space({matrix[n] : n \in 0 .. Height - 1})
  PROVE  \E L, U \in SUBSET (0 .. Half - 1) : x = Joined(L, U)
<1>1. PICK S \in SUBSET {matrix[n] : n \in 0 .. Height - 1} : x = UNION S
  BY DEF Space
<1> DEFINE Lower == {j \in 0 .. Half - 1 : matrix[j] \in S}
           Upper == {j \in 0 .. Half - 1 : matrix[j + Half] \in S}
<1>2. S = {matrix[j] : j \in Lower} \cup {matrix[j + Half] : j \in Upper}
  <2>1. ASSUME NEW y \in S
        PROVE  (\E j \in Lower : y = matrix[j]) \/ (\E j \in Upper : y = matrix[j + Half])
    <3>1. PICK k \in 0 .. Height - 1 : y = matrix[k]
      OBVIOUS
    <3>2. CASE k < Half
      BY <3>1, <3>2, HalfFacts
    <3>3. CASE ~(k < Half)
      <4>1. k - Half \in 0 .. Half - 1 /\ (k - Half) + Half = k
        BY <3>3, HalfFacts
      <4> QED BY <3>1, <4>1
    <3> QED BY <3>2, <3>3
  <2> QED BY <2>1
<1>3. Lower \in SUBSET (0 .. Half - 1) /\ Upper \in SUBSET (0 .. Half - 1)
  OBVIOUS
<1> HIDE DEF Lower, Upper
<1>4. x = Joined(Lower, Upper)
  BY <1>1, <1>2 DEF Joined
<1> QED BY <1>3, <1>4

LEMMA AtReturn ==
  ASSUME IInv, pc = "done"
  PROVE  /\ matrix \in [0 .. Height - 1 -> Row] /\ set0 \cap set1 = {}
         /\ set0 \cup set1 = {ByteOf[x] : x \in {Joined(L, U) : L, U \in Selections}}
<1>1. set0 \cup set1 = Met(Lanes) /\ matrix \in [0 .. Height - 1 -> Row] /\ set0 \cap set1 = {}
  BY DEF IInv, BitsSet, Places, Ranges
<1> DEFINE facing == {Facing(n, d) : n \in Lane, d \in 0 .. Lanes - 1}
<1>2. Met(Lanes) = {ByteOf[x] : x \in facing}
  BY DEF Met
<1>3. facing = {Joined(L, U) : L, U \in Selections}
  BY AllPairs
<1> HIDE DEF facing
<1> QED BY <1>1, <1>2, <1>3

\* Selections join to rows of the space.
LEMMA SelectionsInSpace ==
  ASSUME matrix \in [0 .. Height - 1 -> Row]
  PROVE  /\ {Joined(L, U) : L, U \in Selections} \subseteq Space({matrix[n] : n \in 0 .. Height - 1})
         /\ Space({matrix[n] : n \in 0 .. Height - 1}) \subseteq Row
<1>1. Selections \subseteq SUBSET (0 .. Half - 1)
  BY DEF Selections
<1>2. {matrix[n] : n \in 0 .. Height - 1} \subseteq Row
  OBVIOUS
<1>3. Space({matrix[n] : n \in 0 .. Height - 1}) \subseteq Row
  BY <1>2 DEF Space, Row
<1> QED BY <1>1, <1>3, JoinedRows

\* When row_space_bitset returns, its two vectors hold the bits of the unions that
\* its masks can select, and row_space_size_bitset counts those.
THEOREM ComputesSelectedUnions == Spec => []BitsAtReturn
<1>1. IInv => BitsAtReturn
  <2> SUFFICES ASSUME IInv, pc = "done" PROVE HoldsExactly({Joined(L, U) : L, U \in Selections})
    BY DEF BitsAtReturn
  <2> DEFINE held == {Joined(L, U) : L, U \in Selections}
  <2>1. held \in SUBSET Row
    <3>1. matrix \in [0 .. Height - 1 -> Row]
      BY AtReturn
    <3>2. /\ held \subseteq Space({matrix[n] : n \in 0 .. Height - 1})
          /\ Space({matrix[n] : n \in 0 .. Height - 1}) \subseteq Row
      BY <3>1, SelectionsInSpace
    <3> HIDE DEF held
    <3> QED BY <3>2
  <2>2. set0 \cup set1 = {ByteOf[x] : x \in held} /\ set0 \cap set1 = {}
    BY AtReturn
  <2> HIDE DEF held
  <2>3. HoldsExactly(held)
    BY <2>1, <2>2, CountsRows
  <2> QED BY <2>3 DEF held
<1> QED BY <1>1, Invariance, PTL

\* It is the row space of a matrix where row 0 of each half, the last and the
\* fourth row of the matrix, is covered by the three rows before it.
THEOREM RowSpaceWhenCovered == Spec => [](FirstsCovered => RowSpaceAtReturn)
<1>1. IInv => (FirstsCovered => RowSpaceAtReturn)
  <2> DEFINE given == {matrix[n] : n \in 0 .. Height - 1}
             held == {Joined(L, U) : L, U \in Selections}
             All(S) == IF S = {1, 2, 3} THEN {0, 1, 2, 3} ELSE S
  <2> SUFFICES ASSUME IInv, FirstsCovered, pc = "done" PROVE HoldsExactly(Space(given))
    BY DEF RowSpaceAtReturn
  <2>1. matrix \in [0 .. Height - 1 -> Row]
    BY AtReturn
  <2>2. ASSUME NEW S \in SUBSET (0 .. Half - 1)
        PROVE  /\ All(S) \in Selections
               /\ UNION {matrix[j] : j \in All(S)} = UNION {matrix[j] : j \in S}
               /\ UNION {matrix[j + Half] : j \in All(S)} = UNION {matrix[j + Half] : j \in S}
    <3>1. All(S) \in Selections
      <4>1. {0, 1, 2, 3} \in SUBSET (0 .. Half - 1)
        BY DEF Half
      <4>2. 0 \in {0, 1, 2, 3} /\ 0 \notin {1, 2, 3}
        OBVIOUS
      <4>3. {0, 1, 2, 3} \notin {{1, 2, 3}}
        BY <4>2
      <4>4. CASE S = {1, 2, 3}
        BY <4>1, <4>3, <4>4 DEF Selections
      <4>5. CASE S # {1, 2, 3}
        BY <4>5 DEF Selections
      <4> QED BY <4>4, <4>5
    <3>2. CASE S = {1, 2, 3}
      <4>1. /\ UNION {matrix[j] : j \in {1, 2, 3}} = matrix[1] \cup matrix[2] \cup matrix[3]
            /\ UNION {matrix[j] : j \in {0, 1, 2, 3}}
                 = matrix[0] \cup (matrix[1] \cup matrix[2] \cup matrix[3])
            /\ UNION {matrix[j + Half] : j \in {1, 2, 3}}
                 = matrix[1 + Half] \cup matrix[2 + Half] \cup matrix[3 + Half]
            /\ UNION {matrix[j + Half] : j \in {0, 1, 2, 3}}
                 = matrix[0 + Half] \cup (matrix[1 + Half] \cup matrix[2 + Half] \cup matrix[3 + Half])
        OBVIOUS
      <4>2. 0 + Half = Half /\ 1 + Half = Half + 1 /\ 2 + Half = Half + 2 /\ 3 + Half = Half + 3
        BY HalfFacts
      <4>3. /\ matrix[0] \cup (matrix[1] \cup matrix[2] \cup matrix[3])
                 = matrix[1] \cup matrix[2] \cup matrix[3]
            /\ matrix[0 + Half] \cup (matrix[1 + Half] \cup matrix[2 + Half] \cup matrix[3 + Half])
                 = matrix[1 + Half] \cup matrix[2 + Half] \cup matrix[3 + Half]
        BY <4>2 DEF FirstsCovered
      <4>4. All(S) = {0, 1, 2, 3}
        BY <3>2
      <4> HIDE DEF All
      <4> QED BY <3>1, <3>2, <4>1, <4>3, <4>4
    <3>3. CASE S # {1, 2, 3}
      BY <3>1, <3>3
    <3> QED BY <3>2, <3>3
  <2>3. Space(given) \subseteq held
    <3> SUFFICES ASSUME NEW x \in Space(given) PROVE x \in held
      OBVIOUS
    <3>1. PICK L, U \in SUBSET (0 .. Half - 1) : x = Joined(L, U)
      BY <2>1, SpaceIsJoined
    <3>2. Joined(All(L), All(U)) = Joined(L, U)
      BY <2>2 DEF Joined
    <3>3. All(L) \in Selections /\ All(U) \in Selections
      BY <2>2
    <3> HIDE DEF All
    <3> QED BY <3>1, <3>2, <3>3
  <2>4. held \subseteq Space(given) /\ Space(given) \subseteq Row
    BY <2>1, SelectionsInSpace
  <2>5. set0 \cup set1 = {ByteOf[x] : x \in held} /\ set0 \cap set1 = {}
    BY AtReturn
  <2> HIDE DEF held, given
  <2>6. held = Space(given)
    BY <2>3, <2>4
  <2> QED BY <2>4, <2>5, <2>6, CountsRows
<1> QED BY <1>1, Invariance, PTL

-----------------------------------------------------------------------------
(* Matrices as words.                                                      *)

LEMMA Digits ==
  \A c \in Bits : /\ c \in 0 .. 63 /\ c \div 8 \in 0 .. 7 /\ c % 8 \in 0 .. 7
                  /\ c = 8 * (c \div 8) + (c % 8)
BY Z3 DEF Bits

LEMMA Composed ==
  \A p, q \in 0 .. 7 : /\ 8 * p + q \in Bits
                       /\ (8 * p + q) \div 8 = p
                       /\ (8 * p + q) % 8 = q
BY Z3 DEF Bits

LEMMA Shifts ==
  ASSUME NEW w \in SUBSET Bits, NEW k \in Nat
  PROVE  /\ Shl(w, k) \in SUBSET Bits /\ Shr(w, k) \in SUBSET Bits
         /\ \A c \in Bits : /\ c \in Shl(w, k) <=> c - k \in w
                            /\ c \in Shr(w, k) <=> c + k \in w
<1>1. \A c \in Bits : c \in Shl(w, k) <=> c - k \in w
  BY DEF Shl, Bits
<1>2. \A c \in Bits : c \in Shr(w, k) <=> c + k \in w
  BY DEF Shr, Bits
<1> QED BY <1>1, <1>2 DEF Shl, Shr

\* Entry (i, j) is bit 63 - 8i - j.
LEMMA EntryIs ==
  ASSUME NEW w \in SUBSET Bits, NEW i \in 0 .. 7, NEW j \in 0 .. 7
  PROVE  Entry(w, i, j) <=> 63 - (8 * i + j) \in w
<1>1. 63 \in Bits /\ 8 * i + j \in Nat
  BY DEF Bits
<1> QED BY <1>1, Shifts DEF Entry

\* A matrix is given by its entries.
LEMMA SameEntries ==
  ASSUME NEW w \in SUBSET Bits, NEW u \in SUBSET Bits,
         \A i, j \in 0 .. 7 : Entry(w, i, j) <=> Entry(u, i, j)
  PROVE  w = u
<1>1. ASSUME NEW c \in Bits PROVE c \in w <=> c \in u
  <2>1. PICK i \in 0 .. 7, j \in 0 .. 7 : 63 - (8 * i + j) = c
    <3>1. /\ 7 - (c \div 8) \in 0 .. 7 /\ 7 - (c % 8) \in 0 .. 7
          /\ 63 - (8 * (7 - (c \div 8)) + (7 - (c % 8))) = c
      BY Digits
    <3> QED BY <3>1
  <2> QED BY <2>1, EntryIs
<1> QED BY <1>1

\* The bit on the other side of the diagonal.
Across(c) == 8 * (c % 8) + (c \div 8)

LEMMA AcrossFacts ==
  /\ \A c \in Bits : Across(c) \in Bits
  /\ \A i, j \in 0 .. 7 : Across(63 - (8 * i + j)) = 63 - (8 * j + i)
  /\ \A p, q \in 0 .. 7 : Across(8 * p + q) = 8 * q + p
<1>1. \A c \in Bits : Across(c) \in Bits
  BY Digits DEF Across, Bits
<1>2. \A p, q \in 0 .. 7 : Across(8 * p + q) = 8 * q + p
  BY Composed DEF Across
<1>3. ASSUME NEW i \in 0 .. 7, NEW j \in 0 .. 7
      PROVE  Across(63 - (8 * i + j)) = 63 - (8 * j + i)
  <2>1. 63 - (8 * i + j) = 8 * (7 - i) + (7 - j) /\ 7 - i \in 0 .. 7 /\ 7 - j \in 0 .. 7
    OBVIOUS
  <2> QED BY <2>1, <1>2
<1> QED BY <1>1, <1>2, <1>3

\* What a word holds that is another, taken across the diagonal.
Transposed(w) == {c \in Bits : Across(c) \in w}

-----------------------------------------------------------------------------
(* The transpose by exchanges of blocks.                                   *)

\* Where the bit that SwapBits puts at c comes from.
Source(c, k, mask) == IF c \in mask THEN c + k ELSE IF c - k \in mask THEN c - k ELSE c

LEMMA SwapBitsIs ==
  ASSUME NEW w \in SUBSET Bits, NEW k \in Nat, NEW mask \in SUBSET Bits,
         \A c \in mask : c + k \in Bits /\ c + k \notin mask
  PROVE  /\ SwapBits(w, k, mask) \in SUBSET Bits
         /\ \A c \in Bits : /\ Source(c, k, mask) \in Bits
                            /\ c \in SwapBits(w, k, mask) <=> Source(c, k, mask) \in w
<1> DEFINE y == Xor(w, Shr(w, k)) \cap mask
<1>1. y \in SUBSET Bits
  OBVIOUS
<1>2. \A c \in Bits : c \in y <=> c \in mask /\ ~(c \in w <=> c + k \in w)
  BY Shifts DEF Xor
<1> HIDE DEF y
<1>3. Shl(y, k) \in SUBSET Bits /\ \A c \in Bits : c \in Shl(y, k) <=> c - k \in y
  BY <1>1, Shifts
<1>4. SwapBits(w, k, mask) = Xor(Xor(w, y), Shl(y, k))
  BY DEF SwapBits, y
<1>5. SwapBits(w, k, mask) \in SUBSET Bits
  BY <1>1, <1>3, <1>4 DEF Xor
<1>6. ASSUME NEW c \in Bits
      PROVE  /\ Source(c, k, mask) \in Bits
             /\ c \in SwapBits(w, k, mask) <=> Source(c, k, mask) \in w
  <2>1. c \in SwapBits(w, k, mask) <=> ~((~(c \in w <=> c \in y)) <=> c - k \in y)
    BY <1>3, <1>4 DEF Xor
  <2>2. c \in Int /\ (c - k) + k = c /\ (c + k) - k = c
    BY DEF Bits
  <2>3. CASE c \in mask
    <3>1. c - k \notin mask
      BY <2>2, <2>3
    <3>2. c - k \notin y
      BY <1>1, <1>2, <3>1
    <3>3. c \in y <=> ~(c \in w <=> c + k \in w)
      BY <1>2, <2>3
    <3>4. Source(c, k, mask) = c + k /\ c + k \in Bits
      BY <2>3 DEF Source
    <3> QED BY <2>1, <3>2, <3>3, <3>4
  <2>4. CASE c \notin mask /\ c - k \in mask
    <3>1. c \notin y
      BY <1>2, <2>4
    <3>2. c - k \in y <=> ~(c - k \in w <=> c \in w)
      BY <1>2, <2>2, <2>4
    <3>3. Source(c, k, mask) = c - k /\ c - k \in Bits
      BY <2>4 DEF Source
    <3> QED BY <2>1, <3>1, <3>2, <3>3
  <2>5. CASE c \notin mask /\ c - k \notin mask
    <3>1. c \notin y
      BY <1>2, <2>5
    <3>2. c - k \notin y
      BY <1>1, <1>2, <2>5
    <3>3. Source(c, k, mask) = c
      BY <2>5 DEF Source
    <3> QED BY <2>1, <3>1, <3>2, <3>3
  <2> QED BY <2>3, <2>4, <2>5
<1> QED BY <1>5, <1>6

Mask1 == {b \in Bits : (b \div 8) % 2 = 0 /\ b % 2 = 1}
Mask2 == {b \in Bits : (b \div 8) % 4 < 2 /\ b % 4 >= 2}
Mask4 == {b \in Bits : b \div 8 < 4 /\ b % 8 >= 4}

LEMMA MasksFit ==
  /\ \A c \in Mask1 : c + 7 \in Bits /\ c + 7 \notin Mask1
  /\ \A c \in Mask2 : c + 14 \in Bits /\ c + 14 \notin Mask2
  /\ \A c \in Mask4 : c + 28 \in Bits /\ c + 28 \notin Mask4
<1>1. \A c \in Mask1 : c + 7 \in Bits /\ c + 7 \notin Mask1
  BY Z3T(60) DEF Mask1, Bits
<1>2. \A c \in Mask2 : c + 14 \in Bits /\ c + 14 \notin Mask2
  BY Z3T(60) DEF Mask2, Bits
<1>3. \A c \in Mask4 : c + 28 \in Bits /\ c + 28 \notin Mask4
  BY Z3T(60) DEF Mask4, Bits
<1> QED BY <1>1, <1>2, <1>3

\* The three exchanges together go across the diagonal.
LEMMA SourcesAcross ==
  \A c \in Bits : Source(Source(Source(c, 28, Mask4), 14, Mask2), 7, Mask1) = Across(c)
<1> SUFFICES ASSUME NEW c \in 0 .. 63
             PROVE  Source(Source(Source(c, 28, Mask4), 14, Mask2), 7, Mask1) = Across(c)
  BY DEF Bits
<1> QED BY Z3T(100) DEF Source, Mask4, Mask2, Mask1, Across, Bits

\* The transpose of entries is what Across makes of the bits.
LEMMA TransposedIs ==
  ASSUME NEW w \in SUBSET Bits
  PROVE  /\ Transposed(w) \in SUBSET Bits
         /\ IsTransposed(w, Transposed(w))
         /\ Transposed(Transposed(w)) = w
<1>1. Transposed(w) \in SUBSET Bits
  BY DEF Transposed
<1>2. ASSUME NEW i \in 0 .. 7, NEW j \in 0 .. 7
      PROVE  Entry(Transposed(w), j, i) <=> Entry(w, i, j)
  <2>1. Entry(Transposed(w), j, i) <=> 63 - (8 * j + i) \in Transposed(w)
    BY <1>1, EntryIs
  <2>2. Across(63 - (8 * j + i)) = 63 - (8 * i + j)
    BY AcrossFacts
  <2>3. 63 - (8 * j + i) \in Bits
    BY DEF Bits
  <2> QED BY <2>1, <2>2, <2>3, EntryIs DEF Transposed
<1>3. \A c \in Bits : Across(Across(c)) = c
  <2>1. ASSUME NEW c \in Bits PROVE Across(Across(c)) = c
    <3>1. Across(c) = 8 * (c % 8) + (c \div 8) /\ c % 8 \in 0 .. 7 /\ c \div 8 \in 0 .. 7
      BY Digits DEF Across
    <3>2. Across(8 * (c % 8) + (c \div 8)) = 8 * (c \div 8) + (c % 8)
      BY <3>1, AcrossFacts
    <3> QED BY <3>1, <3>2, Digits
  <2> QED BY <2>1
<1>4. Transposed(Transposed(w)) = w
  BY <1>3, AcrossFacts DEF Transposed
<1> QED BY <1>1, <1>2, <1>4 DEF IsTransposed

LEMMA TransposeIs ==
  ASSUME NEW w \in SUBSET Bits
  PROVE  transpose(w) = Transposed(w)
<1> DEFINE x1 == SwapBits(w, 7, Mask1)
           x2 == SwapBits(x1, 14, Mask2)
           x3 == SwapBits(x2, 28, Mask4)
<1>0. Mask1 \in SUBSET Bits /\ Mask2 \in SUBSET Bits /\ Mask4 \in SUBSET Bits
  BY DEF Mask1, Mask2, Mask4
<1>1. /\ x1 \in SUBSET Bits
      /\ \A c \in Bits : Source(c, 7, Mask1) \in Bits /\ (c \in x1 <=> Source(c, 7, Mask1) \in w)
  BY <1>0, MasksFit, SwapBitsIs
<1> HIDE DEF x1
<1>2. /\ x2 \in SUBSET Bits
      /\ \A c \in Bits : Source(c, 14, Mask2) \in Bits /\ (c \in x2 <=> Source(c, 14, Mask2) \in x1)
  BY <1>0, <1>1, MasksFit, SwapBitsIs
<1> HIDE DEF x2
<1>3. /\ x3 \in SUBSET Bits
      /\ \A c \in Bits : Source(c, 28, Mask4) \in Bits /\ (c \in x3 <=> Source(c, 28, Mask4) \in x2)
  BY <1>0, <1>2, MasksFit, SwapBitsIs
<1>4. transpose(w) = x3
  BY DEF transpose, x1, x2, x3, Mask1, Mask2, Mask4
<1> HIDE DEF x3
<1>5. ASSUME NEW c \in Bits PROVE c \in x3 <=> Across(c) \in w
  BY <1>1, <1>2, <1>3, SourcesAcross
<1> QED BY <1>3, <1>4, <1>5 DEF Transposed

-----------------------------------------------------------------------------
(* The transposes that collect top bits.                                   *)

\* The bit that lane l of the n-th register holds on top.
Top(n, l) == 8 * (l % 8) + 6 - 2 * n + (l \div 8)

LEMMA Collected ==
  ASSUME NEW w \in SUBSET Bits, NEW x,
         \A n \in 0 .. 3, l \in ByteLanes : 7 \in x[n][l] <=> Top(n, l) \in w
  PROVE  Gathered(x) = Transposed(w)
<1> DEFINE res == [n \in 0 .. 3 |-> IF n = 0 THEN Movemask(x[0])
                     ELSE IF n = 1 THEN Shl(Movemask(x[0]), 16) \cup Movemask(x[1])
                     ELSE IF n = 2 THEN Shl(Shl(Movemask(x[0]), 16) \cup Movemask(x[1]), 16) \cup Movemask(x[2])
                     ELSE Shl(Shl(Shl(Movemask(x[0]), 16) \cup Movemask(x[1]), 16) \cup Movemask(x[2]), 16)
                            \cup Movemask(x[3])]
           Def(f) == f = [n \in 0 .. 3 |-> IF n = 0 THEN Movemask(x[0])
                                           ELSE Shl(f[n - 1], 16) \cup Movemask(x[n])]
           word == CHOOSE f : Def(f)
<1>1. Def(res)
  <2>1. \A n \in 0 .. 3 : n = 0 \/ n = 1 \/ n = 2 \/ n = 3
    OBVIOUS
  <2>2. ASSUME NEW n \in 0 .. 3
        PROVE  res[n] = IF n = 0 THEN Movemask(x[0]) ELSE Shl(res[n - 1], 16) \cup Movemask(x[n])
    <3>1. CASE n = 0
      BY <3>1
    <3>2. CASE n = 1
      BY <3>2
    <3>3. CASE n = 2
      BY <3>3
    <3>4. CASE n = 3
      BY <3>4
    <3> QED BY <2>1, <3>1, <3>2, <3>3, <3>4
  <2> QED BY <2>2
<1>2. Def(word)
  BY <1>1
<1>3. Gathered(x) = word[3]
  BY DEF Gathered
<1> HIDE DEF word
<1>4. /\ word[0] = Movemask(x[0])
      /\ word[1] = Shl(word[0], 16) \cup Movemask(x[1])
      /\ word[2] = Shl(word[1], 16) \cup Movemask(x[2])
      /\ word[3] = Shl(word[2], 16) \cup Movemask(x[3])
  BY <1>2
<1> HIDE DEF res, Def
<1>5. \A n \in 0 .. 3 : Movemask(x[n]) \in SUBSET Bits /\ Movemask(x[n]) \subseteq ByteLanes
  BY DEF Movemask, ByteLanes, Bits
<1>6. \A n \in 0 .. 3, l \in ByteLanes : l \in Movemask(x[n]) <=> Top(n, l) \in w
  BY DEF Movemask
<1>7. /\ word[0] \in SUBSET Bits /\ word[1] \in SUBSET Bits
      /\ word[2] \in SUBSET Bits /\ word[3] \in SUBSET Bits
  <2>1. \A v \in SUBSET Bits : Shl(v, 16) \in SUBSET Bits
    BY Shifts
  <2>2. word[0] \in SUBSET Bits
    BY <1>4, <1>5
  <2>3. word[1] \in SUBSET Bits
    <3>1. Shl(word[0], 16) \in SUBSET Bits /\ Movemask(x[1]) \in SUBSET Bits
      BY <1>5, <2>1, <2>2
    <3> QED BY <1>4, <3>1
  <2>4. word[2] \in SUBSET Bits
    <3>1. Shl(word[1], 16) \in SUBSET Bits /\ Movemask(x[2]) \in SUBSET Bits
      BY <1>5, <2>1, <2>3
    <3> QED BY <1>4, <3>1
  <2>5. word[3] \in SUBSET Bits
    <3>1. Shl(word[2], 16) \in SUBSET Bits /\ Movemask(x[3]) \in SUBSET Bits
      BY <1>5, <2>1, <2>4
    <3> QED BY <1>4, <3>1
  <2> QED BY <2>2, <2>3, <2>4, <2>5
<1>8. \A c \in Bits : /\ c \in word[1] <=> c - 16 \in word[0] \/ c \in Movemask(x[1])
                      /\ c \in word[2] <=> c - 16 \in word[1] \/ c \in Movemask(x[2])
                      /\ c \in word[3] <=> c - 16 \in word[2] \/ c \in Movemask(x[3])
  BY <1>4, <1>7, Shifts
<1>9. ASSUME NEW c \in Bits PROVE c \in word[3] <=> Across(c) \in w
  <2>1. CASE c < 16
    <3>1. c - 16 \notin Bits /\ c \in ByteLanes /\ Top(3, c) = Across(c)
      BY <2>1, Z3 DEF Bits, ByteLanes, Top, Across
    <3>2. c \in Movemask(x[3]) <=> Across(c) \in w
      BY <1>6, <3>1
    <3> QED BY <1>7, <1>8, <3>1, <3>2
  <2>2. CASE 16 <= c /\ c < 32
    <3>1. /\ c \notin ByteLanes /\ c - 16 \in Bits
          /\ (c - 16) - 16 \notin Bits /\ c - 16 \in ByteLanes /\ Top(2, c - 16) = Across(c)
      BY <2>2, Z3 DEF Bits, ByteLanes, Top, Across
    <3>2. c - 16 \in Movemask(x[2]) <=> Across(c) \in w
      BY <1>6, <3>1
    <3>3. c \in word[3] <=> c - 16 \in word[2]
      BY <1>5, <1>8, <3>1
    <3>4. c - 16 \in word[2] <=> c - 16 \in Movemask(x[2])
      BY <1>7, <1>8, <3>1
    <3> QED BY <3>2, <3>3, <3>4
  <2>3. CASE 32 <= c /\ c < 48
    <3>1. /\ c \notin ByteLanes /\ c - 16 \in Bits /\ c - 16 \notin ByteLanes
          /\ (c - 16) - 16 = c - 32 /\ c - 32 \in Bits /\ (c - 32) - 16 \notin Bits
          /\ c - 32 \in ByteLanes /\ Top(1, c - 32) = Across(c)
      BY <2>3, Z3 DEF Bits, ByteLanes, Top, Across
    <3>2. c - 32 \in Movemask(x[1]) <=> Across(c) \in w
      BY <1>6, <3>1
    <3>3. c \in word[3] <=> c - 16 \in word[2]
      BY <1>5, <1>8, <3>1
    <3>4. c - 16 \in word[2] <=> c - 32 \in word[1]
      BY <1>5, <1>8, <3>1
    <3>5. c - 32 \in word[1] <=> c - 32 \in Movemask(x[1])
      BY <1>7, <1>8, <3>1
    <3> QED BY <3>2, <3>3, <3>4, <3>5
  <2>4. CASE 48 <= c
    <3>1. /\ c \notin ByteLanes /\ c - 16 \in Bits /\ c - 16 \notin ByteLanes
          /\ (c - 16) - 16 = c - 32 /\ c - 32 \in Bits /\ c - 32 \notin ByteLanes
          /\ (c - 32) - 16 = c - 48 /\ c - 48 \in ByteLanes /\ Top(0, c - 48) = Across(c)
      BY <2>4, Z3 DEF Bits, ByteLanes, Top, Across
    <3>2. c - 48 \in Movemask(x[0]) <=> Across(c) \in w
      BY <1>6, <3>1
    <3>3. c \in word[3] <=> c - 16 \in word[2]
      BY <1>5, <1>8, <3>1
    <3>4. c - 16 \in word[2] <=> c - 32 \in word[1]
      BY <1>5, <1>8, <3>1
    <3>5. c - 32 \in word[1] <=> c - 48 \in Movemask(x[0])
      BY <1>4, <1>5, <1>8, <3>1
    <3> QED BY <3>2, <3>3, <3>4, <3>5
  <2>5. c < 16 \/ (16 <= c /\ c < 32) \/ (32 <= c /\ c < 48) \/ 48 <= c
    BY DEF Bits
  <2> QED BY <2>1, <2>2, <2>3, <2>4, <2>5
<1> QED BY <1>3, <1>7, <1>9 DEF Transposed

\* A register holds the bytes of two words.
LEMMA RegisterIs ==
  ASSUME NEW high \in SUBSET Bits, NEW low \in SUBSET Bits, NEW l \in ByteLanes, NEW b \in 0 .. 7
  PROVE  b \in Register(high, low)[l]
           <=> 8 * (l % 8) + b \in IF l < 8 THEN low ELSE high
BY DEF Register

LEMMA CollectedTransposes ==
  ASSUME NEW w \in SUBSET Bits
  PROVE  transpose_mask(w) = Transposed(w) /\ transpose_maskd(w) = Transposed(w)
<1>0. \A l \in ByteLanes : /\ l \in 0 .. 15 /\ l % 8 \in 0 .. 7 /\ l \div 8 = IF l < 8 THEN 0 ELSE 1
  BY Z3 DEF ByteLanes
<1>1. transpose_mask(w) = Transposed(w)
  <2> DEFINE x == Register(w, Shl(w, 1))
             y == [n \in 0 .. 3 |-> [l \in ByteLanes |-> {b + 2 * n : b \in x[l]} \cap 0 .. 7]]
  <2>1. \A l \in ByteLanes : x[l] \subseteq 0 .. 7
    BY DEF Register
  <2>2. ASSUME NEW n \in 0 .. 3, NEW l \in ByteLanes PROVE 7 \in y[n][l] <=> Top(n, l) \in w
    <3>1. 7 \in y[n][l] <=> 7 - 2 * n \in x[l]
      <4> HIDE DEF x
      <4>1. y[n][l] = {b + 2 * n : b \in x[l]} \cap 0 .. 7
        OBVIOUS
      <4>2. \A b \in 0 .. 7 : b + 2 * n = 7 <=> b = 7 - 2 * n
        OBVIOUS
      <4>3. 7 - 2 * n \in 0 .. 7 /\ (7 - 2 * n) + 2 * n = 7
        OBVIOUS
      <4> QED BY <2>1, <4>1, <4>2, <4>3
    <3>2. 7 - 2 * n \in x[l] <=> 8 * (l % 8) + (7 - 2 * n) \in IF l < 8 THEN Shl(w, 1) ELSE w
      <4>1. 7 - 2 * n \in 0 .. 7 /\ Shl(w, 1) \in SUBSET Bits
        BY Shifts
      <4> QED BY <4>1, RegisterIs
    <3>3. CASE l < 8
      <4>1. /\ 8 * (l % 8) + (7 - 2 * n) \in Bits
            /\ (8 * (l % 8) + (7 - 2 * n)) - 1 = Top(n, l)
        BY <1>0, <3>3 DEF Top, Bits
      <4> QED BY <3>1, <3>2, <3>3, <4>1, Shifts
    <3>4. CASE ~(l < 8)
      <4>1. 8 * (l % 8) + (7 - 2 * n) = Top(n, l)
        BY <1>0, <3>4 DEF Top
      <4> QED BY <3>1, <3>2, <3>4, <4>1
    <3> QED BY <3>3, <3>4
  <2>3. transpose_mask(w) = Gathered(y)
    BY DEF transpose_mask
  <2> HIDE DEF y
  <2> QED BY <2>2, <2>3, Collected
<1>2. transpose_maskd(w) = Transposed(w)
  <2> DEFINE y == [n \in 0 .. 3 |-> Register(Shl(w, 2 * n), Shl(w, 2 * n + 1))]
  <2>2. ASSUME NEW n \in 0 .. 3, NEW l \in ByteLanes PROVE 7 \in y[n][l] <=> Top(n, l) \in w
    <3>1. /\ Shl(w, 2 * n) \in SUBSET Bits /\ Shl(w, 2 * n + 1) \in SUBSET Bits
          /\ 2 * n \in Nat /\ 2 * n + 1 \in Nat
      <4>1. 2 * n \in Nat /\ 2 * n + 1 \in Nat
        OBVIOUS
      <4> QED BY <4>1, Shifts
    <3>2. 7 \in y[n][l]
            <=> 8 * (l % 8) + 7 \in IF l < 8 THEN Shl(w, 2 * n + 1) ELSE Shl(w, 2 * n)
      BY <3>1, RegisterIs
    <3>3. 8 * (l % 8) + 7 \in Bits
      BY <1>0 DEF Bits
    <3>4. CASE l < 8
      <4>1. (8 * (l % 8) + 7) - (2 * n + 1) = Top(n, l)
        BY <1>0, <3>4 DEF Top
      <4> QED BY <3>1, <3>2, <3>3, <3>4, <4>1, Shifts
    <3>5. CASE ~(l < 8)
      <4>1. (8 * (l % 8) + 7) - 2 * n = Top(n, l)
        BY <1>0, <3>5 DEF Top
      <4> QED BY <3>1, <3>2, <3>3, <3>5, <4>1, Shifts
    <3> QED BY <3>4, <3>5
  <2>3. transpose_maskd(w) = Gathered(y)
    BY DEF transpose_maskd
  <2> HIDE DEF y
  <2> QED BY <2>2, <2>3, Collected
<1> QED BY <1>1, <1>2

-----------------------------------------------------------------------------
(* Entries written, read, set and compared.                                *)

LEMMA WrittenIs ==
  ASSUME NEW w \in SUBSET Bits
  PROVE  /\ DOMAIN write(w) = 1 .. 8 /\ Len(write(w)) = 8
         /\ \A i, j \in 1 .. 8 : write(w)[i][j] <=> 63 - (8 * (i - 1) + (j - 1)) \in w
<1>1. write(w) \in Seq([1 .. 8 -> BOOLEAN])
  <2>1. write(w) \in [1 .. 8 -> [1 .. 8 -> BOOLEAN]]
    BY DEF write
  <2>2. \A v \in [1 .. 8 -> [1 .. 8 -> BOOLEAN]] : v \in Seq([1 .. 8 -> BOOLEAN])
    <3>1. \A n \in Nat : \A v \in [1 .. n -> [1 .. 8 -> BOOLEAN]] : v \in Seq([1 .. 8 -> BOOLEAN])
      OBVIOUS
    <3>2. 8 \in Nat
      OBVIOUS
    <3> QED BY <3>1, <3>2
  <2> QED BY <2>1, <2>2
<1>2. DOMAIN write(w) = 1 .. 8
  BY DEF write
<1>3. Len(write(w)) = 8
  BY <1>1, <1>2, LenProperties
<1>4. ASSUME NEW i \in 1 .. 8, NEW j \in 1 .. 8
      PROVE  write(w)[i][j] <=> 63 - (8 * (i - 1) + (j - 1)) \in w
  <2>1. /\ i - 1 \in 0 .. 7 /\ j - 1 \in 0 .. 7
        /\ 8 * (i - 1) + j - 1 = 8 * (i - 1) + (j - 1) /\ 8 * (i - 1) + (j - 1) \in Nat
        /\ 63 \in Bits
    BY DEF Bits
  <2>2. write(w)[i][j] <=> 63 \in Shl(w, 8 * (i - 1) + j - 1)
    BY DEF write
  <2> QED BY <2>1, <2>2, Shifts
<1> QED BY <1>2, <1>3, <1>4

\* What rows of dim entries are read as.
LEMMA ReadIs ==
  ASSUME NEW dim \in 1 .. 8, NEW mat, Len(mat) = dim
  PROVE  /\ FromRows(mat) \in SUBSET Bits
         /\ \A i, j \in 0 .. 7 :
              63 - (8 * i + j) \in FromRows(mat) <=> i < dim /\ j < dim /\ mat[i + 1][j + 1]
<1> DEFINE At(e) == 63 - e - (8 - dim) * (e \div dim)
<1>1. ASSUME NEW e \in 0 .. dim * dim - 1
      PROVE  /\ e \div dim \in 0 .. dim - 1 /\ e % dim \in 0 .. dim - 1
             /\ At(e) = 63 - (8 * (e \div dim) + (e % dim))
  <2>1. dim = 1 \/ dim = 2 \/ dim = 3 \/ dim = 4 \/ dim = 5 \/ dim = 6 \/ dim = 7 \/ dim = 8
    OBVIOUS
  <2>2. CASE dim = 1
    BY <2>2, Z3
  <2>3. CASE dim = 2
    BY <2>3, Z3
  <2>4. CASE dim = 3
    BY <2>4, Z3
  <2>5. CASE dim = 4
    BY <2>5, Z3
  <2>6. CASE dim = 5
    BY <2>6, Z3
  <2>7. CASE dim = 6
    BY <2>7, Z3
  <2>8. CASE dim = 7
    BY <2>8, Z3
  <2>9. CASE dim = 8
    BY <2>9, Z3
  <2> QED BY <2>1, <2>2, <2>3, <2>4, <2>5, <2>6, <2>7, <2>8, <2>9
<1>2. ASSUME NEW i \in 0 .. dim - 1, NEW j \in 0 .. dim - 1
      PROVE  /\ dim * i + j \in 0 .. dim * dim - 1
             /\ (dim * i + j) \div dim = i /\ (dim * i + j) % dim = j
  <2>1. dim = 1 \/ dim = 2 \/ dim = 3 \/ dim = 4 \/ dim = 5 \/ dim = 6 \/ dim = 7 \/ dim = 8
    OBVIOUS
  <2>2. CASE dim = 1
    BY <2>2, Z3
  <2>3. CASE dim = 2
    BY <2>3, Z3
  <2>4. CASE dim = 3
    BY <2>4, Z3
  <2>5. CASE dim = 4
    BY <2>5, Z3
  <2>6. CASE dim = 5
    BY <2>6, Z3
  <2>7. CASE dim = 6
    BY <2>7, Z3
  <2>8. CASE dim = 7
    BY <2>8, Z3
  <2>9. CASE dim = 8
    BY <2>9, Z3
  <2> QED BY <2>1, <2>2, <2>3, <2>4, <2>5, <2>6, <2>7, <2>8, <2>9
<1>3. FromRows(mat) = {At(e) : e \in {k \in 0 .. dim * dim - 1 : mat[1 + (k \div dim)][1 + (k % dim)]}}
  BY DEF FromRows
<1> HIDE DEF At
<1>4. FromRows(mat) \in SUBSET Bits
  <2>1. ASSUME NEW e \in 0 .. dim * dim - 1 PROVE At(e) \in Bits
    <3>1. \A p, q \in 0 .. dim - 1 : 63 - (8 * p + q) \in Bits
      BY DEF Bits
    <3> QED BY <1>1, <3>1
  <2> QED BY <1>3, <2>1
<1>5. ASSUME NEW i \in 0 .. 7, NEW j \in 0 .. 7
      PROVE  63 - (8 * i + j) \in FromRows(mat) <=> i < dim /\ j < dim /\ mat[i + 1][j + 1]
  <2>1. ASSUME 63 - (8 * i + j) \in FromRows(mat)
        PROVE  i < dim /\ j < dim /\ mat[i + 1][j + 1]
    <3>1. PICK e \in 0 .. dim * dim - 1 :
            mat[1 + (e \div dim)][1 + (e % dim)] /\ At(e) = 63 - (8 * i + j)
      BY <1>3, <2>1
    <3>2. \A p, q \in 0 .. dim - 1 : 63 - (8 * p + q) = 63 - (8 * i + j) => p = i /\ q = j
      OBVIOUS
    <3>5. /\ e \div dim \in 0 .. dim - 1 /\ e % dim \in 0 .. dim - 1
          /\ 63 - (8 * (e \div dim) + (e % dim)) = 63 - (8 * i + j)
      BY <1>1, <3>1
    <3>3. e \div dim = i /\ e % dim = j /\ i \in 0 .. dim - 1 /\ j \in 0 .. dim - 1
      BY <3>2, <3>5
    <3>4. mat[1 + i][1 + j]
      BY <3>1, <3>3
    <3>6. 1 + i = i + 1 /\ 1 + j = j + 1
      OBVIOUS
    <3> QED BY <3>3, <3>4, <3>6
  <2>2. ASSUME i < dim, j < dim, mat[i + 1][j + 1]
        PROVE  63 - (8 * i + j) \in FromRows(mat)
    <3>1. i \in 0 .. dim - 1 /\ j \in 0 .. dim - 1 /\ 1 + i = i + 1 /\ 1 + j = j + 1
      BY <2>2
    <3>2. /\ dim * i + j \in 0 .. dim * dim - 1
          /\ (dim * i + j) \div dim = i /\ (dim * i + j) % dim = j
      BY <1>2, <3>1
    <3>3. At(dim * i + j) = 63 - (8 * i + j)
      BY <1>1, <3>2
    <3>4. mat[1 + ((dim * i + j) \div dim)][1 + ((dim * i + j) % dim)]
      BY <2>2, <3>1, <3>2
    <3> QED BY <1>3, <3>2, <3>3, <3>4
  <2> QED BY <2>1, <2>2
<1> QED BY <1>4, <1>5

LEMMA ReadBack ==
  ASSUME NEW w \in SUBSET Bits
  PROVE  FromRows(write(w)) = w
<1>1. FromRows(write(w)) \in SUBSET Bits
  BY WrittenIs, ReadIs
<1>2. ASSUME NEW i \in 0 .. 7, NEW j \in 0 .. 7
      PROVE  Entry(FromRows(write(w)), i, j) <=> Entry(w, i, j)
  <2>1. Entry(FromRows(write(w)), i, j) <=> 63 - (8 * i + j) \in FromRows(write(w))
    BY <1>1, EntryIs
  <2>2. 63 - (8 * i + j) \in FromRows(write(w)) <=> write(w)[i + 1][j + 1]
    BY WrittenIs, ReadIs
  <2>3. write(w)[i + 1][j + 1] <=> 63 - (8 * i + j) \in w
    <3>1. i + 1 \in 1 .. 8 /\ j + 1 \in 1 .. 8 /\ (i + 1) - 1 = i /\ (j + 1) - 1 = j
      OBVIOUS
    <3> QED BY <3>1, WrittenIs
  <2> QED BY <2>1, <2>2, <2>3, EntryIs
<1> QED BY <1>1, <1>2, SameEntries

LEMMA RandomPart ==
  ASSUME NEW w \in SUBSET Bits, NEW dim \in 1 .. 8
  PROVE  /\ random(w, dim) = FromRows([i \in 1 .. dim |-> [j \in 1 .. dim |-> Entry(w, i - 1, j - 1)]])
         /\ \A i, j \in 0 .. 7 : Entry(random(w, dim), i, j) <=> i < dim /\ j < dim /\ Entry(w, i, j)
<1> DEFINE mat == [i \in 1 .. dim |-> [j \in 1 .. dim |-> Entry(w, i - 1, j - 1)]]
<1>1. random(w, dim) \in SUBSET Bits
  BY DEF random
<1>2. ASSUME NEW i \in 0 .. 7, NEW j \in 0 .. 7
      PROVE  Entry(random(w, dim), i, j) <=> i < dim /\ j < dim /\ Entry(w, i, j)
  <2>1. \A h \in dim .. 7 :
          63 - (8 * i + j) \in ROW_MASK(h) \cup COL_MASK(h) <=> h = i \/ h = j
    <3>1. ASSUME NEW h \in 0 .. 7
          PROVE  /\ 63 - (8 * i + j) \in ROW_MASK(h) <=> h = i
                 /\ 63 - (8 * i + j) \in COL_MASK(h) <=> h = j
      <4>1. \A k \in 0 .. 7 : 63 - (8 * i + j) = 63 - (8 * h + k) <=> h = i /\ k = j
        OBVIOUS
      <4>2. \A k \in 0 .. 7 : 63 - (8 * i + j) = 63 - (8 * k + h) <=> k = i /\ h = j
        OBVIOUS
      <4> QED BY <4>1, <4>2 DEF ROW_MASK, COL_MASK, BIT_MASK
    <3>2. \A h \in dim .. 7 : h \in 0 .. 7
      OBVIOUS
    <3> QED BY <3>1, <3>2
  <2>2. 63 - (8 * i + j) \in random(w, dim)
          <=> 63 - (8 * i + j) \in w /\ \A h \in dim .. 7 : ~(h = i \/ h = j)
    BY <2>1 DEF random
  <2>3. (\A h \in dim .. 7 : ~(h = i \/ h = j)) <=> i < dim /\ j < dim
    OBVIOUS
  <2> QED BY <1>1, <2>2, <2>3, EntryIs
<1>3. Len(mat) = dim
  <2>1. mat \in [1 .. dim -> [1 .. dim -> BOOLEAN]]
    BY DEF Entry
  <2>2. mat \in Seq([1 .. dim -> BOOLEAN]) /\ DOMAIN mat = 1 .. dim
    BY <2>1
  <2> QED BY <2>2, LenProperties
<1>4. \A i, j \in 0 .. 7 : i < dim /\ j < dim => (mat[i + 1][j + 1] <=> Entry(w, i, j))
  <2>1. ASSUME NEW i \in 0 .. 7, NEW j \in 0 .. 7, i < dim, j < dim
        PROVE  mat[i + 1][j + 1] <=> Entry(w, i, j)
    <3>1. i + 1 \in 1 .. dim /\ j + 1 \in 1 .. dim /\ (i + 1) - 1 = i /\ (j + 1) - 1 = j
      BY <2>1
    <3> QED BY <3>1
  <2> QED BY <2>1
<1> HIDE DEF mat
<1>5. FromRows(mat) \in SUBSET Bits
  BY <1>3, ReadIs
<1>6. ASSUME NEW i \in 0 .. 7, NEW j \in 0 .. 7
      PROVE  Entry(random(w, dim), i, j) <=> Entry(FromRows(mat), i, j)
  <2>1. Entry(FromRows(mat), i, j) <=> i < dim /\ j < dim /\ mat[i + 1][j + 1]
    BY <1>3, <1>5, EntryIs, ReadIs
  <2> QED BY <1>2, <1>4, <2>1
<1>7. random(w, dim) = FromRows(mat)
  BY <1>1, <1>5, <1>6, SameEntries
<1> QED BY <1>2, <1>7 DEF mat

LEMMA EntrySet ==
  ASSUME NEW w \in SUBSET Bits, NEW i \in 0 .. 7, NEW j \in 0 .. 7, NEW val \in BOOLEAN,
         NEW k \in 0 .. 7, NEW l \in 0 .. 7
  PROVE  Entry(Set(w, i, j, val), k, l) = IF <<k, l>> = <<i, j>> THEN val ELSE Entry(w, k, l)
<1>1. BIT_MASK(i, j) = 63 - (8 * i + j) /\ BIT_MASK(i, j) \in Bits
  BY DEF BIT_MASK, Bits
<1>2. Set(w, i, j, val) \in SUBSET Bits
  BY DEF Set, Xor
<1>3. \A c \in Bits : c \in Set(w, i, j, val)
                        <=> IF c = BIT_MASK(i, j) THEN val ELSE c \in w
  BY <1>1 DEF Set, Xor
<1>4. 63 - (8 * k + l) \in Bits /\ (63 - (8 * k + l) = 63 - (8 * i + j) <=> k = i /\ l = j)
  BY DEF Bits
<1>5. Entry(Set(w, i, j, val), k, l) <=> IF <<k, l>> = <<i, j>> THEN val ELSE Entry(w, k, l)
  BY <1>1, <1>2, <1>3, <1>4, EntryIs
<1>6. Entry(Set(w, i, j, val), k, l) \in BOOLEAN /\ Entry(w, k, l) \in BOOLEAN
  BY DEF Entry
<1> QED BY <1>5, <1>6

\* The first entry that differs decides which word is greater.
LEMMA GreatestOf ==
  ASSUME NEW S \in SUBSET Bits, S # {}
  PROVE  Max(S) \in S /\ \A c \in S : c <= Max(S)
<1> DEFINE T == {63 - c : c \in S}
<1>1. T \subseteq Nat /\ T # {}
  <2>1. \A c \in S : 63 - c \in Nat
    BY DEF Bits
  <2> QED BY <2>1
<1>2. \E t \in T : \A u \in T : ~(u < t)
  <2>1. IsWellFoundedOn(OpToRel(<, Nat), Nat)
    BY NatLessThanWellFounded
  <2>2. PICK t \in T : \A u \in T : ~(<<u, t>> \in OpToRel(<, Nat))
    BY <1>1, <2>1, WFMin
  <2> QED BY <1>1, <2>2 DEF OpToRel
<1>3. \E c \in S : \A d \in S : d <= c
  <2>1. PICK t \in T : \A u \in T : ~(u < t)
    BY <1>2
  <2>2. PICK c \in S : t = 63 - c
    BY <2>1
  <2>3. \A d \in S : 63 - d \in T /\ d \in Int /\ c \in Int
    BY DEF Bits
  <2>4. \A d \in S : d <= c
    BY <2>1, <2>2, <2>3
  <2> QED BY <2>4
<1>4. \A c, d \in S : c >= d <=> d <= c
  BY DEF Bits
<1>5. \E c \in S : \A d \in S : c >= d
  BY <1>3, <1>4
<1>6. Max(S) = CHOOSE c \in S : \A d \in S : c >= d
  BY DEF Max
<1>7. Max(S) \in S /\ \A d \in S : Max(S) >= d
  BY <1>5, <1>6
<1> QED BY <1>4, <1>7

LEMMA ComparedIs ==
  ASSUME NEW w \in SUBSET Bits, NEW u \in SUBSET Bits
  PROVE  /\ Less(w, u) <=> \E c \in Bits : /\ c \notin w /\ c \in u
                                           /\ \A d \in Bits : c < d => (d \in w <=> d \in u)
         /\ Less(u, w) <=> Greater(w, u)
<1> DEFINE X == Xor(w, u)
           First(c) == c \notin w /\ c \in u /\ \A d \in Bits : c < d => (d \in w <=> d \in u)
<1>1. X \in SUBSET Bits /\ \A c \in Bits : c \in X <=> ~(c \in w <=> c \in u)
  BY DEF Xor
<1>2. w = u <=> X = {}
  BY DEF Xor
<1>3. Xor(u, w) = X
  BY DEF Xor
<1>4. Less(u, w) <=> Greater(w, u)
  BY <1>3 DEF Less, Greater
<1> HIDE DEF X
<1>5. Less(w, u) <=> X # {} /\ Max(X) \in u
  BY <1>2 DEF Less, X
<1>6. ASSUME X # {}, Max(X) \in u PROVE \E c \in Bits : First(c)
  <2>1. Max(X) \in X /\ \A c \in X : c <= Max(X)
    BY <1>1, <1>6, GreatestOf
  <2>2. Max(X) \notin w
    BY <1>1, <1>6, <2>1
  <2>3. ASSUME NEW d \in Bits, Max(X) < d PROVE d \in w <=> d \in u
    <3>1. Max(X) \in Bits
      BY <1>1, <2>1
    <3>3. \A a, b \in Bits : a < b => ~(b <= a)
      BY DEF Bits
    <3>2. d \notin X
      BY <2>1, <2>3, <3>1, <3>3
    <3> QED BY <1>1, <3>2
  <2> QED BY <1>1, <1>6, <2>1, <2>2, <2>3
<1>7. ASSUME NEW c \in Bits, First(c) PROVE X # {} /\ Max(X) \in u
  <2>1. c \in X
    BY <1>1, <1>7
  <2>2. Max(X) \in X /\ c <= Max(X)
    BY <1>1, <2>1, GreatestOf
  <2>3. ~(c < Max(X))
    BY <1>1, <1>7, <2>2
  <2>4. Max(X) = c
    <3>1. \A a, b \in Bits : a <= b /\ ~(a < b) => b = a
      BY DEF Bits
    <3> QED BY <1>1, <2>2, <2>3, <3>1
  <2> QED BY <1>7, <2>1, <2>4
<1> HIDE DEF First
<1>8. Less(w, u) <=> \E c \in Bits : First(c)
  BY <1>5, <1>6, <1>7
<1> QED BY <1>4, <1>8 DEF First

\* Bits in the order of the numbers they count for are entries in the order of
\* rows and columns.
LEMMA LessIs ==
  ASSUME NEW w \in SUBSET Bits, NEW u \in SUBSET Bits
  PROVE  Less(w, u) <=> \E i, j \in 1 .. 8 :
           /\ ~write(w)[i][j] /\ write(u)[i][j]
           /\ \A k, l \in 1 .. 8 : 8 * k + l < 8 * i + j => (write(w)[k][l] <=> write(u)[k][l])
<1> DEFINE At(i, j) == 63 - (8 * (i - 1) + (j - 1))
           Differ(i, j) == /\ ~write(w)[i][j] /\ write(u)[i][j]
                           /\ \A k, l \in 1 .. 8 :
                                8 * k + l < 8 * i + j => (write(w)[k][l] <=> write(u)[k][l])
           First(c) == c \notin w /\ c \in u /\ \A d \in Bits : c < d => (d \in w <=> d \in u)
<1>1. \A i, j \in 1 .. 8 : /\ write(w)[i][j] <=> At(i, j) \in w
                           /\ write(u)[i][j] <=> At(i, j) \in u
  BY WrittenIs
<1>2. \A i, j, k, l \in 1 .. 8 : 8 * k + l < 8 * i + j <=> At(i, j) < At(k, l)
  OBVIOUS
<1>3. \A i, j \in 1 .. 8 : At(i, j) \in Bits
  BY DEF Bits
<1>4. \A c \in Bits : \E i, j \in 1 .. 8 : At(i, j) = c
  <2>1. ASSUME NEW c \in Bits PROVE \E i, j \in 1 .. 8 : At(i, j) = c
    <3>1. /\ 8 - (c \div 8) \in 1 .. 8 /\ 8 - (c % 8) \in 1 .. 8
          /\ At(8 - (c \div 8), 8 - (c % 8)) = c
      BY Digits
    <3> QED BY <3>1
  <2> QED BY <2>1
<1> HIDE DEF At
<1>5. ASSUME NEW i \in 1 .. 8, NEW j \in 1 .. 8
      PROVE  Differ(i, j) <=> First(At(i, j))
  <2>1. ASSUME Differ(i, j), NEW d \in Bits, At(i, j) < d PROVE d \in w <=> d \in u
    <3>1. PICK k \in 1 .. 8, l \in 1 .. 8 : At(k, l) = d
      BY <1>4
    <3>2. 8 * k + l < 8 * i + j
      BY <1>2, <2>1, <3>1
    <3>3. write(w)[k][l] <=> write(u)[k][l]
      BY <2>1, <3>2
    <3> QED BY <1>1, <3>1, <3>3
  <2>2. ASSUME First(At(i, j)), NEW k \in 1 .. 8, NEW l \in 1 .. 8, 8 * k + l < 8 * i + j
        PROVE  write(w)[k][l] <=> write(u)[k][l]
    <3>1. At(i, j) < At(k, l) /\ At(k, l) \in Bits
      BY <1>2, <1>3, <2>2
    <3>2. At(k, l) \in w <=> At(k, l) \in u
      BY <2>2, <3>1
    <3> QED BY <1>1, <3>2
  <2> QED BY <1>1, <2>1, <2>2
<1>6. (\E c \in Bits : First(c)) <=> \E i, j \in 1 .. 8 : Differ(i, j)
  <2> HIDE DEF First, Differ
  <2> QED BY <1>3, <1>4, <1>5
<1>7. Less(w, u) <=> \E c \in Bits : First(c)
  BY ComparedIs
<1> QED BY <1>6, <1>7

(***************************************************************************)
(* On every two matrices: the transposes by exchanges of blocks and by     *)
(* collected bits all move entry (i, j) to (j, i); what is written is read *)
(* back; the order is that of the first entry that differs; the random     *)
(* part keeps the first rows and columns; and an entry is set alone.       *)
(***************************************************************************)
THEOREM TransposesAreRight ==
  ASSUME NEW w \in SUBSET Bits, NEW u \in SUBSET Bits
  PROVE  TransposesAgreeOn(w, u)
<1>1. {transpose(w), transpose_mask(w), transpose_maskd(w), transpose2(w, u)[1]} = {transpose(w)}
  BY TransposeIs, CollectedTransposes DEF transpose2
<1>2. transpose2(w, u)[2] = transpose(u)
  BY DEF transpose2
<1>3. IsTransposed(w, transpose(w))
  BY TransposeIs, TransposedIs
<1>4. \A dim \in 1 .. 8 :
        LET part == random(w, dim)
        IN  /\ part = FromRows([i \in 1 .. dim |-> [j \in 1 .. dim |-> Entry(w, i - 1, j - 1)]])
            /\ \A i, j \in 0 .. 7 : Entry(part, i, j) <=> i < dim /\ j < dim /\ Entry(w, i, j)
  BY RandomPart
<1>5. \A i, j \in {0, 3, 7}, val \in BOOLEAN :
        \A k, l \in 0 .. 7 :
          Entry(Set(w, i, j, val), k, l) = IF <<k, l>> = <<i, j>> THEN val ELSE Entry(w, k, l)
  <2>1. \A i \in {0, 3, 7} : i \in 0 .. 7
    OBVIOUS
  <2> QED BY <2>1, EntrySet
<1>6. Less(u, w) <=> Greater(w, u)
  BY ComparedIs
<1> QED BY <1>1, <1>2, <1>3, <1>4, <1>5, <1>6, LessIs, ReadBack DEF TransposesAgreeOn

-----------------------------------------------------------------------------
(* Products.                                                               *)

\* The row of the other matrix that lane n faces after k rotations by two.
Faced(k, n) == ((n % 8) + 7 * (n \div 8) + 6 * k) % 8

LEMMA FacedFacts ==
  /\ \A k \in 0 .. 3, n \in ByteLanes : Faced(k, n) \in 0 .. 7
  /\ \A n \in ByteLanes : Faced(0, n) = IF n < 8 THEN n ELSE IF n = 8 THEN 7 ELSE n - 9
  /\ \A n \in ByteLanes : rot2[n] \in ByteLanes
  /\ \A k \in 0 .. 2, n \in ByteLanes : Faced(k, rot2[n]) = Faced(k + 1, n)
  /\ \A p, q \in 0 .. 7 : \E k \in 0 .. 3 : Faced(k, p) = q \/ Faced(k, 8 + p) = q
<1>1. \A k \in 0 .. 3, n \in ByteLanes : Faced(k, n) \in 0 .. 7
  BY Z3 DEF Faced, ByteLanes
<1>2. \A n \in ByteLanes : Faced(0, n) = IF n < 8 THEN n ELSE IF n = 8 THEN 7 ELSE n - 9
  BY Z3 DEF Faced, ByteLanes
<1>3. \A n \in ByteLanes : rot2[n] \in ByteLanes
  BY Z3 DEF rot2, ByteLanes
<1>4. \A k \in 0 .. 2, n \in ByteLanes : Faced(k, rot2[n]) = Faced(k + 1, n)
  <2>1. \A n \in ByteLanes : rot2[n] = IF n % 8 < 2 THEN n + 6 ELSE n - 2
    BY DEF rot2
  <2>2. ASSUME NEW n \in ByteLanes
        PROVE  LET o == IF n % 8 < 2 THEN n + 6 ELSE n - 2
               IN  Faced(0, o) = Faced(1, n) /\ Faced(1, o) = Faced(2, n) /\ Faced(2, o) = Faced(3, n)
    BY Z3T(60) DEF Faced, ByteLanes
  <2>3. \A k \in 0 .. 2 : k = 0 \/ k = 1 \/ k = 2
    OBVIOUS
  <2>4. 0 + 1 = 1 /\ 1 + 1 = 2 /\ 2 + 1 = 3
    OBVIOUS
  <2> QED BY <2>1, <2>2, <2>3, <2>4
<1>5. ASSUME NEW p \in 0 .. 7, NEW q \in 0 .. 7
      PROVE  \E k \in 0 .. 3 : Faced(k, p) = q \/ Faced(k, 8 + p) = q
  <2>1. \/ Faced(0, p) = q \/ Faced(1, p) = q \/ Faced(2, p) = q \/ Faced(3, p) = q
        \/ Faced(0, 8 + p) = q \/ Faced(1, 8 + p) = q \/ Faced(2, 8 + p) = q \/ Faced(3, 8 + p) = q
    BY Z3T(60) DEF Faced
  <2> QED BY <2>1
<1> QED BY <1>1, <1>2, <1>3, <1>4, <1>5

\* Bit c of w against that: row c \div 8 meets row c % 8.
Meeting(w, that) == {c \in Bits : \E k \in 0 .. 7 : 8 * (c \div 8) + k \in w /\ 8 * (c % 8) + k \in that}

LEMMA MultIs ==
  ASSUME NEW w \in SUBSET Bits, NEW that \in SUBSET Bits
  PROVE  mult_transpose(w, that) = Meeting(w, that)
<1> DEFINE x == Register(w, w)
           Start == [data |-> [n \in ByteLanes |-> {}],
                     y    |-> Shuffled(Register(that, that), rothigh),
                     diag |-> [n \in ByteLanes |-> IF n < 8 THEN {n} ELSE IF n = 8 THEN {7} ELSE {n - 9}]]
           Rotated(s) == [data |-> [n \in ByteLanes |-> s.data[n] \cup
                                   IF x[n] \cap s.y[n] # {} THEN s.diag[n] ELSE {}],
                       y    |-> Shuffled(s.y, rot2),
                       diag |-> Shuffled(s.diag, rot2)]
           Def(f) == f = [i \in 0 .. 4 |-> IF i = 0 THEN Start ELSE Rotated(f[i - 1])]
           turns == CHOOSE f : Def(f)
<1>1. \E f : Def(f)
  <2> HIDE DEF Start, Rotated
  <2> DEFINE f == [i \in 0 .. 4 |-> IF i = 0 THEN Start
                    ELSE IF i = 1 THEN Rotated(Start)
                    ELSE IF i = 2 THEN Rotated(Rotated(Start))
                    ELSE IF i = 3 THEN Rotated(Rotated(Rotated(Start)))
                    ELSE Rotated(Rotated(Rotated(Rotated(Start))))]
  <2>1. ASSUME NEW i \in 0 .. 4
        PROVE  f[i] = IF i = 0 THEN Start ELSE Rotated(f[i - 1])
    <3>0. i = 0 \/ i = 1 \/ i = 2 \/ i = 3 \/ i = 4
      OBVIOUS
    <3>1. CASE i = 0
      BY <3>1
    <3>2. CASE i = 1
      BY <3>2
    <3>3. CASE i = 2
      BY <3>3
    <3>4. CASE i = 3
      BY <3>4
    <3>5. CASE i = 4
      BY <3>5
    <3> QED BY <3>0, <3>1, <3>2, <3>3, <3>4, <3>5
  <2>2. Def(f)
    BY <2>1
  <2> QED BY <2>2
<1>2. Def(turns)
  BY <1>1
<1>3. mult_transpose(w, that) = Extract(turns[4].data, 0) \cup Extract(turns[4].data, 1)
  BY DEF mult_transpose
<1> HIDE DEF turns
<1>4. turns[0] = Start /\ \A k \in 0 .. 3 : turns[k + 1] = Rotated(turns[k])
  <2> HIDE DEF Start, Rotated
  <2>1. ASSUME NEW k \in 0 .. 3 PROVE turns[k + 1] = Rotated(turns[k])
    <3>1. k + 1 \in 0 .. 4 /\ k + 1 # 0 /\ (k + 1) - 1 = k
      OBVIOUS
    <3> QED BY <1>2, <3>1
  <2> QED BY <1>2, <2>1
<1> HIDE DEF Def
\* Each rotation brings up the next row and the bit it is for.
<1> DEFINE Row8(q) == {b \in 0 .. 7 : 8 * q + b \in that}
           Faces(s, k) == \A n \in ByteLanes : /\ s.y[n] = Row8(Faced(k, n))
                                               /\ s.diag[n] = {Faced(k, n)}
<1>5. Faces(turns[0], 0)
  <2>1. ASSUME NEW n \in ByteLanes PROVE Start.y[n] = Row8(Faced(0, n)) /\ Start.diag[n] = {Faced(0, n)}
    <3>1. Start.diag[n] = {Faced(0, n)}
      BY FacedFacts
    <3>2. Start.y[n] = Register(that, that)[rothigh[n]]
      BY DEF Shuffled
    <3>3. rothigh[n] \in ByteLanes /\ rothigh[n] % 8 = Faced(0, n)
      <4>1. rothigh[n] = IF n < 8 THEN n ELSE IF n = 8 THEN 15 ELSE n - 1
        BY DEF rothigh
      <4>2. LET o == IF n < 8 THEN n ELSE IF n = 8 THEN 15 ELSE n - 1
            IN  o \in ByteLanes /\ o % 8 = IF n < 8 THEN n ELSE IF n = 8 THEN 7 ELSE n - 9
        BY Z3 DEF ByteLanes
      <4> QED BY <4>1, <4>2, FacedFacts
    <3>4. \A o \in ByteLanes : Register(that, that)[o] = Row8(o % 8)
      BY DEF Register
    <3> QED BY <3>1, <3>2, <3>3, <3>4
  <2> QED BY <1>4, <2>1
<1>6. ASSUME NEW k \in 0 .. 2, Faces(turns[k], k) PROVE Faces(turns[k + 1], k + 1)
  <2> DEFINE s == turns[k]
  <2>1. turns[k + 1].y = Shuffled(s.y, rot2) /\ turns[k + 1].diag = Shuffled(s.diag, rot2)
    <3>1. turns[k + 1] = Rotated(s)
      <4> HIDE DEF Rotated, Start
      <4>1. k \in 0 .. 3
        OBVIOUS
      <4> QED BY <1>4, <4>1
    <3> HIDE DEF s
    <3> QED BY <3>1
  <2> HIDE DEF s, Row8
  <2>2. ASSUME NEW n \in ByteLanes
        PROVE  /\ turns[k + 1].y[n] = Row8(Faced(k + 1, n))
               /\ turns[k + 1].diag[n] = {Faced(k + 1, n)}
    <3>1. rot2[n] \in ByteLanes /\ Faced(k, rot2[n]) = Faced(k + 1, n)
      BY FacedFacts
    <3>2. s.y[rot2[n]] = Row8(Faced(k, rot2[n])) /\ s.diag[rot2[n]] = {Faced(k, rot2[n])}
      BY <1>6, <3>1 DEF s
    <3> QED BY <2>1, <3>1, <3>2 DEF Shuffled
  <2> QED BY <2>2
<1>7. \A k \in 0 .. 3 : Faces(turns[k], k)
  <2> HIDE DEF Faces
  <2>1. 0 \in 0 .. 2 /\ 1 \in 0 .. 2 /\ 2 \in 0 .. 2 /\ 0 + 1 = 1 /\ 1 + 1 = 2 /\ 2 + 1 = 3
    OBVIOUS
  <2>2. Faces(turns[1], 1)
    BY <1>5, <1>6, <2>1
  <2>3. Faces(turns[2], 2)
    BY <1>6, <2>1, <2>2
  <2>4. Faces(turns[3], 3)
    BY <1>6, <2>1, <2>3
  <2>5. \A k \in 0 .. 3 : k = 0 \/ k = 1 \/ k = 2 \/ k = 3
    OBVIOUS
  <2> QED BY <1>5, <2>2, <2>3, <2>4, <2>5
\* What the lanes have collected.
<1> DEFINE Meet(k, n) == x[n] \cap Row8(Faced(k, n)) # {}
<1>8. ASSUME NEW k \in 0 .. 3, NEW n \in ByteLanes, NEW q
      PROVE  q \in turns[k + 1].data[n] <=> q \in turns[k].data[n] \/ (Meet(k, n) /\ q = Faced(k, n))
  <2> DEFINE s == turns[k]
  <2>1. s.y[n] = Row8(Faced(k, n)) /\ s.diag[n] = {Faced(k, n)}
    BY <1>7
  <2>2. turns[k + 1] = Rotated(s)
    BY <1>4
  <2> HIDE DEF s, x, Row8
  <2>3. turns[k + 1].data[n] = s.data[n] \cup IF x[n] \cap s.y[n] # {} THEN s.diag[n] ELSE {}
    BY <2>2
  <2> QED BY <2>1, <2>3 DEF s
<1>9. \A n \in ByteLanes, q \in 0 .. 7 :
        q \in turns[4].data[n] <=> \E k \in 0 .. 3 : Meet(k, n) /\ q = Faced(k, n)
  <2> HIDE DEF Meet
  <2>1. \A n \in ByteLanes : turns[0].data[n] = {}
    BY <1>4
  <2>2. 0 + 1 = 1 /\ 1 + 1 = 2 /\ 2 + 1 = 3 /\ 3 + 1 = 4
    OBVIOUS
  <2>3. 0 \in 0 .. 3 /\ 1 \in 0 .. 3 /\ 2 \in 0 .. 3 /\ 3 \in 0 .. 3
    OBVIOUS
  <2>4. \A n \in ByteLanes, q \in 0 .. 7 :
          /\ q \in turns[1].data[n] <=> q \in turns[0].data[n] \/ (Meet(0, n) /\ q = Faced(0, n))
          /\ q \in turns[2].data[n] <=> q \in turns[1].data[n] \/ (Meet(1, n) /\ q = Faced(1, n))
          /\ q \in turns[3].data[n] <=> q \in turns[2].data[n] \/ (Meet(2, n) /\ q = Faced(2, n))
          /\ q \in turns[4].data[n] <=> q \in turns[3].data[n] \/ (Meet(3, n) /\ q = Faced(3, n))
    BY <1>8, <2>2, <2>3
  <2>5. \A k \in 0 .. 3 : k = 0 \/ k = 1 \/ k = 2 \/ k = 3
    OBVIOUS
  <2> QED BY <2>1, <2>3, <2>4, <2>5
<1>10. ASSUME NEW k \in 0 .. 3, NEW n \in ByteLanes, NEW p \in 0 .. 7, n = p \/ n = 8 + p
       PROVE  Meet(k, n) <=> \E b \in 0 .. 7 : 8 * p + b \in w /\ 8 * Faced(k, n) + b \in that
  <2>1. n % 8 = p
    BY <1>10, Z3
  <2>2. x[n] = {b \in 0 .. 7 : 8 * p + b \in w}
    BY <2>1 DEF Register
  <2> HIDE DEF x
  <2> QED BY <2>2
<1> HIDE DEF Meet
<1>11. ASSUME NEW c \in Bits
       PROVE  /\ c \in Extract(turns[4].data, 0) <=> c % 8 \in turns[4].data[c \div 8]
              /\ c \in Extract(turns[4].data, 1) <=> c % 8 \in turns[4].data[8 + (c \div 8)]
  <2>1. 8 * 0 + (c \div 8) = c \div 8 /\ 8 * 1 + (c \div 8) = 8 + (c \div 8)
    BY Digits
  <2> QED BY <2>1 DEF Extract
<1>12. ASSUME NEW c \in Bits
       PROVE  c \in Extract(turns[4].data, 0) \/ c \in Extract(turns[4].data, 1)
                <=> \E b \in 0 .. 7 : 8 * (c \div 8) + b \in w /\ 8 * (c % 8) + b \in that
  <2> DEFINE p == c \div 8
             q == c % 8
             Both == \E b \in 0 .. 7 : 8 * p + b \in w /\ 8 * q + b \in that
  <2>1. p \in 0 .. 7 /\ q \in 0 .. 7
    BY Digits
  <2> HIDE DEF p, q
  <2>2. p \in ByteLanes /\ 8 + p \in ByteLanes
    BY <2>1 DEF ByteLanes
  <2>3. ASSUME NEW n \in ByteLanes, n = p \/ n = 8 + p, q \in turns[4].data[n] PROVE Both
    <3>1. PICK k \in 0 .. 3 : Meet(k, n) /\ q = Faced(k, n)
      BY <1>9, <2>1, <2>3
    <3> QED BY <1>10, <2>1, <2>3, <3>1
  <2>4. ASSUME Both PROVE q \in turns[4].data[p] \/ q \in turns[4].data[8 + p]
    <3>1. PICK k \in 0 .. 3 : Faced(k, p) = q \/ Faced(k, 8 + p) = q
      BY <2>1, FacedFacts
    <3>2. CASE Faced(k, p) = q
      <4>1. Meet(k, p)
        BY <1>10, <2>1, <2>2, <2>4, <3>2
      <4> QED BY <1>9, <2>1, <2>2, <3>2, <4>1
    <3>3. CASE Faced(k, 8 + p) = q
      <4>1. Meet(k, 8 + p)
        BY <1>10, <2>1, <2>2, <2>4, <3>3
      <4> QED BY <1>9, <2>1, <2>2, <3>3, <4>1
    <3> QED BY <3>1, <3>2, <3>3
  <2>5. Both <=> q \in turns[4].data[p] \/ q \in turns[4].data[8 + p]
    BY <2>2, <2>3, <2>4
  <2> QED BY <1>11, <2>5 DEF p, q
<1>13. Extract(turns[4].data, 0) \in SUBSET Bits /\ Extract(turns[4].data, 1) \in SUBSET Bits
  BY DEF Extract
<1> QED BY <1>3, <1>12, <1>13 DEF Meeting

\* In the product entry k of a row meets row k of the other matrix.
LEMMA ProductIs ==
  ASSUME NEW w \in SUBSET Bits, NEW u \in SUBSET Bits
  PROVE  /\ Product(w, u) \in SUBSET Bits
         /\ \A c \in Bits : c \in Product(w, u)
              <=> \E k \in 0 .. 7 : 8 * (c \div 8) + k \in w /\ 8 * k + (c % 8) \in u
<1>1. Product(w, u) = Meeting(w, Transposed(u))
  BY MultIs, TransposedIs, TransposeIs DEF Product
<1>2. ASSUME NEW c \in Bits, NEW k \in 0 .. 7
      PROVE  8 * (c % 8) + k \in Transposed(u) <=> 8 * k + (c % 8) \in u
  <2>1. c % 8 \in 0 .. 7
    BY Digits
  <2>2. 8 * (c % 8) + k \in Bits /\ Across(8 * (c % 8) + k) = 8 * k + (c % 8)
    BY <2>1, AcrossFacts, Composed
  <2> QED BY <2>2 DEF Transposed
<1> QED BY <1>1, <1>2 DEF Meeting

LEMMA ProductEntries ==
  ASSUME NEW w \in SUBSET Bits, NEW u \in SUBSET Bits
  PROVE  IsProduct(w, u, Product(w, u))
<1>1. ASSUME NEW i \in 0 .. 7, NEW j \in 0 .. 7
      PROVE  Entry(Product(w, u), i, j) <=> \E k \in 0 .. 7 : Entry(w, i, k) /\ Entry(u, k, j)
  <2> DEFINE c == 63 - (8 * i + j)
  <2>1. c \in Bits /\ c \div 8 = 7 - i /\ c % 8 = 7 - j
    <3>1. c = 8 * (7 - i) + (7 - j) /\ 7 - i \in 0 .. 7 /\ 7 - j \in 0 .. 7
      OBVIOUS
    <3> QED BY <3>1, Composed
  <2>2. Entry(Product(w, u), i, j) <=> c \in Product(w, u)
    BY ProductIs, EntryIs
  <2>3. \A k \in 0 .. 7 : /\ Entry(w, i, k) <=> 63 - (8 * i + k) \in w
                          /\ Entry(u, k, j) <=> 63 - (8 * k + j) \in u
    BY EntryIs
  <2> HIDE DEF c
  <2>4. c \in Product(w, u) <=> \E k \in 0 .. 7 : 8 * (7 - i) + k \in w /\ 8 * k + (7 - j) \in u
    BY <2>1, ProductIs
  <2>5. \A k \in 0 .. 7 : /\ 7 - k \in 0 .. 7 /\ 7 - (7 - k) = k
                          /\ 63 - (8 * i + k) = 8 * (7 - i) + (7 - k)
                          /\ 63 - (8 * k + j) = 8 * (7 - k) + (7 - j)
    OBVIOUS
  <2>6. \A k \in 0 .. 7 : /\ Entry(w, i, k) <=> 8 * (7 - i) + (7 - k) \in w
                          /\ Entry(u, k, j) <=> 8 * (7 - k) + (7 - j) \in u
    BY <2>3, <2>5
  <2>7. ASSUME NEW k \in 0 .. 7, Entry(w, i, k), Entry(u, k, j) PROVE c \in Product(w, u)
    BY <2>4, <2>5, <2>6, <2>7
  <2>8. ASSUME NEW k \in 0 .. 7, 8 * (7 - i) + k \in w, 8 * k + (7 - j) \in u
        PROVE  Entry(w, i, 7 - k) /\ Entry(u, 7 - k, j)
    <3>1. 7 - k \in 0 .. 7 /\ 7 - (7 - k) = k
      BY <2>5
    <3> QED BY <2>6, <2>8, <3>1
  <2>9. \A k \in 0 .. 7 : 7 - k \in 0 .. 7
    BY <2>5
  <2> QED BY <2>2, <2>4, <2>7, <2>8, <2>9
<1> QED BY <1>1 DEF IsProduct

LEMMA OnesIs ==
  /\ ones(8) \in SUBSET Bits
  /\ \A p, q \in 0 .. 7 : 8 * p + q \in ones(8) <=> p = q
<1>1. \A i \in 0 .. 7 : BIT_MASK(i, i) = 8 * (7 - i) + (7 - i) /\ 7 - i \in 0 .. 7
  BY DEF BIT_MASK
<1>2. ones(8) = {BIT_MASK(i, i) : i \in 0 .. 7}
  <2>1. 8 - 1 = 7
    OBVIOUS
  <2> QED BY <2>1 DEF ones
<1>3. ones(8) \in SUBSET Bits
  BY <1>1, <1>2, Composed
<1>4. ASSUME NEW p \in 0 .. 7, NEW q \in 0 .. 7
      PROVE  8 * p + q \in ones(8) <=> p = q
  <2>1. ASSUME 8 * p + q \in ones(8) PROVE p = q
    <3>1. PICK i \in 0 .. 7 : 8 * p + q = 8 * (7 - i) + (7 - i)
      BY <1>1, <1>2, <2>1
    <3> QED BY <3>1
  <2>2. ASSUME p = q PROVE 8 * p + q \in ones(8)
    <3>1. 7 - p \in 0 .. 7 /\ 7 - (7 - p) = p
      OBVIOUS
    <3>2. BIT_MASK(7 - p, 7 - p) = 8 * p + q
      BY <1>1, <2>2, <3>1
    <3> QED BY <1>2, <3>1, <3>2
  <2> QED BY <2>1, <2>2
<1> QED BY <1>3, <1>4

LEMMA OnesNeutral ==
  ASSUME NEW w \in SUBSET Bits
  PROVE  Product(w, ones(8)) = w /\ Product(ones(8), w) = w
<1>1. ASSUME NEW c \in Bits PROVE c \in Product(w, ones(8)) <=> c \in w
  <2>1. /\ c \div 8 \in 0 .. 7 /\ c % 8 \in 0 .. 7 /\ c = 8 * (c \div 8) + (c % 8)
    BY Digits
  <2>2. c \in Product(w, ones(8))
          <=> \E k \in 0 .. 7 : 8 * (c \div 8) + k \in w /\ 8 * k + (c % 8) \in ones(8)
    BY ProductIs, OnesIs
  <2>3. \A k \in 0 .. 7 : 8 * k + (c % 8) \in ones(8) <=> k = c % 8
    BY <2>1, OnesIs
  <2> QED BY <2>1, <2>2, <2>3
<1>2. ASSUME NEW c \in Bits PROVE c \in Product(ones(8), w) <=> c \in w
  <2>1. /\ c \div 8 \in 0 .. 7 /\ c % 8 \in 0 .. 7 /\ c = 8 * (c \div 8) + (c % 8)
    BY Digits
  <2>2. c \in Product(ones(8), w)
          <=> \E k \in 0 .. 7 : 8 * (c \div 8) + k \in ones(8) /\ 8 * k + (c % 8) \in w
    BY ProductIs, OnesIs
  <2>3. \A k \in 0 .. 7 : 8 * (c \div 8) + k \in ones(8) <=> c \div 8 = k
    BY <2>1, OnesIs
  <2> QED BY <2>1, <2>2, <2>3
<1>3. Product(w, ones(8)) \in SUBSET Bits /\ Product(ones(8), w) \in SUBSET Bits
  BY ProductIs, OnesIs
<1> QED BY <1>1, <1>2, <1>3

\* The row, counted from the last, that is moved to row g by p.
Moved(p, g) == rev8[p[7 - g]]

LEMMA PermutedIs ==
  ASSUME NEW w \in SUBSET Bits, NEW p \in [ByteLanes -> ByteLanes]
  PROVE  /\ \A g \in 0 .. 7 : Moved(p, g) \in ByteLanes
         /\ row_permuted(w, p) \in SUBSET Bits
         /\ \A c \in Bits : c \in row_permuted(w, p)
              <=> Moved(p, c \div 8) < 8 /\ 8 * Moved(p, c \div 8) + (c % 8) \in w
<1> DEFINE R == Register({}, w)
           S == Shuffled(Shuffled(Shuffled(R, rev8), p), rev8)
<1>1. \A n \in ByteLanes : rev8[n] \in ByteLanes /\ (n < 8 => rev8[n] = 7 - n)
  BY DEF rev8, ByteLanes
<1>2. \A g \in 0 .. 7 : g \in ByteLanes /\ 7 - g \in ByteLanes /\ g < 8
  BY DEF ByteLanes
<1>3. \A g \in 0 .. 7 : p[7 - g] \in ByteLanes /\ Moved(p, g) \in ByteLanes
  BY <1>1, <1>2 DEF Moved
<1> HIDE DEF R
<1>4. ASSUME NEW g \in 0 .. 7 PROVE S[g] = R[Moved(p, g)]
  <2>1. S[g] = Shuffled(Shuffled(R, rev8), p)[7 - g]
    BY <1>1, <1>2 DEF Shuffled
  <2>2. Shuffled(Shuffled(R, rev8), p)[7 - g] = Shuffled(R, rev8)[p[7 - g]]
    BY <1>2 DEF Shuffled
  <2>3. Shuffled(R, rev8)[p[7 - g]] = R[rev8[p[7 - g]]]
    BY <1>3 DEF Shuffled
  <2> QED BY <2>1, <2>2, <2>3 DEF Moved
<1>5. row_permuted(w, p) = Extract(S, 0)
  BY DEF row_permuted, R
<1> HIDE DEF S
<1>6. ASSUME NEW c \in Bits
      PROVE  c \in Extract(S, 0) <=> Moved(p, c \div 8) < 8 /\ 8 * Moved(p, c \div 8) + (c % 8) \in w
  <2>1. /\ c \div 8 \in 0 .. 7 /\ c % 8 \in 0 .. 7 /\ 8 * 0 + (c \div 8) = c \div 8
    BY Digits
  <2>2. c \in Extract(S, 0) <=> c % 8 \in R[Moved(p, c \div 8)]
    BY <1>4, <2>1 DEF Extract
  <2> DEFINE n == Moved(p, c \div 8)
  <2>3. n \in ByteLanes
    BY <1>3, <2>1
  <2> HIDE DEF n
  <2>4. c % 8 \in R[n] <=> 8 * (n % 8) + (c % 8) \in IF n < 8 THEN w ELSE {}
    BY <2>1, <2>3 DEF R, Register
  <2>5. n < 8 => n % 8 = n
    BY <2>3, Z3 DEF ByteLanes
  <2> QED BY <2>2, <2>4, <2>5 DEF n
<1>7. Extract(S, 0) \in SUBSET Bits
  BY DEF Extract
<1> QED BY <1>3, <1>5, <1>6, <1>7

LEMMA PermutesByProduct ==
  ASSUME NEW w \in SUBSET Bits, NEW p \in [ByteLanes -> ByteLanes]
  PROVE  /\ row_permuted(w, p) = Product(row_permutation_matrix(p), w)
         /\ col_permuted(w, p) = Product(w, col_permutation_matrix(p))
<1> DEFINE P == row_permuted(ones(8), p)
<1>1. P \in SUBSET Bits
  BY OnesIs, PermutedIs
<1>2. ASSUME NEW g \in 0 .. 7, NEW k \in 0 .. 7
      PROVE  8 * g + k \in P <=> Moved(p, g) < 8 /\ k = Moved(p, g)
  <2>1. 8 * g + k \in Bits /\ (8 * g + k) \div 8 = g /\ (8 * g + k) % 8 = k
    BY Composed
  <2>2. 8 * g + k \in P <=> Moved(p, g) < 8 /\ 8 * Moved(p, g) + k \in ones(8)
    BY <2>1, OnesIs, PermutedIs
  <2>3. Moved(p, g) \in ByteLanes
    BY PermutedIs
  <2>4. Moved(p, g) < 8 => Moved(p, g) \in 0 .. 7
    BY <2>3 DEF ByteLanes
  <2> QED BY <2>2, <2>4, OnesIs
<1> HIDE DEF P
<1>3. \A g \in 0 .. 7 : Moved(p, g) < 8 => Moved(p, g) \in 0 .. 7
  <2>1. \A g \in 0 .. 7 : Moved(p, g) \in ByteLanes
    BY PermutedIs
  <2> QED BY <2>1 DEF ByteLanes
<1>4. row_permuted(w, p) = Product(P, w)
  <2>1. row_permuted(w, p) \in SUBSET Bits /\ Product(P, w) \in SUBSET Bits
    BY <1>1, PermutedIs, ProductIs
  <2>2. ASSUME NEW c \in Bits PROVE c \in row_permuted(w, p) <=> c \in Product(P, w)
    <3>1. c \div 8 \in 0 .. 7
      BY Digits
    <3>2. c \in row_permuted(w, p)
            <=> Moved(p, c \div 8) < 8 /\ 8 * Moved(p, c \div 8) + (c % 8) \in w
      BY PermutedIs
    <3>3. c \in Product(P, w)
            <=> \E k \in 0 .. 7 : 8 * (c \div 8) + k \in P /\ 8 * k + (c % 8) \in w
      BY <1>1, ProductIs
    <3> QED BY <1>2, <1>3, <3>1, <3>2, <3>3
  <2> QED BY <2>1, <2>2
<1>5. col_permuted(w, p) = Product(w, transpose(P))
  <2>1. /\ Transposed(w) \in SUBSET Bits /\ Transposed(P) \in SUBSET Bits
        /\ transpose(w) = Transposed(w) /\ transpose(P) = Transposed(P)
    BY <1>1, TransposedIs, TransposeIs
  <2> DEFINE Q == row_permuted(Transposed(w), p)
  <2>2. Q \in SUBSET Bits
    BY <2>1, PermutedIs
  <2>3. col_permuted(w, p) = Transposed(Q)
    BY <2>1, <2>2, TransposeIs DEF col_permuted
  <2>4. ASSUME NEW c \in Bits PROVE c \in Transposed(Q) <=> c \in Product(w, Transposed(P))
    <3>1. c \div 8 \in 0 .. 7 /\ c % 8 \in 0 .. 7
      BY Digits
    <3> DEFINE g == c \div 8
               q == c % 8
    <3> HIDE DEF g, q
    <3>2. /\ g \in 0 .. 7 /\ q \in 0 .. 7 /\ Across(c) = 8 * q + g
          /\ 8 * q + g \in Bits /\ (8 * q + g) \div 8 = q /\ (8 * q + g) % 8 = g
      BY <3>1, Composed DEF g, q, Across
    <3>3. c \in Transposed(Q) <=> Moved(p, q) < 8 /\ 8 * Moved(p, q) + g \in Transposed(w)
      BY <2>1, <3>2, PermutedIs DEF Transposed
    <3>4. \A h \in 0 .. 7 : 8 * h + g \in Transposed(w) <=> 8 * g + h \in w
      BY <3>2, AcrossFacts, Composed DEF Transposed
    <3>5. \A k \in 0 .. 7 : 8 * k + q \in Transposed(P) <=> 8 * q + k \in P
      BY <3>2, AcrossFacts, Composed DEF Transposed
    <3>6. c \in Product(w, Transposed(P))
            <=> \E k \in 0 .. 7 : 8 * g + k \in w /\ 8 * k + q \in Transposed(P)
      BY <2>1, ProductIs DEF g, q
    <3>7. \A k \in 0 .. 7 : 8 * q + k \in P <=> Moved(p, q) < 8 /\ k = Moved(p, q)
      BY <1>2, <3>2
    <3> QED BY <1>3, <3>2, <3>3, <3>4, <3>5, <3>6, <3>7
  <2>5. Transposed(Q) \in SUBSET Bits /\ Product(w, Transposed(P)) \in SUBSET Bits
    BY <2>1, <2>2, TransposedIs, ProductIs
  <2> HIDE DEF Q
  <2>6. Transposed(Q) = Product(w, Transposed(P))
    BY <2>4, <2>5
  <2> QED BY <2>1, <2>3, <2>6
<1> QED BY <1>4, <1>5 DEF P, row_permutation_matrix, col_permutation_matrix

\* The rows from the first, and the lanes of the reversed register.
LEMMA RowsAre ==
  ASSUME NEW w \in SUBSET Bits
  PROVE  /\ \A i \in 0 .. 7 : rows(w)[i] = {b \in 0 .. 7 : 8 * (7 - i) + b \in w}
         /\ \A n \in ByteLanes : Register(w, {})[15 - n] = IF n < 8 THEN rows(w)[n] ELSE {}
<1>1. ASSUME NEW i \in 0 .. 7 PROVE rows(w)[i] = {b \in 0 .. 7 : 8 * (7 - i) + b \in w}
  <2>1. rows(w)[i] = {b \in 0 .. 7 : 56 + b \in Shl(w, 8 * i)}
    BY DEF rows
  <2>2. ASSUME NEW b \in 0 .. 7 PROVE 56 + b \in Shl(w, 8 * i) <=> 8 * (7 - i) + b \in w
    <3>1. 56 + b \in Bits /\ 8 * i \in Nat /\ (56 + b) - 8 * i = 8 * (7 - i) + b
      BY DEF Bits
    <3> QED BY <3>1, Shifts
  <2> QED BY <2>1, <2>2
<1>2. ASSUME NEW n \in ByteLanes
      PROVE  Register(w, {})[15 - n] = IF n < 8 THEN rows(w)[n] ELSE {}
  <2>1. 15 - n \in ByteLanes /\ (n < 8 <=> ~(15 - n < 8)) /\ (n < 8 => (15 - n) % 8 = 7 - n /\ n \in 0 .. 7)
    BY Z3 DEF ByteLanes
  <2>2. Register(w, {})[15 - n]
          = {b \in 0 .. 7 : 8 * ((15 - n) % 8) + b \in IF 15 - n < 8 THEN {} ELSE w}
    BY <2>1 DEF Register
  <2>3. CASE n < 8
    BY <1>1, <2>1, <2>2, <2>3
  <2>4. CASE ~(n < 8)
    BY <2>1, <2>2, <2>4
  <2> QED BY <2>3, <2>4
<1> QED BY <1>1, <1>2

LEMMA RowsCounted ==
  ASSUME NEW w \in SUBSET Bits
  PROVE  nr_rows(w) = Cardinality({i \in 0 .. 7 : rows(w)[i] # {}})
<1> DEFINE S == {i \in 0 .. 7 : rows(w)[i] # {}}
           T == {n \in ByteLanes : Register(w, {})[n] # {}}
           f == [i \in S |-> 15 - i]
<1>1. \A n \in ByteLanes : 15 - n \in ByteLanes /\ 15 - (15 - n) = n
  BY DEF ByteLanes
<1>2. \A i \in 0 .. 7 : i \in ByteLanes /\ i < 8 /\ Register(w, {})[15 - i] = rows(w)[i]
  <2>1. \A i \in 0 .. 7 : i \in ByteLanes /\ i < 8
    BY DEF ByteLanes
  <2> QED BY <2>1, RowsAre
<1>3. \A n \in T : 15 - n \in S
  <2>1. ASSUME NEW n \in T PROVE 15 - n \in S
    <3>1. n \in ByteLanes /\ 15 - n \in ByteLanes /\ 15 - (15 - n) = n
      BY <1>1
    <3>2. Register(w, {})[n] = IF 15 - n < 8 THEN rows(w)[15 - n] ELSE {}
      BY <3>1, RowsAre
    <3>3. 15 - n < 8 /\ rows(w)[15 - n] # {}
      BY <2>1, <3>2
    <3> QED BY <3>1, <3>3 DEF ByteLanes
  <2> QED BY <2>1
<1>4. \A i \in S : 15 - i \in T
  BY <1>1, <1>2
<1> HIDE DEF T
<1>5. \A i, j \in S : 15 - i = 15 - j => i = j
  OBVIOUS
<1>6. \A n \in T : n \in ByteLanes
  BY DEF T
<1> HIDE DEF S
<1>7. f \in Bijection(S, T)
  <2>1. f \in [S -> T]
    BY <1>4
  <2>2. \A i, j \in S : f[i] = f[j] => i = j
    BY <1>5
  <2>3. \A n \in T : \E i \in S : f[i] = n
    <3>1. ASSUME NEW n \in T PROVE \E i \in S : f[i] = n
      <4>1. 15 - n \in S /\ 15 - (15 - n) = n
        BY <1>1, <1>3, <1>6
      <4> QED BY <4>1
    <3> QED BY <3>1
  <2> HIDE DEF f
  <2>4. IsInjective(f)
    BY <2>1, <2>2 DEF IsInjective
  <2> QED BY <2>1, <2>3, <2>4 DEF Bijection, Injection, Surjection
<1>8. ExistsBijection(S, T)
  <2> HIDE DEF f
  <2> QED BY <1>7 DEF ExistsBijection
<1>9. IsFiniteSet(S)
  <2>0. 0 \in Int /\ 7 \in Int
    OBVIOUS
  <2>1. IsFiniteSet(0 .. 7)
    BY <2>0, FS_Interval
  <2> QED BY <2>1, FS_Subset DEF S
<1>10. Cardinality(T) = Cardinality(S)
  BY <1>8, <1>9, FS_Bijection
<1> QED BY <1>10 DEF nr_rows, S, T

(***************************************************************************)
(* On every two matrices and every shuffle of sixteen lanes: the product   *)
(* taken by diagonals is the matrix product; ones(8) is neutral; permuting *)
(* rows or columns is multiplying by the permutation matrix; and nr_rows   *)
(* counts the rows that are not zero.                                      *)
(***************************************************************************)
THEOREM ProductsAreRight ==
  ASSUME NEW w \in SUBSET Bits, NEW u \in SUBSET Bits, NEW p \in [ByteLanes -> ByteLanes]
  PROVE  ProductsRightOn(w, u, p)
BY ProductEntries, OnesNeutral, PermutesByProduct, RowsCounted DEF ProductsRightOn

(***************************************************************************)
(* Whenever multiplying by other permutes the rows of a matrix whose rows  *)
(* differ until they are zero, the action by permutation_of and the loop   *)
(* of right_perm_action_on_basis_ref name the same permutation, and it     *)
(* finds the rows.                                                         *)
(***************************************************************************)
THEOREM ActionsAreRight ==
  ASSUME NEW w \in SUBSET Bits, NEW other \in SUBSET Bits
  PROVE  PermActionOn(w, other)
<1> DEFINE nr      == nr_rows(w)
           used    == {rows(w)[i] : i \in 0 .. nr - 1}
           product == rows(Product(w, other))
           action  == right_perm_action_on_basis(w, other)
           ref     == right_perm_action_on_basis_ref(w, other)
<1> SUFFICES ASSUME {} \notin used, Cardinality(used) = nr,
                    used = {product[i] : i \in 0 .. 7} \ {{}}
             PROVE  action = ref /\ \A i \in 0 .. nr - 1 : product[action[i]] = rows(w)[i]
  BY DEF PermActionOn
<1> DEFINE filled == {i \in 0 .. 7 : rows(w)[i] # {}}
           kept   == {i \in 0 .. 7 : product[i] # {}}
<1>1. IsFiniteSet(filled) /\ IsFiniteSet(kept) /\ nr = Cardinality(filled) /\ nr \in Nat /\ nr <= 8
  <2>1. IsFiniteSet(0 .. 7) /\ Cardinality(0 .. 7) = 8
    <3>1. 0 \in Int /\ 7 \in Int /\ (7 - 0) + 1 = 8 /\ ~(0 > 7)
      OBVIOUS
    <3> QED BY <3>1, FS_Interval
  <2>2. filled \in SUBSET (0 .. 7) /\ kept \in SUBSET (0 .. 7)
    OBVIOUS
  <2>3. IsFiniteSet(filled) /\ Cardinality(filled) <= 8 /\ IsFiniteSet(kept)
    BY <2>1, <2>2, FS_Subset
  <2>4. Cardinality(filled) \in Nat
    BY <2>3, FS_CardinalityType
  <2> QED BY <2>3, <2>4, RowsCounted
\* The rows in use are the first ones.
<1> HIDE DEF nr, product
<1>a. \A i \in 0 .. nr - 1 : i \in 0 .. 7 /\ i < nr
  BY <1>1
<1>b. \A i \in 0 .. nr - 1 : rows(w)[i] # {}
  <2>1. \A i \in 0 .. nr - 1 : rows(w)[i] \in used
    OBVIOUS
  <2> HIDE DEF used
  <2> QED BY <2>1
<1>2. \A i \in 0 .. 7 : rows(w)[i] # {} <=> i < nr
  <2>1. 0 .. nr - 1 \in SUBSET filled
    BY <1>a, <1>b
  <2>2. Cardinality(0 .. nr - 1) = nr
    <3>1. nr - 1 \in Int /\ 0 \in Int
      BY <1>1
    <3>2. Cardinality(0 .. nr - 1) = IF 0 > nr - 1 THEN 0 ELSE (nr - 1) - 0 + 1
      BY <3>1, FS_Interval
    <3> QED BY <1>1, <3>2
  <2>3. filled = 0 .. nr - 1
    BY <1>1, <2>1, <2>2, FS_Subset
  <2>4. \A i \in 0 .. 7 : i \in 0 .. nr - 1 <=> i < nr
    BY <1>1
  <2> QED BY <2>3, <2>4
\* A row that is zero stays zero, so that no two rows of the product are one
\* that is in use.
<1>3. \A i \in 0 .. 7 : product[i] # {} => rows(w)[i] # {}
  <2>1. ASSUME NEW i \in 0 .. 7, product[i] # {} PROVE rows(w)[i] # {}
    <3>1. Product(w, other) \in SUBSET Bits
      BY ProductIs
    <3>6. product[i] = {b \in 0 .. 7 : 8 * (7 - i) + b \in Product(w, other)}
      BY <3>1, RowsAre DEF product
    <3>2. PICK b \in 0 .. 7 : 8 * (7 - i) + b \in Product(w, other)
      BY <2>1, <3>6
    <3>3. 7 - i \in 0 .. 7
      OBVIOUS
    <3>4. 8 * (7 - i) + b \in Bits /\ (8 * (7 - i) + b) \div 8 = 7 - i
      BY <3>3, Composed
    <3>7. \E k \in 0 .. 7 : 8 * ((8 * (7 - i) + b) \div 8) + k \in w
      BY <3>2, <3>4, ProductIs
    <3>5. PICK k \in 0 .. 7 : 8 * (7 - i) + k \in w
      BY <3>4, <3>7
    <3>8. rows(w)[i] = {c \in 0 .. 7 : 8 * (7 - i) + c \in w}
      BY RowsAre
    <3> QED BY <3>5, <3>8
  <2> QED BY <2>1
<1>4. \A i, j \in kept : product[i] = product[j] => i = j
  <2> DEFINE f == [i \in kept |-> product[i]]
  <2>1. f \in Surjection(kept, used)
    <3>1. \A i \in kept : product[i] \in used
      OBVIOUS
    <3>2. \A x \in used : \E i \in kept : product[i] = x
      OBVIOUS
    <3> HIDE DEF used, kept
    <3>3. f \in [kept -> used] /\ \A x \in used : \E i \in kept : f[i] = x
      BY <3>1, <3>2
    <3> QED BY <3>3 DEF Surjection
  <2>2. kept \in SUBSET filled
    BY <1>3
  <2>3. Cardinality(kept) <= nr /\ Cardinality(kept) \in Nat
    BY <1>1, <2>2, FS_Subset, FS_CardinalityType
  <2> HIDE DEF f, used, kept
  <2>4. Cardinality(used) <= Cardinality(kept)
        /\ (Cardinality(used) = Cardinality(kept) <=> f \in Injection(kept, used))
    BY <1>1, <2>1, FS_Surjection
  <2>5. f \in Injection(kept, used)
    BY <1>1, <2>3, <2>4
  <2>6. f \in [kept -> used] /\ IsInjective(f) /\ DOMAIN f = kept
    BY <2>5 DEF Injection
  <2>7. \A i, j \in kept : f[i] = f[j] => i = j
    BY <2>6 DEF IsInjective
  <2> QED BY <2>7 DEF f
<1>5. \A i \in 0 .. nr - 1 : i \in 0 .. 7 /\ \E j \in 0 .. 7 : product[j] = rows(w)[i]
  <2>1. \A i \in 0 .. nr - 1 : rows(w)[i] \in used
    OBVIOUS
  <2>2. \A x \in used : \E j \in 0 .. 7 : product[j] = x
    <3> HIDE DEF used
    <3> QED OBVIOUS
  <2> HIDE DEF used
  <2> QED BY <1>a, <2>1, <2>2
<1> DEFINE Place(row) == LET at == {i \in 0 .. 7 : product[i] = row}
                         IN  IF at = {} THEN 8 ELSE Min(at)
           x == Shuffled(Register(w, {}), [n \in ByteLanes |-> 15 - n])
           y == Shuffled(Register(Product(w, other), {}), [n \in ByteLanes |-> 15 - n])
<1>6. /\ action = [i \in ByteLanes |-> IF x[i] = {} THEN i ELSE CHOOSE j \in ByteLanes : y[j] = x[i]]
      /\ ref = [i \in ByteLanes |-> IF i < nr THEN Place(rows(w)[i]) ELSE i]
  <2>2. action = [i \in ByteLanes |-> IF x[i] = {} THEN i ELSE CHOOSE j \in ByteLanes : y[j] = x[i]]
    BY DEF right_perm_action_on_basis
  <2>3. ref = [i \in ByteLanes |-> IF i < nr THEN Place(rows(w)[i]) ELSE i]
    BY DEF right_perm_action_on_basis_ref, nr, product
  <2> QED BY <2>2, <2>3
<1>7. /\ \A n \in ByteLanes : x[n] = IF n < 8 THEN rows(w)[n] ELSE {}
      /\ \A n \in ByteLanes : y[n] = IF n < 8 THEN product[n] ELSE {}
  <2>1. \A n \in ByteLanes : /\ x[n] = Register(w, {})[15 - n]
                             /\ y[n] = Register(Product(w, other), {})[15 - n]
    BY DEF Shuffled
  <2>2. Product(w, other) \in SUBSET Bits
    BY ProductIs
  <2> QED BY <2>1, <2>2, RowsAre DEF product
<1>8. \A n \in ByteLanes : n < 8 <=> n \in 0 .. 7
  BY DEF ByteLanes
<1>9. \A n \in 0 .. 7 : n \in ByteLanes /\ n < 8
  BY DEF ByteLanes
<1> HIDE DEF x, y, action, ref, used
<1>10. ASSUME NEW i \in 0 .. nr - 1
       PROVE  \E j \in 0 .. 7 : /\ action[i] = j /\ ref[i] = j /\ product[j] = rows(w)[i]
  <2>1. i \in 0 .. 7 /\ i < nr /\ rows(w)[i] # {} /\ i \in ByteLanes /\ x[i] = rows(w)[i]
    BY <1>1, <1>2, <1>5, <1>7, <1>9
  <2>2. PICK j \in 0 .. 7 : product[j] = rows(w)[i]
    BY <1>5
  <2>3. \A k \in 0 .. 7 : product[k] = rows(w)[i] <=> k = j
    BY <1>4, <2>1, <2>2
  <2>4. action[i] = j
    <3>1. j \in ByteLanes /\ y[j] = x[i]
      BY <1>7, <1>9, <2>1, <2>2
    <3>2. \A k \in ByteLanes : y[k] = x[i] => k = j
      BY <1>7, <1>8, <2>1, <2>3
    <3>3. action[i] = CHOOSE k \in ByteLanes : y[k] = x[i]
      BY <1>6, <2>1
    <3> QED BY <3>1, <3>2, <3>3
  <2>5. ref[i] = j
    <3>1. {k \in 0 .. 7 : product[k] = rows(w)[i]} = {j}
      BY <2>3
    <3>2. Min({j}) = j
      <4>1. Min({j}) = CHOOSE k \in {j} : \A l \in {j} : k =< l
        BY DEF Min
      <4>2. \A l \in {j} : j =< l
        OBVIOUS
      <4> QED BY <4>1, <4>2
    <3>3. Place(rows(w)[i]) = j
      BY <3>1, <3>2
    <3> HIDE DEF Place
    <3> QED BY <1>6, <2>1, <3>3
  <2> QED BY <2>2, <2>4, <2>5
<1>11. ASSUME NEW i \in ByteLanes, ~(i < nr) PROVE action[i] = i /\ ref[i] = i
  <2>1. x[i] = {}
    BY <1>2, <1>7, <1>8, <1>11
  <2> HIDE DEF Place
  <2> QED BY <1>6, <1>11, <2>1
<1>12. \A i \in ByteLanes : i < nr => i \in 0 .. nr - 1
  BY <1>1 DEF ByteLanes
<1>13. \A i \in ByteLanes : action[i] = ref[i]
  BY <1>10, <1>11, <1>12
<1>14. action = ref
  <2> HIDE DEF Place
  <2> QED BY <1>6, <1>13
<1> QED BY <1>10, <1>14

-----------------------------------------------------------------------------
(* The matrices of the runs are words of 64 bits.                          *)

LEMMA WordsAreWords ==
  /\ Word \in SUBSET Bits /\ Other \in SUBSET Bits /\ Shift \in [ByteLanes -> ByteLanes]
<1>1. Word \in SUBSET Bits
  BY DEF Word
<1>2. Other \in SUBSET Bits
  <2>1. \A b \in Bits : 63 - b \in Bits
    BY DEF Bits
  <2>2. 0 \in Bits /\ 9 \in Bits /\ 63 \in Bits
    BY DEF Bits
  <2> QED BY <1>1, <2>1, <2>2 DEF Other
<1>3. Cardinality(Word) \in Nat
  <2>1. 0 \in Int /\ 63 \in Int
    OBVIOUS
  <2>2. IsFiniteSet(Bits)
    BY <2>1, FS_Interval DEF Bits
  <2> QED BY <1>1, <2>2, FS_Subset, FS_CardinalityType
<1>4. Shift \in [ByteLanes -> ByteLanes]
  <2> DEFINE k == Cardinality(Word)
  <2>1. \A i \in ByteLanes : (i + k) % 8 \in 0 .. 7 /\ i \in 0 .. 15
    <3> HIDE DEF k
    <3>1. k \in Nat
      BY <1>3 DEF k
    <3> QED BY <3>1 DEF ByteLanes
  <2>2. \A i \in 0 .. 7 : i \in ByteLanes
    BY DEF ByteLanes
  <2> QED BY <2>1, <2>2 DEF Shift
<1> QED BY <1>1, <1>2, <1>4

LEMMA GivenAreWords ==
  \A a \in Actions : a[1] \in SUBSET Bits /\ a[2] \in SUBSET Bits
<1> DEFINE Table(s) == [i \in 1 .. Len(s) |-> [j \in 1 .. Len(s) |-> s[i][j] = 1]]
<1>1. ASSUME NEW s, Len(s) \in 1 .. 8 PROVE M(s) \in SUBSET Bits
  <2>1. Table(s) \in [1 .. Len(s) -> [1 .. Len(s) -> BOOLEAN]]
    OBVIOUS
  <2>2. \A n \in Nat : \A v \in [1 .. n -> [1 .. n -> BOOLEAN]] :
          v \in Seq([1 .. n -> BOOLEAN]) /\ DOMAIN v = 1 .. n
    OBVIOUS
  <2>3. Table(s) \in Seq([1 .. Len(s) -> BOOLEAN]) /\ DOMAIN Table(s) = 1 .. Len(s)
    BY <1>1, <2>1, <2>2
  <2> HIDE DEF Table
  <2>4. Len(Table(s)) = Len(s)
    BY <1>1, <2>3, LenProperties
  <2>5. FromRows(Table(s)) \in SUBSET Bits
    BY <1>1, <2>4, ReadIs
  <2> QED BY <2>5 DEF M, Table
<1> HIDE DEF Table
<1>2. rev8 \in [ByteLanes -> ByteLanes] /\ Turned \in [ByteLanes -> ByteLanes]
  BY Z3 DEF rev8, Turned, ByteLanes
<1>3. \A p \in {rev8, Turned} : row_permutation_matrix(p) \in SUBSET Bits
  BY <1>2, OnesIs, PermutedIs DEF row_permutation_matrix
<1>4. /\ \A a, b, c : Len(<<a, b, c>>) = 3
      /\ \A a, b, c, d : Len(<<a, b, c, d>>) = 4
      /\ 3 \in 1 .. 8 /\ 4 \in 1 .. 8
  OBVIOUS
<1>5. /\ \A a, b, c : M(<<a, b, c>>) \in SUBSET Bits
      /\ \A a, b, c, d : M(<<a, b, c, d>>) \in SUBSET Bits
  <2>1. ASSUME NEW a, NEW b, NEW c PROVE M(<<a, b, c>>) \in SUBSET Bits
    BY <1>1, <1>4
  <2>2. ASSUME NEW a, NEW b, NEW c, NEW d PROVE M(<<a, b, c, d>>) \in SUBSET Bits
    BY <1>1, <1>4
  <2> QED BY <2>1, <2>2
<1> QED BY <1>3, <1>5 DEF Actions

\* All transposes, and the writing, reading, ordering, cutting and setting of entries,
\* agree on every matrix that row_space_bitset is called for.
THEOREM TransposesStayRight == Spec => []TransposesAgree
<1>1. TransposesAgree
  BY WordsAreWords, TransposesAreRight DEF TransposesAgree
<1> QED BY <1>1, PTL

\* So do products, permutations of rows and columns, and the actions on a basis.
THEOREM ProductsStayRight == Spec => []ProductsRight
<1>1. ProductsRightOn(Word, Other, Shift)
  BY WordsAreWords, ProductsAreRight
<1>2. \A a \in Actions : PermActionOn(a[1], a[2])
  BY GivenAreWords, ActionsAreRight
<1>3. PermActionOn(ones(8), row_permutation_matrix(Shift))
  BY WordsAreWords, OnesIs, PermutedIs, ActionsAreRight DEF row_permutation_matrix
<1>4. ProductsRight
  BY <1>1, <1>2, <1>3 DEF ProductsRight
<1> QED BY <1>4, PTL
=============================================================================
