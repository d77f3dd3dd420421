-------------------------------- MODULE Epu8 --------------------------------
(***************************************************************************)
(* The SIMD vector type epu8 of HPCombi: Size unsigned bytes (16 in the    *)
(* library), lane 0 on the left.  A vector is a function from Lane, so     *)
(* that a lane number is also the value the library stores in permutations *)
(* and in shuffle tables.                                                  *)
(*                                                                         *)
(* Size and Byte are parameters: the library has Size = 16 and             *)
(* Byte = 0 .. 255.  The operators below only compare bytes and move them  *)
(* between lanes, so runs use the few byte values their properties tell    *)
(* apart, and the theorems hold for every Size and every set of bytes.     *)
(***************************************************************************)
EXTENDS Integers, Arrangements

CONSTANT Size   \* the number of lanes

ASSUME SizeAssumption == Size \in Nat \ {0}

Lane == 0 .. Size - 1
Vec  == [Lane -> Byte]

\* Epu8.id(): the vector holding its own lane numbers.
Id == [i \in Lane |-> i]

\* Epu8.rev(): the lane numbers from the right.
Rev == [i \in Lane |-> Size - 1 - i]

(***************************************************************************)
(* The byte shuffle a[b]: a selector in Lane picks that lane; the          *)
(* instruction clears the lane when the top bit of the selector is set and *)
(* otherwise reads only the low bits of the selector.                      *)
(***************************************************************************)
Permuted(a, b) ==
  [i \in Lane |-> IF b[i] \in Lane THEN a[b[i]]
                  ELSE IF b[i] >= 128 THEN 0
                  ELSE a[b[i] % Size]]

\* Lanewise minimum and maximum.
VMin(a, b) == [i \in Lane |-> IF a[i] <= b[i] THEN a[i] ELSE b[i]]
VMax(a, b) == [i \in Lane |-> IF a[i] <= b[i] THEN b[i] ELSE a[i]]

\* blendv: where the mask is set the second operand, elsewhere the first.
Blend(a, b, mask) == [i \in Lane |-> IF mask[i] THEN b[i] ELSE a[i]]

\* One lane to the right, a zero entering at lane 0.
ShiftedRight(a) == [i \in Lane |-> IF i = 0 THEN 0 ELSE a[i - 1]]

\* is_sorted: no lane holds less than its left neighbour.
IsSorted(a) == {i \in Lane : ShiftedRight(a)[i] > a[i]} = {}

(***************************************************************************)
(* One round of a comparator network.  Lane i meets lane round[i]; the     *)
(* mask selects the lanes that keep the larger byte: those on the right of *)
(* their partner when sorting up, those on its left when sorting down.     *)
(***************************************************************************)
RoundMask(up, round) ==
  [i \in Lane |-> IF up THEN round[i] < i ELSE i < round[i]]

SortRound(up, x, round) ==
  LET b == Permuted(x, round)
  IN  Blend(VMin(x, b), VMax(x, b), RoundMask(up, round))

\* The 0/1 vector telling which bytes reach the threshold t.
Threshold(a, t) == [i \in Lane |-> IF a[i] >= t THEN 1 ELSE 0]
=============================================================================
