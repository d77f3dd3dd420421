--------------------------- MODULE MC_Enumeration ---------------------------
(***************************************************************************)
(* The enumerations of the run: the monoids of type D of rank 1, 2 and 3,  *)
(* whose generators begin the lists of the examples, the transformations   *)
(* of three and four points, and the images of the eight transformations   *)
(* of image.cpp.                                                           *)
(***************************************************************************)
EXTENDS Enumeration

Bytes == 0 .. 255

Kinds == [D1 |-> "act0", D2 |-> "act0", D3 |-> "act0",
          T3 |-> "product", T4 |-> "product", images |-> "image"]
Generators ==
  [D1 |-> <<gene, genf>>, D2 |-> <<gene, genf, s1e, s1f>>,
   D3 |-> <<gene, genf, s1e, s1f, swap(2)>>,
   T3 |-> trans_gens(3), T4 |-> trans_gens(4), images |-> image_gens]

\* RD.cpp 118-119 for the first three.
Sizes == [D1 |-> 4, D2 |-> 37, D3 |-> 541, T3 |-> 27, T4 |-> 256, images |-> 179]
MonoidIsRight == MonoidRight(Sizes)
=============================================================================
