----------------------------- MODULE PartialMaps -----------------------------
(***************************************************************************)
(* PTransf16, Transf16 and PPerm16: partial maps of sixteen points, 0xFF   *)
(* where they are not defined.  Everything rests on the shuffle clearing   *)
(* the lanes whose selector is 0xFF and the mask of those lanes then being *)
(* or-ed in.  A bitset, and a vector that is a mask, is the set of lanes.  *)
(***************************************************************************)
EXTENDS Epu8Reference

\* A vector with all bits set in the lanes of a set.
Undefined(S, v) == [i \in Lane |-> IF i \in S THEN FF ELSE v[i]]

\* The constructors: a prefix followed by the identity, and pairs of points of
\* which a later one wins.
PTransf16(il) == [i \in Lane |-> IF i < Len(il) THEN il[i + 1] ELSE i]
PTransf16Of(dom, rng) ==
  LET set[n \in 0 .. Len(dom)] ==
        IF n = 0 THEN [i \in Lane |-> FF]
        ELSE LET before == set[n - 1] IN [before EXCEPT ![dom[n]] = rng[n]]
  IN  set[Len(dom)]

\* Faulty: the lanes without an image are not marked again.
FaultyTimes(v, p) == Permuted(v, p)
\* v * p: apply p first.
Times(v, p)        == Undefined({i \in Lane : p[i] = FF}, Permuted(v, p))
TransfTimes(v, p)  == Permuted(v, p)

domain_mask(v, complement) == {i \in Lane : IF complement THEN v[i] = FF ELSE v[i] # FF}
right_one(v) == Undefined(domain_mask(v, TRUE), Id)

image_mask_cmpestrm(v, complement) ==
  LET found == EqualAny(v, 16, Id, 16) IN IF complement THEN Lane \ found ELSE found
image_mask_ref(v, complement) ==
  LET res == {v[i] : i \in domain_mask(v, FALSE)} IN IF complement THEN Lane \ res ELSE res
left_one(v) == Undefined(image_mask_cmpestrm(v, TRUE), Id)

rank_ref(v)      == Cardinality({v[i] : i \in {j \in Lane : v[j] # FF}})
rank_cmpestrm(v) == Cardinality(image_mask_cmpestrm(v, FALSE))

fix_points_mask(v, complement) ==
  {i \in Lane : IF complement THEN v[i] # i ELSE v[i] = i}
\* ffs of no bit is 0, and 0 - 1 is the byte 0xFF.
LowestBit(S)  == IF S = {} THEN AsByte(-1) ELSE Min(S)
HighestBit(S) == IF S = {} THEN FF ELSE Max(S)
smallest_fix_point(v)   == LowestBit(fix_points_mask(v, FALSE))
smallest_moved_point(v) == LowestBit(fix_points_mask(v, TRUE))
largest_fix_point(v)    == HighestBit(fix_points_mask(v, FALSE))
largest_moved_point(v)  == HighestBit(fix_points_mask(v, TRUE))
nb_fix_points(v)        == Cardinality(fix_points_mask(v, FALSE))

(***************************************************************************)
(* The compressed form of a transformation: eight bytes, the low nibble of *)
(* byte i the image of i, the high one that of i + 8.  Compressing shifts  *)
(* the bytes within 32-bit words, expanding shifts each by itself.         *)
(***************************************************************************)
hilo_exchng == [i \in Lane |-> IF i < 8 THEN i + 8 ELSE i - 8]
hilo_mask   == [i \in Lane |-> i >= 8]
Expand(c) ==
  LET res == [i \in Lane |-> c[i % 8]]
  IN  Blend([i \in Lane |-> res[i] % 16], [i \in Lane |-> res[i] \div 16], hilo_mask)
Compress(v) ==
  LET shifted == [i \in Lane |-> AsByte(16 * v[i]) + IF i % 4 = 0 THEN 0 ELSE v[i - 1] \div 16]
      res     == VAdd(Permuted(shifted, hilo_exchng), v)
  IN  [i \in 0 .. 7 |-> res[i]]

inverse_ref(v) ==
  LET set[n \in 0 .. Size] ==
        IF n = 0 THEN [i \in Lane |-> FF]
        ELSE LET before == set[n - 1]
             IN  IF v[n - 1] < 16 THEN [before EXCEPT ![v[n - 1]] = n - 1] ELSE before
  IN  set[Size]
\* From what permutation_of(v, one) has returned.
inverse_find(v, position) == Undefined(Lane \ EqualAny(v, 16, Id, 16), position)

-----------------------------------------------------------------------------
IsPartial(v)      == \A i \in Lane : v[i] \in Lane \cup {FF}
IsTotal(v)        == \A i \in Lane : v[i] \in Lane
DefinedOn(v)      == {i \in Lane : v[i] # FF}
ImageOf(v)        == {v[i] : i \in DefinedOn(v)}
IsPartialPerm(v)  == IsPartial(v) /\ Cardinality(ImageOf(v)) = Cardinality(DefinedOn(v))

(***************************************************************************)
(* The product of partial maps is composition: defined where both are,     *)
(* associative, with the one-sided identities as neutral elements, which   *)
(* are those of the domain and of the image.                               *)
(***************************************************************************)
CompositionOn(v, p) ==
  IsPartial(v) /\ IsPartial(p) =>
    /\ Times(v, p) = [i \in Lane |-> IF p[i] = FF THEN FF ELSE v[p[i]]]
    /\ Times(Times(p, v), p) = Times(p, Times(v, p))
    /\ IsTotal(v) /\ IsTotal(p) => TransfTimes(v, p) = Times(v, p)
    /\ Times(v, right_one(v)) = v /\ Times(left_one(v), v) = v
    /\ DefinedOn(right_one(v)) = DefinedOn(v) /\ DefinedOn(left_one(v)) = ImageOf(v)

(***************************************************************************)
(* Image, rank and fixed points by mask are those by loop; a partial map   *)
(* is rebuilt from the pairs of its points and images; compressing a       *)
(* transformation to 64 bits loses nothing.                                *)
(***************************************************************************)
PointsOn(v) ==
  IsPartial(v) =>
    LET diff == first_diff_mask(v, Id, Size)
        last == last_diff_mask(v, Id, Size)
        At(n) == v[n - 1]
    IN  /\ \A c \in BOOLEAN : image_mask_cmpestrm(v, c) = image_mask_ref(v, c)
        /\ rank_cmpestrm(v) = rank_ref(v)
        /\ smallest_moved_point(v) = IF diff = Size THEN FF ELSE diff
        /\ largest_moved_point(v) = IF last = Size THEN FF ELSE last
        /\ nb_fix_points(v) = 0 <=> smallest_fix_point(v) = FF
        /\ smallest_fix_point(v) = FF <=> largest_fix_point(v) = FF
        /\ PTransf16([n \in 1 .. Size |-> At(n)]) = v
        /\ IsTotal(v) =>
             /\ PTransf16Of([n \in 1 .. Size |-> n - 1], [n \in 1 .. Size |-> At(n)]) = v
             /\ Expand(Compress(v)) = v

(***************************************************************************)
(* inverse_find inverts partial permutations, though permutation_of says   *)
(* nothing of the points that have no preimage: p i p = p and i p i = i    *)
(* (perm16.hpp 186-200).                                                   *)
(***************************************************************************)
InverseOn(v, position) ==
  IsPartialPerm(v) =>
    LET inv == inverse_find(v, position)
    IN  /\ inv = inverse_ref(v)
        /\ Times(v, Times(inv, v)) = v
        /\ Times(inv, Times(v, inv)) = inv
=============================================================================
