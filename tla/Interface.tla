----------------------------- MODULE Interface -----------------------------
(***************************************************************************)
(* The functions a caller names without a suffix: the choice of an         *)
(* implementation, which depends on the build for some of them, the        *)
(* members of Vect16 and the classes of perm16.hpp that forward to epu8,   *)
(* and the constructors from a list.  native says whether the build has    *)
(* the string instructions (SIMDE_X86_SSE4_2_NATIVE).                      *)
(***************************************************************************)
EXTENDS Recognisers, PartialMaps, PermStatistics

\* testz and testc on a vector; xor has a bit in every lane where the bytes differ.
is_all_zero(v)  == Zeros(v) = Lane
is_all_one(v)   == \A i \in Lane : v[i] = FF
equal(v, w)     == is_all_zero([i \in Lane |-> IF i \in Differ(v, w) THEN 1 ELSE 0])
not_equal(v, w) == ~equal(v, w)
reverted(v)     == Permuted(v, Rev)

first_diff(v, w, bound) == first_diff_mask(v, w, bound)
last_diff(v, w, bound)  == last_diff_mask(v, w, bound)
horiz_sum(v)    == horiz_sum3(v)
partial_sums(v) == partial_sums_round(v)
horiz_max(v)    == horiz_max4(v)
partial_max(v)  == partial_max_round(v)
horiz_min(v)    == horiz_min4(v)
partial_min(v)  == partial_min_round(v)

-----------------------------------------------------------------------------
\* matched: what permutation_of_cmpestrm has returned for v and w.
permutation_of(native, matched, v, w) ==
  IF native THEN matched ELSE permutation_of_ref(v, w)
is_permutation(native, v, k) ==
  IF native THEN is_permutation_cmpestri(v, k) ELSE is_permutation_sort(v, k)
image_mask(native, v, complement) ==
  IF native THEN image_mask_cmpestrm(v, complement) ELSE image_mask_ref(v, complement)
rank(native, v) == IF native THEN rank_cmpestrm(v) ELSE rank_ref(v)

-----------------------------------------------------------------------------
\* What the members of Vect16 return, in the order they are declared.
v16_searches(v, u, bound) ==
  << first_diff(v, u, bound), last_diff(v, u, bound), first_zero(v, bound),
     last_zero(v, bound), first_non_zero(v, bound), last_non_zero(v, bound) >>
v16_comparisons(v, w, k) ==
  << equal(v, w), not_equal(v, w), less(v, w), less_partial(v, w, k) >>
v16_results(v, w) == << Permuted(v, w), horiz_sum(v), partial_sums(v) >>
v16_is_permutation(native, v, k) == is_permutation(native, v, k)

\* validate(k) and the products of the classes.
PTransf16_validate(v, k)      == is_partial_transformation(v, k)
Transf16_validate(v, k)       == is_transformation(v, k)
PPerm16_validate(v, k)        == is_partial_permutation(v, k)
Perm16_validate(native, v, k) == is_permutation(native, v, k)
PPermTimes(v, p)   == Times(v, p)
PermTimes(v, p)    == Permuted(v, p)
PPerm_right_one(v) == right_one(v)
PPerm_left_one(v)  == left_one(v)

\* The hash of a transformation or a permutation is its compressed form.
hash_Transf16(v) == Compress(v)
hash_Perm16(v)   == Compress(v)

\* VectGeneric fills up with a default, PermGeneric with the points themselves.
VectGeneric(il, def) == [i \in Lane |-> IF i < Len(il) THEN il[i + 1] ELSE def]
PermGeneric(il)      == [i \in Lane |-> IF i < Len(il) THEN il[i + 1] ELSE i]

-----------------------------------------------------------------------------
(***************************************************************************)
(* Equality is that of all bytes, VectGeneric's too, reverting twice       *)
(* changes nothing, and the comparisons and searches of Vect16 are those   *)
(* of VectGeneric at every bound.                                          *)
(***************************************************************************)
MembersAgreeOn(v, w) ==
  /\ equal(v, w) <=> vg_equal(v, w)
  /\ is_all_one(v) <=> v = VectGeneric(<<>>, FF)
  /\ reverted(reverted(v)) = v /\ (equal(reverted(v), v) <=> \A i \in 0 .. 7 : v[i] = v[15 - i])
  /\ \A k \in 0 .. Size :
       /\ v16_comparisons(v, w, k)
            = << vg_equal(v, w), ~vg_equal(v, w), vg_less(v, w), vg_less_partial(v, w, k) >>
       /\ v16_searches(v, w, k)
            = << vg_first_diff(v, w, k), vg_last_diff(v, w, k), vg_first_zero(v, k),
                 vg_last_zero(v, k), vg_first_non_zero(v, k), vg_last_non_zero(v, k) >>

(***************************************************************************)
(* The chosen reductions are the loops' and do not depend on the build;    *)
(* a vector that validates for k points is the list of its first k.        *)
(***************************************************************************)
ChoicesAgreeOn(v, w) ==
  /\ v16_results(v, w) = << Permuted(v, w), horiz_sum_gen(v), partial_sums_gen(v) >>
  /\ << horiz_max(v), horiz_min(v) >> = << horiz_max_gen(v), horiz_min_gen(v) >>
  /\ << partial_max(v), partial_min(v) >> = << partial_max_gen(v), partial_min_gen(v) >>
  /\ eval16_gen(v) = eval16_ref(v)
  /\ \A k \in 0 .. Size :
       LET first == [n \in 1 .. k |-> LET i == n - 1 IN v[i]]
       IN  /\ v16_is_permutation(TRUE, v, k) <=> v16_is_permutation(FALSE, v, k)
           /\ PTransf16_validate(v, k) => v = PTransf16(first)
           /\ Perm16_validate(FALSE, v, k) => v = PermGeneric(first)

(***************************************************************************)
(* Rank and image do not depend on the build.  The classes are closed      *)
(* under their products: what validates for k points stays so, and so do   *)
(* the one-sided identities.  Hashes tell transformations apart.           *)
(***************************************************************************)
ClassesClosedOn(v, p) ==
  /\ PTransf16_validate(v, Size) =>
       /\ rank(TRUE, v) = rank(FALSE, v)
       /\ \A c \in BOOLEAN : image_mask(TRUE, v, c) = image_mask(FALSE, v, c)
  /\ \A k \in {8, Size} :
       /\ PTransf16_validate(v, k) /\ PTransf16_validate(p, k) => PTransf16_validate(Times(v, p), k)
       /\ PPerm16_validate(v, k) =>
            /\ PPerm16_validate(PPermTimes(v, v), k)
            /\ PPerm16_validate(PPermTimes(v, PPerm_right_one(v)), k)
            /\ rank(TRUE, PPerm_left_one(v)) = rank(TRUE, PPerm_right_one(v))
       /\ Perm16_validate(TRUE, v, k) => Perm16_validate(TRUE, PermTimes(v, v), k)
  /\ Transf16_validate(v, Size) /\ Transf16_validate(p, Size) =>
       /\ hash_Transf16(v) = hash_Transf16(p) <=> equal(v, p)
       /\ hash_Perm16(PermTimes(v, p)) = hash_Perm16(PermTimes(p, v)) <=>
            equal(PermTimes(v, p), PermTimes(p, v))

\* Both builds name the same inverse of a permutation.
BuildsAgreeOn(v, matched) ==
  Perm16_validate(TRUE, v, Size) =>
    permutation_of(TRUE, matched, v, Id) = permutation_of(FALSE, matched, v, Id)
=============================================================================
