------------------------------- MODULE Vectors -------------------------------
(***************************************************************************)
(* The vector functions together: the loops of LaneLoops run on their      *)
(* arguments, and on the same arguments the functions without a state of   *)
(* their own are compared with each other and with what they promise.      *)
(***************************************************************************)
EXTENDS LaneLoops, Interface, Experiments

Called(p)   == prog = p /\ k = 0
Finished(p) == prog = p /\ done

(***************************************************************************)
(* Every implementation of a search and of a comparison, those of Vect16   *)
(* and VectGeneric included, gives the same answer at every bound, and it  *)
(* is the documented one (epu8.hpp 478-591);                               *)
(* remove_dups keeps one of each byte of a sorted vector.                  *)
(***************************************************************************)
SearchesRight ==
  Called("permutation_of") \/ Called("eval16_cycle") =>
    /\ SearchesAgreeOn(a, b)
    /\ OrderOn(a, b)
    /\ MembersAgreeOn(a, b)
    /\ ShufflesAgreeOn(b, a)
    /\ DupsRemovedOn(Sorted(a), 254)

(***************************************************************************)
(* Reductions and recognisers: the fast forms and the loops agree on every *)
(* vector and accept exactly the maps their documentation describes        *)
(* (epu8.hpp 592-680).                                                     *)
(***************************************************************************)
RecognisersRight ==
  Called("eval16_cycle") =>
    ReductionsAgreeOn(a) /\ RecognisersRightOn(a) /\ ChoicesAgreeOn(a, b)

(***************************************************************************)
(* Partial maps compose, restrict and invert as maps do, with 0xFF for an  *)
(* undefined point, the classes are closed under their products, and the   *)
(* result does not depend on the build (perm16.hpp 53-288).                *)
(***************************************************************************)
PartialMapsRight ==
  /\ Called("eval16_cycle") => CompositionOn(a, b) /\ PointsOn(a) /\ ClassesClosedOn(a, b)
  /\ Finished("permutation_of") /\ b = Id => InverseOn(a, res) /\ BuildsAgreeOn(a, res)

(***************************************************************************)
(* The statistics of permutations agree, the weak order is that of the     *)
(* lengths, and unrankSJT visits every permutation of up to five points by *)
(* exchanges of neighbours (perm16.hpp 310-440).                           *)
(***************************************************************************)
StatisticsRight ==
  /\ Finished("cycles_partition") => StatisticsOn(a, x)
  /\ Called("left_weak_leq") => WeakOrderOn(a, b)
  /\ Called("lehmer") /\ a = Id =>
       /\ \A n \in 1 .. 5 : RankedOnce(n)
       /\ \A i \in Lane : TranspositionsOn(i)
       /\ HistogramsOn

(***************************************************************************)
(* The networks of the prototype sorts order signed bytes.  Sorting by     *)
(* counting, the shuffles of longer permutations, the search for patterns  *)
(* of three among six entries, the iterator over equal entries and the     *)
(* powers of words do what the plain loops do.                             *)
(***************************************************************************)
PrototypesRight ==
  /\ Finished("sort_pair") \/ Finished("sort_odd_even") =>
       \A i \in 1 .. 15 : Signed(x[i - 1]) <= Signed(x[i])
  /\ Called("sort_pair") /\ (\A i \in Lane : a[i] < 16) => radix_sort(a) = Sorted(a)
  /\ Called("eval16_cycle") => ExamplesOn(a)
  /\ Called("lehmer") => BlocksPermutedOn(a) /\ PatternsOn(a, 6, 3)
  /\ Called("lehmer") /\ a = Id => MainsPrint
=============================================================================
