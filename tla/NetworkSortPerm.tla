--------------------------- MODULE NetworkSortPerm ---------------------------
(***************************************************************************)
(* network_sort_perm<Increasing>(v, rounds), which sort_perm and           *)
(* sort8_perm call: it sorts v in place and returns the permutation that   *)
(* sorts it.  It does not take minima and maxima: each lane decides by a   *)
(* strict comparison with its partner whether both exchange their entries, *)
(* and the decision is applied to v and to res alike.  Nothing but the     *)
(* symmetry of the two decisions keeps an entry from being copied twice.   *)
(***************************************************************************)
EXTENDS NetworkSort

VARIABLE res   \* the permutation under construction; v is sorted in place

permVars == <<net, input, up, v, k, res>>

PermInit == Init /\ res = Id

\* Faulty exchanges: ties exchanged by one side, ties exchanged by both sides,
\* the smaller byte taken by both sides.
FaultyExchangeTies(round, x) ==
  LET b == Permuted(x, round)
  IN  [i \in Lane |-> IF RoundMask(up, round)[i] THEN x[i] <= b[i] ELSE b[i] < x[i]]
FaultyExchangeUnstable(round, x) ==
  LET b == Permuted(x, round)
  IN  [i \in Lane |-> IF RoundMask(up, round)[i] THEN x[i] <= b[i] ELSE b[i] <= x[i]]
FaultyExchangeNoMask(round, x) ==
  LET b == Permuted(x, round) IN [i \in Lane |-> b[i] < x[i]]

(***************************************************************************)
(* The lanes that take their partner's entry in a round: those that keep   *)
(* the larger byte when theirs is the smaller one, and conversely.         *)
(***************************************************************************)
Exchange(round, x) ==
  LET b    == Permuted(x, round)
      mask == RoundMask(up, round)
  IN  [i \in Lane |-> IF mask[i] THEN x[i] < b[i] ELSE b[i] < x[i]]

\* A faulty iteration: the entries of v blended into res.
FaultyRoundBlendsV ==
  LET round == Rounds[k + 1]
      cmp   == Exchange(round, v)
  IN  /\ k < Len(Rounds)
      /\ v'   = Blend(v, Permuted(v, round), cmp)
      /\ res' = Blend(res, Permuted(v, round), cmp)
      /\ k'   = k + 1
      /\ UNCHANGED <<net, input, up>>

PermRound ==
  LET round == Rounds[k + 1]
      cmp   == Exchange(round, v)
  IN  /\ k < Len(Rounds)
      /\ v'   = Blend(v, Permuted(v, round), cmp)
      /\ res' = Blend(res, Permuted(res, round), cmp)
      /\ k'   = k + 1
      /\ UNCHANGED <<net, input, up>>

PermSpec == PermInit /\ [][PermRound]_permVars

-----------------------------------------------------------------------------
PermTypeOK == TypeOK /\ res \in [Lane -> Lane]

(***************************************************************************)
(* After every round res is a permutation of the lanes and the argument    *)
(* read through it is the current vector; at the return this is what the   *)
(* tests of sort_perm ask (test_epu8.cpp 337-351).  Ties matter: with      *)
(* equal entries a comparison that is not strict on both sides would give  *)
(* one entry to two lanes.                                                 *)
(***************************************************************************)
ResSortsInput ==
  /\ \A i, j \in Lane : res[i] = res[j] => i = j
  /\ v = Permuted(input, res)

(***************************************************************************)
(* The entries res moves stay in their block: sort8_perm returns two       *)
(* permutations of eight lanes side by side.                               *)
(***************************************************************************)
ResKeepsBlocks == \A B \in Blocks : \A i \in B : res[i] \in B

(***************************************************************************)
(* Exchanging by strict comparison computes the same vector, round by      *)
(* round, as the minima and maxima of network_sort: sort_perm sorts        *)
(* exactly as sorted does, and what holds of network_sort holds of it.     *)
(***************************************************************************)
ImplementsNetworkSort == Spec

(***************************************************************************)
(* No entry is moved once its block is in order, so that the permutation   *)
(* of a sorted argument is the identity, ties included.                    *)
(***************************************************************************)
Stays(i) == v'[i] = v[i] /\ res'[i] = res[i]
InOrderStaysPut ==
  [][\A B \in Blocks : Ordered(v, up, B) => \A i \in B : Stays(i)]_permVars
=============================================================================
