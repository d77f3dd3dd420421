----------------------------- MODULE RowClosure -----------------------------
(***************************************************************************)
(* BMat8::row_space_bitset_ref: the row space by closing the canonical     *)
(* basis under union.  The function calls row_space_basis, which is        *)
(* RowBasis, and goes on when that has returned.  Its loop runs over a     *)
(* vector to which it appends: every row found is combined with every row  *)
(* of the basis, and the unions not seen before go to the end.             *)
(***************************************************************************)
EXTENDS RowBasis, Sequences

VARIABLES
  phase,      \* in row_space_basis, gathering row_vec, closing, or returned
  basis,      \* the rows that row_space_basis().rows() has returned
  row_vec,    \* those of them that are not empty
  lookup,     \* the bitset under construction: the rows found
  row_space,  \* the same without the empty row, in the order found
  at, with    \* the next pair: row_space[at] and row_vec[with]

own         == <<phase, basis, row_vec, lookup, row_space, at, with>>
closureVars == <<vars, own>>

Elements(s) == {s[n] : n \in DOMAIN s}

ClosureInit ==
  /\ Init
  /\ phase = "basis"
  /\ basis = << >> /\ row_vec = << >> /\ row_space = << >>
  /\ lookup = {}
  /\ at = 1 /\ with = 1

\* row_space_basis runs.
InBasis ==
  /\ phase = "basis"
  /\ Next
  /\ UNCHANGED own

\* It has returned.
Take ==
  /\ phase = "basis" /\ pc = "done"
  /\ basis' = Rows(res)
  /\ phase' = "gather"
  /\ UNCHANGED <<vars, row_vec, lookup, row_space, at, with>>

\* std::remove drops the empty rows; the others are looked up from now on.
Gather ==
  /\ phase = "gather" /\ at <= Len(basis)
  /\ IF basis[at] = {} THEN UNCHANGED <<row_vec, lookup>>
     ELSE /\ row_vec' = Append(row_vec, basis[at])
          /\ lookup' = lookup \cup {basis[at]}
  /\ at' = at + 1
  /\ UNCHANGED <<vars, phase, basis, row_space, with>>

\* The empty row is in every space; the vector starts as a copy of row_vec.
Start ==
  /\ phase = "gather" /\ at > Len(basis)
  /\ lookup' = lookup \cup {{}}
  /\ row_space' = row_vec
  /\ phase' = "close"
  /\ at' = 1
  /\ UNCHANGED <<vars, basis, row_vec, with>>

\* Faulty: the outer loop stays where it is.
FaultyAdvance ==
  IF with < Len(row_vec) THEN with' = with + 1 /\ at' = at
                         ELSE with' = 1 /\ at' = at

\* The next pair.
Advance ==
  IF with < Len(row_vec) THEN with' = with + 1 /\ at' = at
                         ELSE with' = 1 /\ at' = at + 1

\* Faulty iterations: a new row is appended but not looked up, and looked up but
\* not appended.
FaultyCloseBlind ==
  /\ phase = "close" /\ at <= Len(row_space)
  /\ LET x == row_space[at] \cup row_vec[with]
     IN  IF x \in lookup THEN UNCHANGED row_space
         ELSE row_space' = Append(row_space, x)
  /\ Advance
  /\ UNCHANGED <<vars, phase, basis, row_vec, lookup>>
FaultyCloseShallow ==
  /\ phase = "close" /\ at <= Len(row_space)
  /\ lookup' = lookup \cup {row_space[at] \cup row_vec[with]}
  /\ Advance
  /\ UNCHANGED <<vars, phase, basis, row_vec, row_space>>

\* One iteration of the inner loop.
Close ==
  /\ phase = "close" /\ at <= Len(row_space)
  /\ LET x == row_space[at] \cup row_vec[with]
     IN  IF x \in lookup THEN UNCHANGED <<lookup, row_space>>
         ELSE lookup' = lookup \cup {x} /\ row_space' = Append(row_space, x)
  /\ Advance
  /\ UNCHANGED <<vars, phase, basis, row_vec>>

Return ==
  /\ phase = "close" /\ at > Len(row_space)
  /\ phase' = "done"
  /\ UNCHANGED <<vars, basis, row_vec, lookup, row_space, at, with>>

ClosureNext == InBasis \/ Take \/ Gather \/ Start \/ Close \/ Return

\* The function runs on by itself until it returns.
ClosureSpec == ClosureInit /\ [][ClosureNext]_closureVars /\ WF_closureVars(ClosureNext)

-----------------------------------------------------------------------------
ClosureTypeOK ==
  /\ phase \in {"basis", "gather", "close", "done"}
  /\ basis \in Seq(Row)
  /\ row_vec \in Seq(Row)
  /\ lookup \subseteq Row
  /\ row_space \in Seq(Row)
  /\ at \in Nat \ {0} /\ with \in Nat \ {0}

(***************************************************************************)
(* The set returned is the row space of the matrix: every union of its     *)
(* rows is found, and nothing else, although only rows of the basis are    *)
(* tried, one at a time.                                                   *)
(***************************************************************************)
SpaceAtReturn == phase = "done" => lookup = Space(RowsIn(matrix))

(***************************************************************************)
(* The vector the loop runs over lists the rows found, the empty one       *)
(* excepted, and none of them twice; so it cannot outgrow the 255 rows     *)
(* there are, and the loop ends.  It starts as a copy of the basis, which  *)
(* must not have a row twice.                                              *)
(***************************************************************************)
FoundOnce ==
  phase \in {"close", "done"} =>
    /\ Elements(row_space) = lookup \ {{}}
    /\ \A m, n \in DOMAIN row_space : row_space[m] = row_space[n] => m = n
Termination == <>(phase = "done")
=============================================================================
