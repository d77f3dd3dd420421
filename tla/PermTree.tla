------------------------------ MODULE PermTree ------------------------------
(***************************************************************************)
(* Counting the permutations of n points by their descents, in parallel    *)
(* (experiments/Perm32/permdesc_red.cpp).  allperm spawns a strand for     *)
(* each choice of the last of the first n entries; allperm_derec does so   *)
(* down to Cut points (seven in the code) and leaves the rest to a loop    *)
(* that counts in a local array.  The counters are a reducer: every strand *)
(* has a view of its own, added to its parent's when it returns, which it  *)
(* does when the strands it spawned have returned (Cilk's implicit sync).  *)
(***************************************************************************)
EXTENDS PermStatistics, Sequences

CONSTANTS
  Calls    \* the calls <<function, n, Cut>> that main makes, each by itself

ASSUME CallsAssumption ==
  Calls \subseteq {"allperm", "allperm_derec"} \X (0 .. Size) \X (1 .. Size)

VARIABLES
  call,    \* the call under way
  frames,  \* the strands alive, named by the choices that lead to them:
           \* the arguments p and n, the loop counter i, the view of res_red
  res,     \* main's counters
  done

vars == <<call, frames, res, done>>

Cut == call[3]

NoCounts  == [d \in Lane |-> 0]
Sum(s, t) == [d \in Lane |-> s[d] + t[d]]

transposition(i, j) == [Id EXCEPT ![i] = j, ![j] = i]
permuteij(p, i, j)  == Permuted(p, transposition(i, j))

\* What the nested loops run through: from the first n entries of p, every choice
\* of entry n - 1, then n - 2, down to 1.
Loops(p, n) ==
  LET from[m \in 1 .. n] ==
        IF m = n THEN {p}
        ELSE UNION {{permuteij(q, i, m) : i \in 0 .. m} : q \in from[m + 1]}
  IN  from[1]
\* The loops count in an array of their own.
Counted(S) == [d \in Lane |-> Cardinality({q \in S : perm_nb_descents(q) = d})]
allperm_iter(p, n) == Counted(Loops(p, n))

\* Does a strand count by itself instead of spawning others?
IsLeaf(fr) == fr.n = IF call[1] = "allperm" THEN 0 ELSE Cut
LeafCounts(fr) == IF fr.n = 0 THEN Counted({fr.p}) ELSE allperm_iter(fr.p, fr.n)

-----------------------------------------------------------------------------
Strand(p, n) == [p |-> p, n |-> n, i |-> 0, view |-> NoCounts]

Init ==
  /\ call \in Calls
  /\ frames = [f \in {<<>>} |-> Strand(Id, call[2])]
  /\ res = NoCounts
  /\ done = FALSE

Children(f)  == {c \in DOMAIN frames : Len(c) = Len(f) + 1 /\ SubSeq(c, 1, Len(f)) = f}
Over(f)  == frames[f].i = frames[f].n /\ Children(f) = {}

\* Faulty: every strand is spawned with the same choice.
FaultySpawn(f) ==
  LET fr == frames[f]
      c  == Append(f, fr.i)
  IN  /\ ~IsLeaf(fr) /\ fr.i < fr.n
      /\ frames' = [e \in DOMAIN frames \cup {c} |->
                      IF e = c THEN Strand(permuteij(fr.p, 0, fr.n - 1), fr.n - 1)
                      ELSE IF e = f THEN [fr EXCEPT !.i = @ + 1]
                      ELSE frames[e]]
      /\ UNCHANGED <<call, res, done>>
\* cilk_spawn: the next entry goes to position n - 1, and the loop goes on.
Spawn(f) ==
  LET fr == frames[f]
      c  == Append(f, fr.i)
  IN  /\ ~IsLeaf(fr) /\ fr.i < fr.n
      /\ frames' = [e \in DOMAIN frames \cup {c} |->
                      IF e = c THEN Strand(permuteij(fr.p, fr.i, fr.n - 1), fr.n - 1)
                      ELSE IF e = f THEN [fr EXCEPT !.i = @ + 1]
                      ELSE frames[e]]
      /\ UNCHANGED <<call, res, done>>

\* Returning adds the view to the parent's, or to main's counters (move_out).
Leave(f, view) ==
  /\ frames' = [e \in DOMAIN frames \ {f} |->
                  IF f # <<>> /\ e = SubSeq(f, 1, Len(f) - 1)
                  THEN [frames[e] EXCEPT !.view = Sum(@, view)] ELSE frames[e]]
  /\ IF f = <<>> THEN res' = Sum(res, view) /\ done' = TRUE
                 ELSE UNCHANGED <<res, done>>
  /\ UNCHANGED call

Finish(f) == IsLeaf(frames[f]) /\ Leave(f, LeafCounts(frames[f]))
\* Faulty: a strand returns without waiting for those it spawned.
FaultyReturn(f) ==
  /\ ~IsLeaf(frames[f]) /\ frames[f].i = frames[f].n
  /\ Leave(f, frames[f].view)
Return(f) == ~IsLeaf(frames[f]) /\ Over(f) /\ Leave(f, frames[f].view)

Next == \E f \in DOMAIN frames : Spawn(f) \/ Finish(f) \/ Return(f)

Spec == Init /\ [][Next]_vars /\ WF_vars(Next)

-----------------------------------------------------------------------------
TypeOK ==
  /\ call \in Calls
  /\ \A f \in DOMAIN frames : frames[f].i \in 0 .. frames[f].n
  /\ done \in BOOLEAN

\* The permutations of the first n points, and those that a call is to count: none
\* if allperm_derec starts below the size it leaves to the loop.
PermsOf == [n \in 0 .. Size |->
              {p \in [Lane -> Lane] : /\ \A i \in Lane : i >= n => p[i] = i
                                     /\ \A i, j \in Lane : p[i] = p[j] => i = j}]
Wanted(n) == IF call[1] # "allperm" /\ n < Cut THEN {} ELSE PermsOf[n]

\* Those still to come from a strand: any order of the entries it has not placed.
Orders(p, n) == {Permuted(p, q) : q \in Wanted(n)}
ToCome(fr) ==
  IF IsLeaf(fr) THEN Counted(Orders(fr.p, fr.n))
  ELSE Counted(UNION {Orders(permuteij(fr.p, i, fr.n - 1), fr.n - 1) : i \in fr.i .. fr.n - 1})

\* The sum of a function, counted out.
Total(g) == Cardinality(UNION {{<<f, n>> : n \in 1 .. g[f]} : f \in DOMAIN g})

(***************************************************************************)
(* However the strands interleave, what is in the views of the reducer and *)
(* what the strands alive have still to count is every permutation once,   *)
(* descent by descent.                                                     *)
(***************************************************************************)
Owed(d) == [f \in DOMAIN frames |-> frames[f].view[d] + ToCome(frames[f])[d]]
NothingLost == \A d \in Lane : res[d] + Total(Owed(d)) = Counted(Wanted(call[2]))[d]

(***************************************************************************)
(* main is left with the number of permutations of each number of          *)
(* descents, and it does not wait for ever.                                *)
(***************************************************************************)
Delivered == <>(done /\ res = Counted(Wanted(call[2])))
=============================================================================
