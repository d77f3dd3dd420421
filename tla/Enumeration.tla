----------------------------- MODULE Enumeration -----------------------------
(***************************************************************************)
(* The breadth-first enumerations of the examples: the Renner monoids      *)
(* under the action act0 (RD.cpp, Renner.cpp), transformations             *)
(* under the product (Trans.cpp), and the orbit of images under the        *)
(* product on the other side (image.cpp).  A table holds what has been     *)
(* found; the elements found in one pass are the worklist of the next.     *)
(*                                                                         *)
(* Renner.cpp keeps in the table how each element was found, reads words   *)
(* back from it while it grows, and counts idempotents with them; where    *)
(* the code has only a set, the entry is a history.  image.cpp keeps one   *)
(* entry for each image, made for its first representative, and records    *)
(* where each generator leads from it.                                     *)
(***************************************************************************)
EXTENDS PartialMaps, Functions

CONSTANTS
  Monoids,     \* the enumerations that are run
  KindOf,      \* KindOf[m]: which program, "act0", "product" or "image"
  GensOf       \* GensOf[m]: its generators

ASSUME MonoidsAssumption ==
  /\ Size = 16 /\ Byte = 0 .. 255
  /\ \A m \in Monoids :
       /\ KindOf[m] \in {"act0", "product", "image"}
       /\ GensOf[m] \in Seq(IF KindOf[m] = "image" THEN [Lane -> Lane] ELSE Vec) \ {<<>>}

VARIABLES
  monoid,      \* the enumeration that runs
  elems,       \* the table: from the key of an element to <<parent, generator>>
  edges,       \* image.cpp: from <<image, generator>> to the image it leads to
  level,       \* lg, the passes begun
  todo,        \* the worklist of this pass
  newtodo,     \* that of the next
  v, g,        \* the positions in todo and in the generators
  pc,          \* "visit", or in mult0: "read" the word back or "multiply"
  word,        \* the generators of reduced_word still to multiply with
  at,          \* the element the walk has reached, then the product
  nidemp,      \* Renner.cpp: the idempotents counted
  finished

search   == <<elems, newtodo, v, g, nidemp>>
walk     == <<pc, word, at>>
enumVars == <<monoid, elems, edges, level, todo, newtodo, v, g, pc, word, at, nidemp, finished>>

Gens == GensOf[monoid]

\* The generators of the Renner monoids of type D and of the full transformations.
gene == [i \in Lane |-> IF i < 8 THEN FF ELSE i]
genf == [i \in Lane |-> IF i < 7 \/ i = 8 THEN FF ELSE i]
s1e  == [Id EXCEPT ![6] = 7, ![7] = 6, ![8] = 9, ![9] = 8]
s1f  == [Id EXCEPT ![6] = 8, ![7] = 9, ![8] = 6, ![9] = 7]
\* s2 to s7: neighbours on both sides change places.
swap(i) == [Id EXCEPT ![7 - i] = 8 - i, ![8 - i] = 7 - i, ![7 + i] = 8 + i, ![8 + i] = 7 + i]
trans_gens(n) ==
  << [Id EXCEPT ![0] = 1, ![1] = 0],
     [i \in Lane |-> IF i < n THEN (i + 1) % n ELSE i],
     [Id EXCEPT ![1] = 0] >>
image_gens ==
  LET Of(il) == PTransf16(il)
  IN  << Of(<<1, 7, 2, 6, 0, 4, 1, 5>>), Of(<<2, 4, 6, 1, 4, 5, 2, 7>>),
         Of(<<3, 0, 7, 2, 4, 6, 2, 4>>), Of(<<3, 2, 3, 4, 5, 3, 0, 1>>),
         Of(<<4, 3, 7, 7, 4, 5, 0, 4>>), Of(<<5, 6, 3, 0, 3, 0, 5, 1>>),
         Of(<<6, 0, 1, 1, 1, 6, 3, 4>>), Of(<<7, 7, 4, 0, 6, 4, 1, 7>>) >>

\* A vector as one value (TLC would else work its lanes out again at every use).
Vector(p) == CHOOSE r \in {p} : r \in Vec

\* The bytes are compared as signed ones, so that 0xFF is below every point.
act0(p, q) ==
  LET b == Times(p, q)
  IN  Vector(Undefined({i \in Lane : q[i] = FF},
                       Blend(SMax(p, b), SMin(p, b), [i \in Lane |-> Signed(q[i]) < i])))

\* Faulty: images move under the product from the other side.
FaultyAct(m, p, q) == IF KindOf[m] = "act0" THEN act0(p, q) ELSE TransfTimes(p, q)
Act(m, p, q) ==
  CASE KindOf[m] = "act0" -> act0(p, q)
    [] KindOf[m] = "product" -> TransfTimes(p, q)
    [] KindOf[m] = "image" -> TransfTimes(q, p)
image_bitset(p) == image_mask_ref(p, FALSE)
Key(m, p) == IF KindOf[m] = "image" THEN image_bitset(p) ELSE p

\* Faulty: the generators are not reversed.
FaultyReducedWord(table, x) ==
  LET read[z \in DOMAIN table] ==
        IF z = Id THEN <<>> ELSE <<table[z][2]>> \o read[table[z][1]]
  IN  read[x]
\* The generators that lead to x, read from the table by the parents.
reduced_word(table, x) ==
  LET read[z \in DOMAIN table] ==
        IF z = Id THEN <<>> ELSE Append(read[table[z][1]], table[z][2])
  IN  read[x]

\* Where the generators of a word lead from p.
Walked(m, p, w) ==
  LET after[n \in 0 .. Len(w)] ==
        IF n = 0 THEN p ELSE Act(m, after[n - 1], GensOf[m][w[n]])
  IN  after[Len(w)]
mult0(m, table, p, q) == Walked(m, p, reduced_word(table, q))

\* The entries printed for an element: signed points, 0 for an undefined one.
sym_renner(p, n) ==
  [i \in 8 - n .. 7 + n |->
     IF p[i] = FF THEN 0 ELSE IF p[i] < 8 THEN p[i] - 8 ELSE p[i] - 7]

\* A table in which the entry of x is y.
Entered(table, x, y) == [z \in DOMAIN table \cup {x} |-> IF z = x THEN y ELSE table[z]]

-----------------------------------------------------------------------------
EnumInit ==
  /\ monoid \in Monoids
  /\ elems = [x \in {Key(monoid, Id)} |-> <<Id, 0>>]
  /\ edges = <<>>
  /\ level = 1
  /\ todo = <<Id>>
  /\ newtodo = <<>>
  /\ v = 1 /\ g = 1
  /\ pc = "visit" /\ word = <<>> /\ at = Id
  /\ nidemp = 1
  /\ finished = FALSE

\* On to the next generator, or the next element.
Advance ==
  IF g < Len(Gens) THEN g' = g + 1 /\ v' = v ELSE g' = 1 /\ v' = v + 1

\* The element has a key that is in the table.
Known(el) ==
  /\ Key(monoid, el) \in DOMAIN elems
  /\ Advance
  /\ UNCHANGED <<elems, newtodo, walk>>

\* It has not: enter it, with its parent.  Renner.cpp goes on to mult0(el, el).
Insert(el) ==
  /\ Key(monoid, el) \notin DOMAIN elems
  /\ elems' = Entered(elems, Key(monoid, el), <<todo[v], g>>)
  /\ newtodo' = Append(newtodo, el)
  /\ IF KindOf[monoid] = "act0"
     THEN pc' = "read" /\ at' = el /\ UNCHANGED <<word, v, g>>
     ELSE Advance /\ UNCHANGED walk

Visit ==
  /\ ~finished /\ pc = "visit" /\ v <= Len(todo)
  /\ \E el \in {Act(monoid, todo[v], Gens[g])} :
       /\ Known(el) \/ Insert(el)
       /\ edges' = IF KindOf[monoid] # "image" THEN edges
                   ELSE Entered(edges, <<Key(monoid, todo[v]), g>>, Key(monoid, el))
  /\ UNCHANGED <<monoid, level, todo, nidemp, finished>>

\* reduced_word: from the element to its parents, up to the identity.
ReadBack ==
  /\ pc = "read"
  /\ IF at # Id
     THEN /\ at' = elems[at][1]
          /\ word' = <<elems[at][2]>> \o word
          /\ UNCHANGED pc
     ELSE /\ at' = newtodo[Len(newtodo)]
          /\ pc' = "multiply"
          /\ UNCHANGED word
  /\ UNCHANGED <<monoid, edges, level, todo, search, finished>>

\* Faulty: the generator is not taken off the word.
FaultyMultiply ==
  /\ pc = "multiply" /\ word # <<>>
  /\ at' = act0(at, Gens[Head(word)])
  /\ UNCHANGED <<monoid, edges, level, todo, search, pc, word, finished>>
\* mult0: the element times its own word; count it if the element comes back.
Multiply ==
  /\ pc = "multiply" /\ word # <<>>
  /\ at' = act0(at, Gens[Head(word)])
  /\ word' = Tail(word)
  /\ UNCHANGED <<monoid, edges, level, todo, search, pc, finished>>
CountIdempotent ==
  /\ pc = "multiply" /\ word = <<>>
  /\ nidemp' = nidemp + IF at = newtodo[Len(newtodo)] THEN 1 ELSE 0
  /\ pc' = "visit"
  /\ Advance
  /\ UNCHANGED <<monoid, edges, level, todo, elems, newtodo, word, at, finished>>

\* Faulty: the list swapped in is not cleared.
FaultyNextLevel ==
  /\ ~finished /\ pc = "visit" /\ v > Len(todo)
  /\ todo' = newtodo
  /\ newtodo' = todo
  /\ v' = 1
  /\ finished' = (newtodo = <<>>)
  /\ level' = IF finished' THEN level ELSE level + 1
  /\ UNCHANGED <<monoid, elems, edges, g, nidemp, walk>>
\* The pass is over: the worklists are swapped, and the next pass, if there is one,
\* begins by clearing the new one.
NextLevel ==
  /\ ~finished /\ pc = "visit" /\ v > Len(todo)
  /\ todo' = newtodo
  /\ newtodo' = <<>>
  /\ v' = 1
  /\ finished' = (newtodo = <<>>)
  /\ level' = IF finished' THEN level ELSE level + 1
  /\ UNCHANGED <<monoid, elems, edges, g, nidemp, walk>>

EnumNext == Visit \/ ReadBack \/ Multiply \/ CountIdempotent \/ NextLevel

EnumSpec == EnumInit /\ [][EnumNext]_enumVars /\ WF_enumVars(EnumNext)

-----------------------------------------------------------------------------
EnumTypeOK ==
  /\ monoid \in Monoids
  /\ level \in Nat \ {0}
  /\ v \in 1 .. Len(todo) + 1
  /\ g \in 1 .. Len(Gens)
  /\ pc \in {"visit", "read", "multiply"}
  /\ nidemp \in Nat
  /\ finished \in BOOLEAN

(***************************************************************************)
(* The word read back from the table (Renner.cpp 100-109) always ends at   *)
(* the identity, its generators lead to the element, and no shorter word   *)
(* does: it is as long as the number of the pass that found it, and from   *)
(* an element that a pass has been over every generator leads to one whose *)
(* word is at most one longer.  On the way operator[] is never asked for   *)
(* an element that it would create.                                        *)
(***************************************************************************)
PassOver == v > Len(todo) \/ finished
WordsShortest ==
  /\ pc = "read" => at \in DOMAIN elems
  /\ PassOver /\ KindOf[monoid] # "image" =>
       \A x \in DOMAIN elems :
         LET w == reduced_word(elems, x)
         IN  /\ w \in Seq(1 .. Len(Gens)) /\ Walked(monoid, Id, w) = x
             /\ IF x \in Range(newtodo) THEN Len(w) = level ELSE Len(w) <= level
             /\ Len(w) < level =>
                  \A i \in 1 .. Len(Gens) :
                    LET y == Act(monoid, x, Gens[i])
                    IN  y \in DOMAIN elems /\ Len(reduced_word(elems, y)) <= Len(w) + 1

(***************************************************************************)
(* At the end the table is closed under every generator.  The edge         *)
(* recorded for an image and a generator does not depend on the            *)
(* representative that was met first: it leads to the image of the image   *)
(* (image.cpp 87-94).  And nidemp counts the idempotents, although each    *)
(* element was squared when it was entered, by the table of that moment    *)
(* (Renner.cpp 153-156).                                                   *)
(***************************************************************************)
ClosedAtReturn ==
  finished =>
    IF KindOf[monoid] = "image"
    THEN edges = [e \in (DOMAIN elems) \X (1 .. Len(Gens)) |-> {Gens[e[2]][p] : p \in e[1]}]
    ELSE \A x \in DOMAIN elems : \A i \in 1 .. Len(Gens) :
           Act(monoid, x, Gens[i]) \in DOMAIN elems
Idempotents == {x \in DOMAIN elems : mult0(monoid, elems, x, x) = x}
IdempotentsCounted ==
  finished /\ KindOf[monoid] = "act0" => nidemp = Cardinality(Idempotents)
TableRight == ClosedAtReturn /\ IdempotentsCounted

(***************************************************************************)
(* The elements are those of the monoid.  Their numbers are the ones the   *)
(* example quotes (RD.cpp 118-119), n^n for the transformations of n       *)
(* points, and for images the number of images.  The product read from the *)
(* words does not depend on the word that names the right factor, and      *)
(* elements that are printed alike are one.                                *)
(***************************************************************************)
MonoidRight(sizes) ==
  finished =>
    /\ Cardinality(DOMAIN elems) = sizes[monoid]
    /\ KindOf[monoid] = "act0" /\ Cardinality(DOMAIN elems) < 100 =>
         \A x, y \in DOMAIN elems :
           /\ \A i \in 1 .. Len(Gens) :
                mult0(monoid, elems, x, act0(y, Gens[i]))
                  = act0(mult0(monoid, elems, x, y), Gens[i])
           /\ sym_renner(x, 6) = sym_renner(y, 6) => x = y

\* The enumeration ends, because an element is entered only once.
Termination == <>finished
=============================================================================
