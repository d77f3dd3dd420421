# HPCombi in TLA+

HPCombi is a header-only C++ library for combinatorics on small objects: vectors
of sixteen bytes held in one SIMD register (`epu8`), permutations and
(partial) transformations of sixteen points, and 8 x 8 Boolean matrices held in
one 64-bit word. The library itself is sequential; one of the programs beside
it, `src/experiments/Perm32/permdesc_red.cpp`, is parallel. What makes the
library hard is that every algorithm is written twice, once as an obvious loop
and once as a fixed sequence of data-parallel steps driven by constant tables,
and that the second form is right only as a whole: a single wrong table entry, a
comparison that is not strict, a loop that stops one power too early or a copy
taken one instruction too late gives a wrong answer for a few inputs out of
16^16.

The modules here model those sequences one step per round, state what the
caller may rely on, check it with TLC on inputs chosen to cover every case that
matters, and prove with TLAPS what does not depend on the tables. Functions that
have no steps of their own are operators, one for each implementation, and are
compared with each other and with what they promise.

## Inventory

Paths are relative to `src/include/hpcombi/` unless they say otherwise.

| Part | Source | State | Operations | What is hard | What makes it correct |
|---|---|---|---|---|---|
| Vectors | `epu8.hpp`, `epu8_impl.hpp`, `builder.hpp` | one vector of 16 bytes, by value | shuffle, shift, min, max, first and last difference, comparisons | lanes cleared by a selector with its top bit set; signed differences of bytes | agreement with the lane-by-lane definition |
| Sorting networks | `epu8_impl.hpp` 134-222 | vector, round, (permutation) | `sorted`, `revsorted`, `sorted8`, `revsorted8`, `sort_perm`, `sort8_perm` | the order and the entries of the rounds; ties; two copies of the vector in one round | the result is sorted, a rearrangement of the argument, and explained by the permutation returned |
| Merging | `epu8_impl.hpp` 224-244 | two vectors, in place | `merge`, `merge_rev` | a table with two rounds too many | both halves sorted, the lower below the upper, nothing lost |
| Searching | `epu8_impl.hpp` 261-310 | vector | `permutation_of`, `remove_dups` | positions built bit by bit | the position of every byte that occurs once |
| Reductions | `epu8_impl.hpp` 317-443, `vect_generic.hpp` | vector | sums, maxima, minima, all of them or prefixes | neutral elements of cleared lanes; sums modulo 256 | agreement with the loop |
| Recognisers | `epu8_impl.hpp` 445-537 | - | `eval16`, `is_permutation`, `is_transformation`, ... | wrap-around of 0xFF | agreement of the variants |
| Containers | `epu8_impl.hpp` 557-606 | - | `equal_to`, `hash`, `less` | an order that ignores half of the vector | distinct keys stay distinct |
| Inverses and powers | `perm16_impl.hpp` 208-268, `power.hpp` | a power of the permutation, a result under construction | `inverse_ref`, `inverse_arr`, `inverse_sort`, `inverse_cycl`, `inverse_pow`, `pow` | uninitialised result; which powers are looked at; results overwritten | the inverse |
| Partial maps | `perm16_impl.hpp` 27-157, `perm16.hpp` | vector with 0xFF for undefined | domain, image, one-sided identities, products, partial inverse | the undefined value goes through shuffles and minima | the algebra of partial maps |
| Statistics | `perm16_impl.hpp` 172-206, 270-387 | vector | `lehmer`, `length`, `cycles_partition`, `left_weak_leq`, `unrankSJT` | rotated copies against the original; zeros shifted in | agreement with the reference loops |
| Boolean matrices | `bmat8.hpp`, `bmat8_impl.hpp` | one word | product, transposition, row spaces: basis, bitset, sizes, inclusion | rotations that accumulate; rows equal to one another; closure loops | agreement with the closure of the rows under union |
| Generic vectors | `vect_generic.hpp`, `perm_generic_impl.hpp` | array | the same, as loops | - | they are the definitions |
| Enumerations | `src/examples/*.cpp` | table of elements with parents, two work lists | breadth-first enumeration of a monoid, reduced words, orbit graphs | lists swapped and cleared in each pass; walks through a table that grows; entries made from one representative | every element once, by a shortest word; it ends |
| Parallel count | `src/experiments/Perm32/permdesc_red.cpp` | tree of strands, a view of the counters for each | `allperm`, `allperm_derec` | strands return in any order; views are added to their parent's | nothing lost, nothing counted twice, delivered at the end |
| Prototypes | `src/experiments/*.cpp`, `src/experiments/Perm32/*.cpp` | vectors | sorts, cycle types, permutations of 32 points and more | signed bytes; selectors that wrap into the bit that clears a lane | agreement with the library or with the definition |

How they interact: everything is built on the vector operations by value, so
parts interact by calls. `merge` calls the loop of `network_sort`;
`inverse_sort` calls `sorted`; `inverse_cycl` and `inverse_pow` call `pow` with
the product of permutations, which is the shuffle; the row spaces call
`revsorted8`, `remove_dups` and `sorted8`; the enumerations call products and
hash or compare vectors through the standard containers. In the library nothing
is shared and nothing runs concurrently: its interleavings are those of lanes,
rounds and copies. `permdesc_red.cpp` spawns strands that share a reducer.

The hazards, each at its line and with the properties that cover it, are listed
under `hazards` in `PROJECT.json`.

## The modules

Vectors and what is done with them:

| Module | Models | In the code |
|---|---|---|
| `Arrangements` | what *in order* and *the same bytes* mean for any index set | vocabulary |
| `Epu8` | the vector type, its shuffle, minimum, maximum, blend, shift, and one round of a comparator network | `epu8.hpp`, `epu8_impl.hpp` 138-142, `builder.hpp` |
| `Epu8Tables` | the constant tables of the networks and of the prefix rounds | `epu8_impl.hpp` |
| `SortPromise` | abstract: the vector is rearranged within its blocks for as long as it takes, and is in order when the function returns | what `epu8.hpp` 112-155 documents |
| `NetworkSort` | the loop of `network_sort`: `Init` is the call, `ApplyRound` one iteration, `Returned` the end of the loop | `epu8_impl.hpp` 134-145, 204-215 |
| `ZeroOne` | `NetworkSort` with a certificate about its table | - |
| `NetworkSortPerm` | the loop of `network_sort_perm`, with `NetworkSort` for what it calls the vector: the comparison `Exchange` and the two blends that use it | `epu8_impl.hpp` 147-160, 217-222 |
| `Merge` | `merge` from `Reverse`, `merge_rev` from `Split`, then the two calls of the loop, `SortLower` and `SortUpper`; a certificate about its table | `epu8_impl.hpp` 224-244 |
| `Epu8Reference` | first and last lane that differs or is zero, the order of vectors, `less_partial`: loops, masks and string instructions; the reference loops `_ref` that define what the lane-parallel functions compute | `epu8_impl.hpp`, `vect_generic.hpp`, `vect16.hpp`, `perm16_impl.hpp` |
| `LaneLoops` | the short loops over all lanes, one action per function and one step per iteration: `permutation_of_cmpestrm`, the partial sums, maxima and minima, `eval16_cycle`, `lehmer`, `cycles_partition`, `left_weak_leq`, the prototype sorts | `epu8_impl.hpp` 288-443, `perm16_impl.hpp` 270-387, `src/experiments/sort.cpp` |
| `Recognisers` | horizontal reductions, evaluations, `is_transformation`, `is_partial_permutation`, `is_permutation`, ... in every implementation | `epu8_impl.hpp` 330-537 |
| `PartialMaps` | `PTransf16`, `Transf16`, `PPerm16`: products, domains, images, identities, compression tables, inverses | `perm16.hpp`, `perm16_impl.hpp` 27-157 |
| `PermStatistics` | length, descents, cycles, `unrankSJT`, transpositions, by `Perm16`, `PermGeneric` and the prototypes | `perm16_impl.hpp` 159-206, 270-387, `perm_generic_impl.hpp`, `src/experiments/cycle.cpp` |
| `Interface` | the functions a caller names: which implementation they take, the members and classes that forward to them, constructors from lists | `epu8.hpp`, `perm16.hpp`, `vect16.hpp`, `perm_generic.hpp` |
| `Experiments` | radix sort, permutations of more than sixteen points, the calls of the examples on patterns and pairs | `src/experiments/`, `src/examples/` |
| `Vectors` | all of these on the same arguments, and the properties that relate them | - |
| `PermInverse` | the ways to invert: one action per iteration of each loop, and per call (`PowCall`, `PowOne`) and return (`PowStep`, `PowReturn`) of the recursion of `pow` | `perm16_impl.hpp` 208-268, `power.hpp` 69-96 |
| `SetOrder` | a `std::set` of vectors with the order the library specialises `std::less` to | `epu8_impl.hpp` 595-604; the container is external |

Boolean matrices:

| Module | Models | In the code |
|---|---|---|
| `RowSpace` | rows as sets of columns, the space they span, its irreducible rows | `bmat8_impl.hpp` 408-415 |
| `RowBasis` | `row_space_basis`: `Sort`, `Clear` the duplicates, `Rotate` seven times, `Drop` what is made up of others, `Arrange` | `bmat8_impl.hpp` 226-242 |
| `RowClosure` | `row_space_bitset_ref` on top of `RowBasis`, which it calls first: `Take` the basis, `Gather` and `Start` set up the vector, `Close` is one iteration of the inner loop, which appends to the vector the outer loop runs over | `bmat8_impl.hpp` 376-396 |
| `RowBitset` | `row_space_bitset`: `masks` is the table as the initialisers leave it, `Mix` applies one mask, `Turn` is one rotation of the outer loop, `Mark` one of the inner | `bmat8_impl.hpp` 247-299 |
| `RowIncl` | `row_space_size_incl`, `row_space_size_incl1`, `row_space_mask`, `row_space_included`, `row_space_included2`: `Open` and `Count` begin and end a round, `Turn` is one rotation | `bmat8_impl.hpp` 301-331, 341-374 |
| `BMat8Ops` | entries, the transposes by swapped blocks, the product by rotated diagonals, permutations of rows and columns, the action on a basis | `bmat8.hpp`, `bmat8_impl.hpp` |

Programs:

| Module | Models | In the code |
|---|---|---|
| `Enumeration` | the breadth-first enumerations: `Visit` applies one generator to one element of the work list and enters what is new in the table and in the next list (`Insert`), or finds it there (`Known`); `ReadBack`, `Multiply` and `CountIdempotent` square what is new by its word; `NextLevel` swaps the lists and clears one | `src/examples/RD.cpp`, `Renner.cpp`, `Trans.cpp`, `image.cpp` |
| `PermTree` | the strands of the parallel count: spawning, counting, the loop that finishes small cases, waiting and returning, in every interleaving | `src/experiments/Perm32/permdesc_red.cpp` |

`Epu8Proofs`, `SortProofs`, `PermInverseProofs`, `VectorsProofs`,
`RowClosureProofs`, `RowBitsetProofs`, `RowInclProofs` and `ProgramProofs` hold
the theorems; `MC_*` the arguments, byte values and certificates for TLC.

Most state machines are a function call: the initial states are the calls the
program can make, a step is one iteration of its loop, and the variables are its
local variables. A variable `input`, `args` or `asked` keeps the argument, which
the code overwrites, so that properties can speak about it. A call ends, so
those configurations do not check for deadlock; `set_order`, whose container
stays, does.

Fairness. Most loops have constant bounds and end by themselves; nothing is
assumed about them, as the properties are about what the loops do on the way and
when they return. Three loops run over something that they make longer or that
others must finish: `row_space_bitset_ref` over a vector it appends to, the
enumerations until a pass finds nothing, and a strand of `permdesc_red.cpp`
until the strands it spawned have returned. `RowClosure`, `Enumeration` and
`PermTree` assume weak fairness of their next step: a program that is called
runs on as long as some strand can. Nothing is assumed about which strand does.

A definition whose name begins with `Faulty` is a version of the definition
after it with a slip of the kind the hazards describe. Nothing uses these; they
are there to be put in the place of the original, to see that the properties
notice.

### Abstractions

* `Size` and `Byte` are parameters. The network loops only compare bytes and move
  them between lanes, so a run needs as many values as its property can tell
  apart; runs use `Size = 16`, and the tables of the code. Where bytes are
  computed with, `Byte` is `0 .. 255` and arithmetic is modulo 256, signed where
  the code takes them as `int8_t`.
* `Permuted` is the instruction: a selector in range picks a lane, one with its
  top bit set clears the lane, any other uses its low bits.
* A vector that is a mask, and a bitset made by `movemask`, is the set of its
  lanes.
* A row of a Boolean matrix is the set of its columns: bitwise or is union, and
  `(x | y) == y` inclusion. `ByteOf` gives the byte that holds a row; that it
  tells rows apart is all most theorems assume of it. Sorting rows is modelled by
  its result, `Falling`, as the networks have modules of their own. In `BMat8Ops`
  a matrix is the set of the bits that are one, and shifts move them.
* The shift of `inverse_sort` is the one of each byte by itself: the code shifts
  words of 32 bits, whose bits stay within the byte for entries up to 15.
* `pow` is a recursion on a template argument. `calls` is the stack of its
  exponents: a call pushes half of the last one, down to zero, and a return
  squares, and multiplies if the exponent of the caller is odd.
* An uninitialised vector (`inverse_ref`) is any of a set of leftovers.
* A function that has two implementations and a choice between them by the
  build is modelled with the build as a parameter.
* An unordered container is a set or a function; the order in which the code
  walks through a work list is that of the list, and does not depend on it.
* A reducer is a view for each strand, added to the parent's view when the
  strand returns.

## The runs

| Run | Inputs | Shows |
|---|---|---|
| `sorted` | both tables, both directions: progressions modulo 3, 5 and 16; every half of zeros and ones, the other half its complement | `ThresholdsReached`: the thresholds of bytes stay within the zero-one certificate, which TLC computes from all 65 536 vectors of zeros and ones; `OrderKept`: no round undoes the work of the others; `ImplementsPromise`: `SortPromise`, with one block of sixteen lanes or two of eight |
| `sort_perm` | both tables: progressions modulo 2, 3, 5 and 16, straight and folded | `ResSortsInput`: the permutation is one and explains the vector after every round; `ResKeepsBlocks`: nothing crosses a half; `ImplementsNetworkSort`: the vector goes through the same rounds as in `sorted`; `InOrderStaysPut`: a vector in order gets the identity, ties included |
| `merge` | every pair of 68 sorted vectors over three bytes, through `merge` and `merge_rev` | `HalvesSeparated` after the first step, `PaddingIdle`: the zero rounds change nothing, `MergesAsPromised`: `SortPromise` on the 32 lanes together |
| `perm_inverse` | two permutations of each of the 231 cycle types of 16 points; three leftovers | `InverseAtReturn` for each algorithm, `CyclLanesRight`, `RightLanesKept`, `PowersExact` |
| `vectors` | 55 permutations (affine modulo 16, modulo 8 in each half, multiples modulo 17), squares modulo six numbers, progressions of bytes modulo 256, partial maps; paired with others that differ late, are partial or not injective | `RoundsExplained` and `AnswerAtReturn`: what each loop of `LaneLoops` has computed after each iteration, and that it returns what the reference loop does; `SearchesRight`, `RecognisersRight`, `PartialMapsRight`, `StatisticsRight`, `PrototypesRight`: every implementation of the other functions against the rest and against its meaning |
| `enumeration` | the Renner monoids of type D of rank 1 to 3, the transformations of three and four points, the orbit of images of `image.cpp` | `WordsShortest`: words read back while the table grows lead to their element, and no shorter word does; `TableRight`: the table is closed, the orbit graph does not depend on representatives, idempotents are counted right; `MonoidIsRight`: 4, 37, 541, 27, 256 and 179 elements, and the product by words is that of the monoid; `Termination` |
| `perm_tree` | `allperm(3)`; `allperm_derec` from three points down to one, from four down to three, and from one where three are left to the loop | in every interleaving of the strands, `NothingLost`: what the views hold and what the strands alive have still to count is every permutation once; `Delivered`: the counts arrive |
| `row_closure` | every set of rows of three columns, each row in turn repeated until there are eight; up to three rows of four columns, over and over; matrices that span every space of up to four independent rows of four columns, with rows scattered, repeated and redundant | of `row_space_basis`, which is called first, `UnionsComplete`: after the rotations each row has met all the others and not itself; `SpaceKept`; `BasisAtReturn`: the result is the sorted list of the irreducible rows of the space, so equal spaces have equal bases; then `SpaceAtReturn`; `FoundOnce`: the growing vector lists every row once; `Termination` |
| `row_bitset` | 24 matrices of eight bytes in progression, 64 with a few rows in all pairs of lanes; on them the operations of `BMat8Ops`, with the actions of `src/tests/test_bmat8.cpp` 525-551 | `PairsMet`: after each rotation exactly the bits of the pairs met so far are set; `BitsAtReturn`: at the end these are the unions of rows that take any rows of a half but rows 1 to 3 without row 0, counted right; `TransposesAgree`: each transpose moves every entry across the diagonal; `ProductsRight`: product by rotated diagonals, permutations, action on a basis |
| `row_incl` | sizes of 15 matrices over all 256 candidate rows; masks and inclusions for pairs of 36 small matrices | `AllTaken`: each candidate has met every row of its half, in every round; `CountSoFar`; `AnswerAtReturn` |
| `row_bitset_space` | the matrices of `row_bitset` | violated: `RowSpaceAtReturn`; see below |
| `set_order` | eight permutations put into and erased from a `std::set` | violated: `HoldsWhatWasInserted`; see below |

Why these bounds are enough. A comparator network sorts every input if it sorts
the zeros and ones: the certificates in `sorted` go through all of those, for
both tables in both directions, so nothing is left out by the choice of bytes;
`SortsAllBytes` below proves it rather than appealing to it. `sort_perm` needs
ties and distinct bytes, both of which its progressions have; that it sorts is
not left to them, as it implements `NetworkSort`. `merge` compares and moves
bytes as a network does until its zero rounds; two sorted vectors of zeros and
ones are each given by one position, all pairs of positions are there, and the
third value adds ties between different positions. Inversion by powers depends
on a permutation only through its cycles: a run has every cycle type, once on
intervals and once scattered over the lanes. The loops of `LaneLoops` are
uniform in the lanes and their rounds are explained one by one, so that an
argument is needed for each table entry that matters, for bytes on both sides of
every boundary (16, 128, 255) and for repeated and missing values; the families
of `vectors` have them all. `Enumeration` meets in rank 2 already every kind of
generator, and in rank 3 the relations between them; in `image.cpp` every image
has many representatives. `PermTree` needs a strand that spawns, one that leaves
the rest to the loop, siblings that return in either order and a call below the
size of the loop: three and four points have them.

In the row spaces, lanes and rotations have the sizes of the code. What the
functions do depends on the rows through inclusion and equality: three columns
give chains, incomparable rows and unions in every combination, with duplicates of
every row; the fourth gives bases of more than three rows. `row_incl` and
`row_bitset` use all eight columns because they run through the 256 bytes.

## What the checks found

`bmat8.hpp` 226 says that `row_space_bitset` returns the row space, and 231 that
`row_space_size_bitset` returns its cardinality. The first mask at `bmat8_impl.hpp`
251 lists fourteen of sixteen entries. The last two are therefore zero, and a
selector of zero takes row 0 where 0xFF would take none: lane 14, which should
hold the union of rows 1 to 3 of a half, holds that of rows 0 to 3, and no lane
holds the former. `row_bitset_space` shows it in a matrix whose rows are the
eight bytes with one bit, as are those of the identity: 225 bits are set instead of
256. Rows count from the last one of the matrix, so that what is missing are the
unions that take the first, second and third row but not the fourth, or the
fifth to the seventh but not the eighth, and that no other rows make.
`BitsAtReturn` says exactly that, and `RowSpaceWhenCovered` below that nothing is
missing if the fourth and the eighth row add nothing to the three before them.
`row_space_included_bitset` compares these bits. The tests compare the sizes
(`src/tests/test_bmat8.cpp` 357) on eleven matrices, on none of which a union is
missing.

`epu8_impl.hpp` 596 says of the order in `std::less<epu8>` that it is not
lexicographic, "but we don't care when using in `std::set`". It reads the first
eight lanes only, as two floats. Two permutations that agree on the first eight
points are therefore one key: the second insertion is dropped, and erasing the
one removes the other. `set_order` shows it in two insertions. (Where the words
are not numbers the order is worse, but the bytes of a permutation never make
such words.)

Places where the code does something other than its name, a comment or a sibling
suggests, met while modelling and modelled as they are:

* `right_perm_action_on_basis`: `bmat8.hpp` 309-316 asks for `*this` to be the
  basis; the debug assertions at `bmat8_impl.hpp` 446 and 451 ask it of the
  argument, and `src/tests/test_bmat8.cpp` 525-528 calls the function with an
  argument for which that is false.
* `VectGeneric::is_sorted` (`vect_generic.hpp` 127) accepts vectors that fall,
  `is_sorted` of `epu8` those that rise. `VectGeneric::random`
  (`vect_generic.hpp` 136) starts from `VectGeneric(0, 0)`, which no constructor
  takes.
* `less_partial` of vectors with bytes from 128 on (`epu8_impl.hpp` 118) takes the
  difference of signed bytes, whose sign is not that of the lexicographic order
  that `epu8.hpp` 567 documents. Bytes of maps of sixteen points are smaller.
* `elementary_transposition(15)` writes to lane 16 (`perm16_impl.hpp` 201).
* `unrankSJT` fills the lanes from `n` on with zero (`perm16_impl.hpp` 175).
* `cycle_type_ref` in `src/experiments/cycle.cpp` sorts its copy of the argument
  instead of the lengths it returns.
* the prototypes in `src/experiments/sort.cpp` sort signed bytes.
* `allperm_derec` in `permdesc_red.cpp` counts nothing for fewer points than it
  leaves to the loop.
* `extract_pattern` in `src/examples/pattern.cpp` gives the inverse of the
  pattern, and the search compares with it consistently; the loop over masks at
  line 79 has a 16-bit counter, which does not end for sixteen entries.
* the iterator over pairs in `src/examples/CF.cpp` does not stop for size 0.

## What is proved

Assumptions: `Size` is a positive number, `Byte` a set of natural numbers, the
arguments are vectors of bytes, and each table of `sorted` and its kin consists
of rounds that pair the lanes off and respect the blocks (`RoundsAssumption`).
TLC evaluates these assumptions, and those named below, for the tables and
sizes of the code. The table `merge_rounds` has two rounds of zeros at the end
that do not pair anything off; the proofs about `merge` do without that assumption.

Theorems over data (how far a loop over all lanes gets, what a recursive function
computes) go by induction over a set of numbers: `NatSetInduction` in
`Epu8Proofs` says that a set with 0 and with the successor of each of its members
has all natural numbers. A function defined by recursion is unfolded by showing
that one with its equations exists.

`SortProofs` on `network_sort`, for every such table, size, direction and set of bytes:

* `TypeCorrect`, `ContentIsKept`, `OrderIsKept`. The key lemma is
  `SortRoundContent` in `Epu8Proofs`: the lanes whose pair changes places are a
  union of pairs, so that exchanging them is a bijection of the lanes, and the
  round moves bytes along it; `CountBijection` turns that into equal counts.
* `ThresholdsAreReached` and `SortsAllBytes`: taking thresholds commutes with a
  round (`SortRoundThreshold`), so by induction on the rounds every threshold of
  the current vector lies in the set `Reach` of 0/1 vectors the table can have
  produced by then. `ReachAssumption` says of the final sets that they are
  ordered, and a vector all of whose thresholds are ordered is ordered. TLC
  computes `Reach` for both tables and both directions and evaluates the
  assumption: together, every vector of bytes comes out sorted.
* `MeetsPromise`: the loop implements `SortPromise`.

On `sort_perm`: `IsNetworkSort` (the refinement of `NetworkSort`, which hands
all its theorems on; `PermSorts` is the most important of them),
`ResAlwaysSortsInput` and `ResAlwaysKeepsBlocks` (the inductive invariant is the
type invariant with injectivity of `res` and `v = Permuted(input, res)`; the step
needs that the two lanes of a pair decide alike, which is where strictness
enters), and `SortedStaysPut`.

And on `merge` and `merge_rev`, for any number of lanes and any bytes: `HalvesAreSeparated`, one
lanewise minimum and maximum of a vector that rises and one that falls separates
the halves, since for every threshold the lanes above it are an upper interval
in one and a lower interval in the other; what follows only moves bytes within a
half. `MergeMeetsPromise` and `PaddingIsIdle`: `MergeReachAssumption` is a certificate as
in `ZeroOne`, but starting from the minima and maxima of rising and falling
vectors of zeros and ones, and it says that before a round that is no exchange
everything reached is in order. Such a round then changes nothing, where on
other vectors it would lose bytes. The refinement mapping lays the two vectors
end to end.

`PermInverseProofs`, for every permutation of any number of lanes:
`InverseIsReturned`, that each of the four algorithms returns the inverse
(`inverse_sort` for up to sixteen lanes, as four bits hold a lane). Along the way: `PowersAreExact`, at each return of `pow` the vector is the power that
the exponent of the call says (`CallsHalve`: every open call was made with half
the exponent of its caller, and twice the half, plus one if odd, is the whole), and
in the loop of `inverse_cycl` the next one. `CyclIsRight`: where the next power
fixes a lane, the power before it is the inverse there, as powers commute. That
no lane is left over: a lane returns to itself after at most `Size` steps, by
the pigeonhole principle, and some multiple of that length lies between
`Size \div 2 + 1` and `Size`. `inverse_pow` needs of the exponent that it is one
below a multiple of every length (`LcmAssumption`). `inverse_sort`: the tagged
bytes are distinct and ordered as the bytes are, the certified network sorts
them, and the tag that ends up in a lane is where its byte came from.
`inverse_ref` returns the inverse whatever the uninitialised vector held.
`RightLanesAreKept`, `TypeCorrect`.

`RowClosureProofs`, for any number of columns, any height and any bytes that tell
rows apart, first about `row_space_basis`: `UnionsAreComplete`, `SpaceIsKept` and `ReturnsCanonicalBasis`. The
argument: ranks number the lanes, by the pigeonhole principle, so that
`Falling` moves lanes and makes equal rows neighbours; clearing leaves one of
each (`RemoveDupsFacts`); after `n` rotations lane `i` holds row `Back(i, n)`,
and `n` from 1 to `Height - 1` reaches every lane but `i` (`BackFacts`); what is
dropped is therefore what the rows below make up. That dropping them all at once
loses nothing is `MadeUpOfIrreducibles`, an induction over inclusion, and
`IrreducibleOfSpace` says that the rows left are those of the space.

Then about `row_space_bitset_ref`, from the matrix on: `CallsRowBasis` says that
every behaviour of the function is one of `row_space_basis` followed by its own
steps, so that the theorems above hold of the basis it works on; in particular
the rows it gathers are distinct because the basis is. `ComputesRowSpace`,
`FindsOnce`: the invariant (`Closing`) says that the unions of
every row before the current one with every row of the basis have been found,
and that the vector lists the rows found, the empty one excepted, each once;
at the end the set found is closed under union with rows of the basis, and
`ClosedHasSpace`, an induction over finite sets of rows, makes it the space.
Both inductions go through a minimal counterexample in the strict subset
ordering, whose well-foundedness on finite sets the library provides.

`RowBitsetProofs`: `PairsAreMet`, `ComputesSelectedUnions` and `RowSpaceWhenCovered`,
for every matrix of eight rows and any bytes below 256 that tell rows apart. The
invariant follows both rotations: after `r` of the outer one and `slice8` of the
inner one, lane `n` holds the union of the lower rows of one lane and the upper rows of
another that it must (`Places`), and the bits set are those of the earlier rounds
and of the unions whose byte has passed its lane in this one (`BitsSet`). The
sixteen inner rotations bring every byte past its lane, the sixteen outer ones
every pair together (`AllPairs`). Which unions there are to pair is read off the
table, entry by entry (`MaskEntries`): the lanes between them are given every set
of rows of a half except rows 1 to 3 (`TakenSets`). Where row 0 is covered by
those three, the set of all four rows makes the same union, and nothing is missing.

The same module on `BMat8Ops`, for every word of 64 bits: `TransposesAreRight`,
`ProductsAreRight`, `ActionsAreRight`, and with them `TransposesStayRight` and
`ProductsStayRight`, the two invariants of the run. An exchange under a mask
fetches each bit from a known place (`SwapBitsIs`), and the three of them together
from across the diagonal (`SourcesAcross`); so do the top bits that the other two
transposes collect (`Collected`). In the product, lane `n` faces row
`Faced(k, n)` after `k` rotations and holds the bit for that row at the same time;
between them the two lanes of a row face all eight (`FacedFacts`). Permuting rows
is a product because the permutation matrix has one entry in a row. For the
action on a basis: rows that are zero stay zero, so that the rows of the product
are as many as the rows in use and no two are the same; `permutation_of`, which
takes any lane with that byte, and the loop, which takes the first, then find the
same one.

`RowInclProofs`: `AllRowsMet`, `CountsTheSpace` and `AnswersAreRight`. In a round
a lane has met the rows it holds and those ahead of it in its half (`Round`);
the rotations of earlier rounds have only permuted the rows of a half (`Kept`),
which is why it does not matter where they have left off. `InSpace`: a row is
in the space exactly if it is the union of the rows it includes. `CountBlock`
counts one block by a bijection from the lanes that agree to the rows of the
space among the next bytes. `BytesAssumption` says that the blocks run through
the bytes of all rows.

`VectorsProofs`, for every vector of bytes the loops of `LaneLoops` can be called
with, and every permutation where the function is a member of `Perm16`:
`LoopsComputeTheirRounds` and `LoopsAgreeWithReference`. The inductive invariant
`LoopInv` says of each loop what its working vectors hold after `n` rounds
(`Computed`), which is more than the answer so far:
`permutation_of` has moved the bytes so that the half of the lanes a byte can still
be in is gathered in front (`PositionsKnown`, by the table `inverting_rounds`); a
prefix network holds the reductions of aligned blocks, and a round joins a block
to the one it follows (`BlockNext`), for sums modulo 256 by differences of
the reference's sums (`SumsSplit`); `eval16_cycle` and `lehmer` have counted a set
that grows by one distance (`Turned`, `Compared`); `cycles_partition` holds a power
of the permutation and the least lane among as many steps, which doubling joins
(`LeastTwice`), and sixteen steps go round every cycle (`CycleLength`);
`left_weak_leq` has compared the inversions of every distance so far and stopped at
the first that is missing (`WeakKnown`); the networks have moved bytes only within
pairs (`Kept`); `insertion_sort` holds its front in order and a bijection of the
lanes that tells where each entry came from (`Inserted`), and only one such vector
is in order (`SortedIsOnly`). `ProgramsAssumption` says that the members of `Perm16` are
called with permutations, the ones without an argument with one. That the two
prototype networks order signed bytes stays with TLC (`PrototypesRight`).

The same module proves three of the properties that relate the functions without a
state of their own, for any two vectors. They hold of all vectors, so that the state
machine only says which vectors there are; what `permutation_of` returned is the one
fact about a loop they use.
`SearchesAlwaysRight`: a search by mask, by string instruction and by loop all
return the least (or greatest) lane of the same set below a bound (`BelowIn`,
`MasksSearch`); `less` is the lexicographic order because its sign is decided at the
first lane that differs (`BeforeCases`, `PartialIsBefore`); shuffles and
comparisons are compared lane by lane.
`RecognisersAlwaysRight`: the last lane of a prefix network is the whole block and so
the reduction that a loop computes (`SumReduced`, `MaxReduced`, `MinReduced`); the array
that `eval16_arr` increments holds after `n` lanes how many of them point at each
entry (`TallyCounts`); the table of nibbles adds up to the bits of a mask
(`PopcountRight`); and the four recognisers of permutations ask the same question,
as a map of the sixteen lanes into themselves is onto exactly if it is one-to-one
(`HoldsAllIsPerm`, `WaysTogether`).
`MapsAlwaysRight`: a shuffle with the undefined lanes put back composes partial maps
(`TimesLane`), which gives associativity and the one-sided identities
(`CompositionAlways`); two nibbles to a byte lose nothing of a map of sixteen points
(`ExpandCompress`), so that equal hashes are equal maps; a mask holds a bit for
each point of the image, and there are as many as points of the domain when the
map is one-to-one (`ImageMasks`, `ImageCount`); and `inverse_find` is the inverse
of a partial permutation because `permutation_of` is only trusted where exactly
one lane holds the byte (`Locates`, `InverseAlways`).

`ProgramProofs` has two parts. On `PermTree`, for any number of points, any call and
every interleaving:
`NothingIsLost` and `CountsAreExact`. What the views hold and the strands alive
have still to count does not change: a spawn moves the permutations with one
choice of an entry from what the parent has to come to what the child has
(`ToComeSpawn`), a strand that finishes has counted what it had to come
(`ToComeLeaf`), a return moves a view. The permutations to come are the one-to-one
vectors that agree with the strand's own beyond its `n` points; they are split by
the entry at `n - 1`, each through one choice (`SplitByChoice`, `ChoicesApart`),
and by induction on `n` the nested loops of `allperm_iter` run through each once
(`LoopsAgree`). A strand returns only after its children because the tree is
closed under parents (`TreeOK`), so that the root leaves last (`OnlyRoot`).

On `Enumeration`, for every list of generators of each of the programs:
`WordsReadAreShortest`, `TableIsRight` and `NoShorterWord`. The inductive invariant
`EnumInv` has four parts. `Shape`: the loop counters, the worklists and the last
element entered fit together. `WordsInv`: every word read from the table leads to its
element (`Spells`), an element on the worklist of pass `level` has a word one
shorter than `level`, one on the next worklist a word of length `level`
(`Layers`), and what the pass is through with has had its generators applied, to
elements whose words are at most one longer; as the worklists are walked in the order of the
words' lengths, no later element can have a shorter one. That entering an element does
not change the words of the others (`Entered`) is why reading the table while it
grows is sound, and is also what `CountInv` needs: squaring by the table of that
moment is squaring by the table at the end. `EdgesInv` holds the edges of
`image.cpp`: an image that has been passed has an edge for every generator, and
it is the image under that generator of the set itself, since images under a
product on the left depend on the set only. `NoShorterWord` adds, by induction
on the length of any word in the generators, that it leads into the table and is
not shorter than the word read there. What depends on the generators of the
examples, the sizes and that the words multiply associatively (which needs
relations between `act0` and its generators that a list need not have), stays with
TLC as `MonoidIsRight`.

Model-checked only: the statistics and the weak order of permutations
(`StatisticsRight`: counting cycles by marking is a recursion over data, and the
histograms and `unrankSJT` are compared with given tables), the two prototype
networks and the example programs (`PrototypesRight`); that the
enumerations give the monoids they are named for (`MonoidIsRight`); and what must
happen in the end, as liveness is out of the prover's reach: that the parallel count arrives (`Delivered`; what it
is when it does is proved) and that the enumerations and the loop of
`row_space_bitset_ref` end (`Termination`). Evaluated by TLC for the code's
constants, as assumptions of the theorems: the certificates of the tables, the
common multiple `lcm(1, ..., 16)`, and the bytes that `row_space_size_incl` runs
through.

## What is not modelled

* `row_space_included_bitset` (`bmat8_impl.hpp` 333-339): a comparison of what
  `row_space_bitset` returns for two matrices.
* Random generation (`random_epu8`, `Perm16::random`, `BMat8::random`): it
  depends on the generators of the standard library only.
* Hashing (`epu8_impl.hpp` 559-590, `bmat8.hpp`): arithmetic on 64 and 128 bits,
  a function of the vector without a property of its own.
* Text output and its layout, `experiments/python`, and the compile-time machinery of
  `builder.hpp`, of which only the vector it makes counts.
* Programs that only measure time: `benchmark/`, and
  `experiments/inverse.cpp`, `length.cpp` and `sum.cpp` apart from the variants
  of the functions they define.
* `cycle_type_unroll` in `experiments/cycle.cpp`: the constants it uses are not
  in the repository.
* What the processor supports (`experiments/cpu_x86_impl.hpp`), and the
  demonstrations of compiler extensions.
* The vendored `simde` headers: instructions are modelled by their effect on
  lanes where they are used.
* The tests, which were read for what they expect of each function.

## What is left

1. Proofs of the statistics and the weak order of permutations (`StatisticsRight`) and
   of the prototype networks (`PrototypesRight`).
2. The Renner monoid of rank 4, and the enumeration with the order of
   `SetOrder` in the place of a set that tells its elements apart.
