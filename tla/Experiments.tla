----------------------------- MODULE Experiments -----------------------------
(***************************************************************************)
(* Prototypes and examples on vectors: radix_sort of experiments/sort.cpp  *)
(* (its other sorts are loops of LaneLoops), permutations of more than     *)
(* sixteen points (Perm32) and the patterns of examples/pattern.cpp.       *)
(***************************************************************************)
EXTENDS Epu8Reference

\* For bytes below sixteen: lane c holds the least byte not exhausted before it.
radix_sort(v) ==
  LET stat == [n \in 0 .. 15 |-> Cardinality({i \in Lane : v[i] <= n})]
  IN  [c \in Lane |-> Min({n \in 0 .. 15 : c < stat[n]})]

(***************************************************************************)
(* Vectors of n blocks of sixteen lanes.  A selector loses sixteen for     *)
(* every block it passes, wrapping, and the block at hand is read where    *)
(* fifteen or less is left.                                                *)
(***************************************************************************)
Shuffle(v, block, s) == IF s >= 128 THEN 0 ELSE v[16 * block + (s % 16)]
\* Faulty: the block at hand is taken to have one point more.
FaultySelected(v, s, first, last, start) ==
  LET at[i \in (first - 1) .. last] ==
        IF i < first THEN start
        ELSE LET left == AsByte(s - 16 * i)
             IN  IF left <= 16 THEN Shuffle(v, i, left) ELSE at[i - 1]
  IN  at[last]
Selected(v, s, first, last, start) ==
  LET at[i \in (first - 1) .. last] ==
        IF i < first THEN start
        ELSE LET left == AsByte(s - 16 * i)
             IN  IF left <= 15 THEN Shuffle(v, i, left) ELSE at[i - 1]
  IN  at[last]
permute32(v, w) ==
  [e \in DOMAIN w |-> IF w[e] < 16 THEN Shuffle(v, 0, w[e]) ELSE Shuffle(v, 1, w[e])]
permute_1(v, w, n) == [e \in DOMAIN w |-> Selected(v, w[e], 0, n - 1, 0)]
permute_2(v, w, n) == [e \in DOMAIN w |-> Selected(v, w[e], 1, n - 1, Shuffle(v, 0, w[e]))]
permute_3(v, w, n) == permute_2(v, w, n)
permute_ref(v, w)  == [e \in DOMAIN w |-> v[w[e]]]
permid(n)          == [e \in 0 .. 16 * n - 1 |-> e]
eqperm(v, w, n)    == \A block \in 0 .. n - 1 : \A i \in Lane : v[16 * block + i] = w[16 * block + i]

\* The same for two and for four blocks.
permute32_ref(v, w) == permute_ref(v, w)
eqperm32(v, w)      == eqperm(v, w, 2)
permute64_1(v, w)   == permute_1(v, w, 4)
permute64_2(v, w)   == permute_2(v, w, 4)
permute64_3(v, w)   == permute_3(v, w, 4)
permute64_ref(v, w) == permute_ref(v, w)
eqperm64(v, w)      == eqperm(v, w, 4)

-----------------------------------------------------------------------------
tosubset(n) == {i \in Lane : (n \div 2^i) % 2 = 1}
subset_to_perm(s) ==
  [c \in Lane |-> LET at == {i \in s : Cardinality({j \in s : j < i}) = c}
                  IN  IF at = {} THEN FF ELSE Min(at)]
make_subsets_of_size(n, k) ==
  {tosubset(i) : i \in {m \in 0 .. 2^n - 1 : Cardinality(tosubset(m)) = k}}

\* What sort_perm returns for entries that differ: their lanes by value.
sort_perm(v) ==
  [i \in Lane |-> LET at == {l \in Lane : Cardinality({m \in Lane : v[m] < v[l]}) = i}
                  IN  IF at = {} THEN 0 ELSE Min(at)]
extract_pattern(size, perm, permset) ==
  LET word == [i \in Lane |-> IF i >= size THEN FF ELSE Permuted(perm, permset)[i]]
  IN  [i \in Lane |-> IF i < size THEN sort_perm(word)[i] ELSE 0]
has_pattern(size, perm, patt, subperm) ==
  \E s \in subperm : extract_pattern(size, perm, subset_to_perm(s)) = patt

-----------------------------------------------------------------------------
\* The iterator over pairs of equal entries, ordered by the second: on to the next
\* pair that is equal, or to the end <<0, size>>.
find_eq(v, size, i, j) ==
  LET code == 16 * j + i
      hits == {c \in code .. 16 * size - 1 : c % 16 < c \div 16 /\ v[c % 16] = v[c \div 16]}
  IN  IF j >= size THEN <<i, j>>
      ELSE IF hits = {} THEN <<0, size>> ELSE <<Min(hits) % 16, Min(hits) \div 16>>
EqPairs(v, size) ==
  LET met[n \in 0 .. size * size] ==
        IF n = 0 THEN <<find_eq(v, size, 0, 1)>>
        ELSE LET s == met[n - 1]
                 p == s[Len(s)]
             IN  IF p = find_eq(v, size, 0, size) THEN s
                 ELSE Append(s, find_eq(v, size, p[1] + 1, p[2]))
      walk == met[size * size]
  IN  [n \in 1 .. Len(walk) - 1 |-> walk[n]]

\* The calls of the two main functions.
Padded(il)   == [i \in Lane |-> IF i < Len(il) THEN il[i + 1] ELSE 0]
cf_main      == EqPairs(Padded(<<0, 2, 3, 4, 0, 6, 2, 2, 0>>), 9)
pattern_main ==
  LET subsets == make_subsets_of_size(8, 4)
      perm    == Padded(<<1, 4, 2, 0, 3, 5, 6, 7>>)
  IN  << Cardinality(subsets), has_pattern(4, perm, Padded(<<2, 1, 0, 3>>), subsets),
         has_pattern(4, perm, Padded(<<3, 2, 1, 0>>), subsets) >>

\* pow in the monoid of words: square the half, and once more for an odd exponent.
pow_words(s, exp) ==
  LET p[n \in 0 .. exp] ==
        IF n = 0 THEN <<>>
        ELSE LET half == p[n \div 2] IN (IF n % 2 = 0 THEN <<>> ELSE s) \o half \o half
  IN  p[exp]

-----------------------------------------------------------------------------
(***************************************************************************)
(* The ways of permuting 32, 64 and 256 points agree with the loop,        *)
(* although the selectors wrap below zero in the blocks they do not mean.  *)
(***************************************************************************)
BlocksPermutedOn(v) ==
  \A n \in {2, 4, 16} :
    LET points == 0 .. 16 * n - 1
        big    == [e \in points |-> n * v[e % 16] + (e \div 16)]
        byte   == [e \in points |-> ((7 * e + v[1]) % 256)]
    IN  /\ {permute_1(byte, big, n), permute_2(byte, big, n), permute_3(byte, big, n)}
              = {permute_ref(byte, big)}
        /\ eqperm(permute_1(byte, permid(n), n), byte, n)
        /\ n = 2 => eqperm32(permute32(byte, big), permute32_ref(byte, big))
        /\ n = 4 => /\ eqperm64(permute64_1(byte, big), permute64_ref(byte, big))
                    /\ eqperm64(permute64_2(byte, big), permute64_ref(byte, big))
                    /\ eqperm64(permute64_3(byte, big), permute64_ref(byte, big))

(***************************************************************************)
(* extract_pattern returns the positions of the selected entries by        *)
(* increasing value, that is the inverse of the pattern they form; each    *)
(* subset of the asked size is tried, so that an increasing subsequence    *)
(* is found if and only if there is one.                                   *)
(***************************************************************************)
PatternsOn(v, n, size) ==
  LET subsets == make_subsets_of_size(n, size)
      first   == [i \in Lane |-> IF i < size THEN i ELSE 0]
  IN  /\ Cardinality(subsets) = Cardinality({s \in SUBSET (0 .. n - 1) : Cardinality(s) = size})
      /\ \A s \in subsets :
           LET at   == subset_to_perm(s)
               patt == extract_pattern(size, v, at)
           IN  /\ {patt[i] : i \in 0 .. size - 1} = 0 .. size - 1
               /\ \A i \in 1 .. size - 1 : v[at[patt[i - 1]]] < v[at[patt[i]]]
      /\ has_pattern(size, v, first, subsets) <=>
           \E s \in subsets : \A i, j \in s : i < j => v[i] < v[j]

(***************************************************************************)
(* The iterator meets each pair of equal entries and then its end, for     *)
(* every size but 0, for which begin() lies past end() and the walk does   *)
(* not stop; a power is that many copies.                                  *)
(***************************************************************************)
ExamplesOn(v) ==
  /\ \A size \in {1, 2, 9} :
       LET pairs == {p \in (0 .. size - 1) \X (0 .. size - 1) : p[1] < p[2] /\ v[p[1]] = v[p[2]]}
           walk  == EqPairs(v, size)
       IN  Len(walk) = Cardinality(pairs) /\ {walk[n] : n \in 1 .. Len(walk)} = pairs
  /\ find_eq(v, 0, 0, 1) # find_eq(v, 0, 0, 0)
  /\ \A exp \in 0 .. 17 : pow_words(<<v[0], v[1], v[2]>>, exp)
                            = [n \in 1 .. 3 * exp |-> v[(n - 1) % 3]]

\* What the main functions print: the equal pairs by their second entry; 4 2 0 falls
\* and is followed by 5, and no four entries fall.
MainsPrint ==
  /\ cf_main = << <<0, 4>>, <<1, 6>>, <<1, 7>>, <<6, 7>>, <<0, 8>>, <<4, 8>> >>
  /\ pattern_main = << 70, TRUE, FALSE >>
=============================================================================
