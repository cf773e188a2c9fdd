-------------------------------- MODULE FAST --------------------------------
(***************************************************************************)
(* The FAST tree of fast64 (src/fast64/src/lib.rs): FAST::new lays sorted  *)
(* keys and their values out in pages of K keys followed by K values, and  *)
(* builds internal layers of (last key of a page, offset of the page)      *)
(* pairs in the same page layout until a layer fits in one page.           *)
(* slow_lookup descends the internal layers from the root and brackets the *)
(* query in a leaf page.                                                   *)
(*                                                                         *)
(* A caller builds one tree from sorted keys and then looks keys up in it, *)
(* as the tests of lib.rs do.  Arrays are functions on 0..n-1, indexed as  *)
(* in the code; an index outside an array, a usize underflow and a failed  *)
(* debug assertion are a panic.  T is 0..MaxT, MaxT standing for           *)
(* T::max_value(); alignment of the copies made by copy_to_aligned is not  *)
(* modelled, their contents are.                                           *)
(***************************************************************************)
EXTENDS Integers, Sequences, FiniteSets, SequencesExt

CONSTANTS
  CacheLineSize,  \* CACHE_LINE_SIZE (128 in the code)
  SizeOfT,        \* size_of::<T>() (8 for u64, 4 for u32)
  MaxT,           \* T::max_value()
  OffsetBits,     \* the width of the cast index as u32 (32 in the code)
  MaxN,           \* bound on the number of keys
  MaxKey,         \* keys are drawn from 0..MaxKey
  None,           \* no tree built / no lookup made
  Panic           \* the outcome of a lookup that panics

\* The assertions at the top of layout.
ASSUME CacheLineSize % SizeOfT = 0 /\ (CacheLineSize \div SizeOfT) % 2 = 0
\* Keys may reach T::MAX, the key padding; values stay clear of the
\* sentinels 0 and T::MAX.
ASSUME MaxKey <= MaxT /\ MaxN < MaxT

\* chunk_size of layout and key_run_size of slow_lookup: keys per page.
K == (CacheLineSize \div SizeOfT) \div 2
\* step_size of build_internal_layer and page_size of slow_lookup.
PageSize == CacheLineSize \div SizeOfT

VARIABLES
  keys, values,    \* caller: the arrays passed to FAST::new
  tree,            \* the FAST struct, None before FAST::new
  query, result    \* caller: the last key looked up and what it returned

vars == <<keys, values, tree, query, result>>

Size(a) == Cardinality(DOMAIN a)

\* A 1-based sequence as a 0-based array.
Arr(s) == [i \in 0..(Len(s) - 1) |-> s[i + 1]]

(******************************* FAST::new ********************************)

\* Seeded fault: only whole chunks are laid out, the short tail is lost.
LayoutWholeChunks(left, right) ==
  LET n == Size(left)
  IN  [i \in 0..((n \div K) * PageSize - 1) |->
         LET p == i \div PageSize
             o == i % PageSize
         IN  IF o < K THEN left[p * K + o] ELSE right[p * K + o - K]]

\* layout: each chunk of K left values, padded with T::max_value(), then
\* the matching chunk of K right values, padded with 0.
Layout(left, right) ==
  LET n     == Size(left)
      pages == (n + K - 1) \div K
  IN  [i \in 0..(pages * PageSize - 1) |->
         LET p == i \div PageSize
             o == i % PageSize
         IN  IF o < K
             THEN IF p * K + o < n THEN left[p * K + o] ELSE MaxT
             ELSE IF p * K + o - K < Size(right) THEN right[p * K + o - K] ELSE 0]

\* build_leaf_layer
BuildLeafLayer(ks, vs) == Layout(ks, vs)

\* index as u32: the low OffsetBits bits of an offset.  TLC's integers
\* are below 2^31, so a cast of 31 bits or more keeps every offset.
AsU32(index) == IF OffsetBits >= 31 THEN index ELSE index % (2 ^ OffsetBits)

\* build_internal_layer: the last key of each page of prev_layer and the
\* page's offset, cast by T::from(index as u32).
BuildInternalLayer(prev) ==
  LET pages == Size(prev) \div PageSize
  IN  Layout([j \in 0..(pages - 1) |-> prev[j * PageSize + K - 1]],
             [j \in 0..(pages - 1) |-> AsU32(j * PageSize)])

\* The loop of FAST::new: add a layer above the top one until the top one
\* fits in a page.
RECURSIVE GrowLayers(_)
GrowLayers(ls) ==
  IF Size(ls[Len(ls)]) <= PageSize THEN ls
  ELSE GrowLayers(Append(ls, BuildInternalLayer(ls[Len(ls)])))

\* FAST::new: the leaf layer, the internal layers root first, the end keys
\* and values.
New(ks, vs) ==
  LET leaf == BuildLeafLayer(ks, vs)
  IN  [leaf_layer      |-> leaf,
       internal_layers |-> Reverse(GrowLayers(<<BuildInternalLayer(leaf)>>)),
       min_key |-> ks[0], max_key |-> ks[Size(ks) - 1],
       min_val |-> vs[0], max_val |-> vs[Size(vs) - 1]]

(****************************** slow_lookup *******************************)

\* count_greater and count_greater_eq over the slice a[from..from+K].
CountGreater(a, from, key)   == Cardinality({j \in from..(from + K - 1) : key > a[j]})
CountGreaterEq(a, from, key) == Cardinality({j \in from..(from + K - 1) : key >= a[j]})

InBounds(a, from, to) == from >= 0 /\ to < Size(a)

\* The loop of slow_lookup over the internal layers, from layer i on:
\* the offset in the next layer, or -1 for a panic (slice out of bounds,
\* the debug assertion gt_count < key_run_size, an index out of bounds).
RECURSIVE Descend(_, _, _, _)
Descend(layers, i, idx, key) ==
  IF i > Len(layers) THEN idx
  ELSE LET layer == layers[i]
       IN  IF ~InBounds(layer, idx, idx + K - 1) THEN -1
           ELSE LET gt == CountGreater(layer, idx, key)
                IN  IF gt >= K \/ ~InBounds(layer, idx + K + gt, idx + K + gt) THEN -1
                    ELSE Descend(layers, i + 1, layer[idx + K + gt], key)

\* Seeded fault: inside a page, the upper value is read at the lower
\* value's index (a missing + 1).
LeafBracketSameIndex(leaf, idx, key) ==
  IF idx < 0 \/ ~InBounds(leaf, idx, idx + K - 1) THEN Panic
  ELSE LET ge == CountGreaterEq(leaf, idx, key)
           lo == CASE ge = 0 -> idx - PageSize + (PageSize - 1)
                   [] ge = K -> idx + (PageSize - 1)
                   [] OTHER  -> idx + K + (ge - 1)
           hi == CASE ge = 0 -> idx + K
                   [] ge = K -> idx + PageSize + K
                   [] OTHER  -> idx + K + (ge - 1)
       IN  IF (ge = 0 /\ idx < PageSize) \/ ~InBounds(leaf, lo, lo) \/ ~InBounds(leaf, hi, hi)
           THEN Panic
           ELSE <<leaf[lo], leaf[hi]>>

\* The leaf step of slow_lookup: the pair of values bracketing key in the
\* leaf page at idx, reaching into the previous or next page at its ends.
LeafBracket(leaf, idx, key) ==
  IF idx < 0 \/ ~InBounds(leaf, idx, idx + K - 1) THEN Panic
  ELSE LET ge == CountGreaterEq(leaf, idx, key)
           lo == CASE ge = 0 -> idx - PageSize + (PageSize - 1)
                   [] ge = K -> idx + (PageSize - 1)
                   [] OTHER  -> idx + K + (ge - 1)
           hi == CASE ge = 0 -> idx + K
                   [] ge = K -> idx + PageSize + K
                   [] OTHER  -> idx + K + (ge - 1) + 1
       IN  IF (ge = 0 /\ idx < PageSize) \/ ~InBounds(leaf, lo, lo) \/ ~InBounds(leaf, hi, hi)
           THEN Panic
           ELSE <<leaf[lo], leaf[hi]>>

\* FAST::slow_lookup
SlowLookup(t, key) ==
  CASE key < t.min_key  -> <<0, t.min_val>>
    [] key >= t.max_key -> <<t.max_val, MaxT>>
    [] OTHER -> LeafBracket(t.leaf_layer, Descend(t.internal_layers, 1, 0, key), key)

(******************************** caller **********************************)

\* The strictly increasing arrays of n keys from lo..MaxKey.
RECURSIVE SortedSeqs(_, _)
SortedSeqs(n, lo) ==
  IF n = 0 THEN {<<>>}
  ELSE UNION {{<<k>> \o s : s \in SortedSeqs(n - 1, k + 1)} :
              k \in lo..MaxKey}

\* Values only travel through the tree, never steer it: each key's value
\* is its position plus one, distinct from the sentinels 0 and MaxT.
ValuesFor(n) == [i \in 0..(n - 1) |-> i + 1]

Init ==
  /\ keys = None /\ values = None /\ tree = None
  /\ query = None /\ result = None

\* FAST::new on non-empty sorted keys and values of the same length.
Build ==
  /\ tree = None
  /\ \E n \in 1..MaxN : \E s \in SortedSeqs(n, 0) :
       /\ keys' = Arr(s)
       /\ values' = ValuesFor(n)
       /\ tree' = New(Arr(s), ValuesFor(n))
  /\ UNCHANGED <<query, result>>

\* FAST::slow_lookup of any key, below, inside and above the stored range.
Lookup(key) ==
  /\ tree # None
  /\ query' = key
  /\ result' = SlowLookup(tree, key)
  /\ UNCHANGED <<keys, values, tree>>

\* Queries: every T up to one past the largest key.
Queries == 0..(IF MaxKey < MaxT THEN MaxKey + 1 ELSE MaxT)

Next ==
  \/ Build
  \/ \E key \in Queries : Lookup(key)

Spec == Init /\ [][Next]_vars

(******************************* properties *******************************)

\* The type of every field; a lookup returns a pair of T and never panics
\* (no slice or index out of bounds, no usize underflow, no failed
\* debug assertion).
TypeOK ==
  /\ tree = None \/ /\ DOMAIN tree.leaf_layer = 0..(Size(tree.leaf_layer) - 1)
                    /\ Size(tree.leaf_layer) % PageSize = 0
                    /\ \A i \in DOMAIN tree.internal_layers :
                         Size(tree.internal_layers[i]) % PageSize = 0
  /\ query = None \/ query \in Queries
  /\ result = None \/ result \in (0..MaxT) \X (0..MaxT)

\* spec.md property 5, the expected results of the tests of lib.rs: for
\* min_key <= k < max_key, the value of the greatest stored key <= k and the
\* value of the least stored key > k; (0, min_val) below the range and
\* (max_val, MAX) from max_key on.  A positional answer: the last key <= k
\* and the first key > k.
Bracket(k) ==
  LET n  == Size(keys)
      le == {i \in 0..(n - 1) : keys[i] <= k}
      gt == {i \in 0..(n - 1) : keys[i] > k}
  IN  CASE k < keys[0]      -> <<0, values[0]>>
        [] k >= keys[n - 1] -> <<values[n - 1], MaxT>>
        [] OTHER -> <<values[CHOOSE i \in le : \A j \in le : j <= i],
                      values[CHOOSE i \in gt : \A j \in gt : i <= j]>>

\* Every lookup returns the bracket of its key: the
\* internal layers built from the last key of every page lead the strict
\* less-than descent to the leaf page where the less-or-equal count finds
\* the bracket, reaching into a neighbouring page when the key lies at a
\* page boundary.
LookupBracket == result # None => result = Bracket(query)

=============================================================================
