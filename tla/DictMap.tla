------------------------------ MODULE DictMap ------------------------------
(***************************************************************************)
(* The data structure of libxfiredbengine/storage/dict.c, without threads: *)
(* two hash tables (struct dict_map) and the incremental rehash that moves *)
(* the primary table, bucket by bucket, into the rehash table.             *)
(*                                                                         *)
(* A dictionary is the record                                              *)
(*    [primary, rehash : Map, rehashidx : Int, rehashing : BOOLEAN]        *)
(* and a map [size, array, length] has size buckets.  A bucket is the SET  *)
(* of the keys chained in it: the order inside a chain is visible only to  *)
(* iterators, which are not modelled here.  "array == NULL" is size = 0.   *)
(* Every operator below is one function, or one loop iteration, of dict.c  *)
(* run under struct dict::lock.                                            *)
(***************************************************************************)
EXTENDS Integers, FiniteSets

CONSTANTS Keys,              \* keys that clients use
          Hash,              \* dict_hash_key: a number for every key
          DICT_MINIMAL_SIZE, \* size of the first table (4 in dict.c)
          CanExpand,         \* dict_can_expand
          ResizeRatio        \* dict_resize_ratio (5 in dict.c)

IsPowerOfTwo(n) == \E e \in 0..n : n = 2^e

\* The sizes dict_expand is asked for: twice the number of elements, or the
\* minimal size.
Requests == {DICT_MINIMAL_SIZE} \cup {2 * n : n \in 1..Cardinality(Keys)}

ASSUME KeysAssumption == IsFiniteSet(Keys)
ASSUME HashAssumption == Hash \in [Keys -> Nat]
ASSUME SizeAssumption ==
    DICT_MINIMAL_SIZE \in Nat \ {0} /\ IsPowerOfTwo(DICT_MINIMAL_SIZE)
ASSUME ExpandAssumption == CanExpand \in BOOLEAN /\ ResizeRatio \in Nat
\* True for every positive number; assumed because its proof is an induction.
ASSUME PowerAssumption ==
    \A n \in Requests : \E p \in n..(2 * n - 1) : IsPowerOfTwo(p)

\* dict_real_size: the least power of two that is at least n.
RealSize(n) == CHOOSE p \in n..(2 * n - 1) : IsPowerOfTwo(p)
-----------------------------------------------------------------------------
NewMap(n) == [size |-> n, array |-> [i \in 0..(n - 1) |-> {}], length |-> 0]

\* dict_reset
NoMap == NewMap(0)

\* hash & sizemask, for a size that is a power of two.
Slot(m, k) == Hash[k] % m.size

Contains(m, k) == m.size # 0 /\ k \in m.array[Slot(m, k)]

\* Link a new entry in, unlink a found entry from, bucket Slot(m, k).
Link(m, k) == [m EXCEPT !.array[Slot(m, k)] = @ \cup {k}, !.length = @ + 1]
\* Mutant: dict_map::length is not decremented.
UnlinkKeepsLength(m, k) == [m EXCEPT !.array[Slot(m, k)] = @ \ {k}]
Unlink(m, k) == [m EXCEPT !.array[Slot(m, k)] = @ \ {k}, !.length = @ - 1]

EmptyDict == [primary |-> NewMap(DICT_MINIMAL_SIZE), rehash |-> NoMap,
              rehashidx |-> 0, rehashing |-> FALSE]

\* dict_clear: both tables are dropped, the size-0 primary is re-created by
\* the next dict_expand_if.
Cleared == [primary |-> NoMap, rehash |-> NoMap,
            rehashidx |-> -1, rehashing |-> FALSE]

\* The search of __dict_lookup, __dict_delete and dict_calc_index: the second
\* table is looked at only while rehashing.
\* (Mutant: the second table is forgotten.)
PresentInPrimary(d, k) == Contains(d.primary, k)
Present(d, k) ==
    Contains(d.primary, k) \/ (d.rehashing /\ Contains(d.rehash, k))

\* Mutant: while rehashing, only the new table is counted.
DictSizeOfRehash(d) == IF d.rehashing THEN d.rehash.length ELSE d.primary.length
\* dict_get_size
DictSize(d) == d.primary.length + d.rehash.length
-----------------------------------------------------------------------------
(* Expansion.                                                              *)

ShouldExpand(d) ==
    /\ d.primary.length >= d.primary.size
    /\ CanExpand \/ d.primary.length \div d.primary.size < ResizeRatio

\* dict_expand returns -XFIREDB_ERR, and changes nothing, unless this holds.
MayExpandTo(d, n) ==
    /\ ~d.rehashing
    /\ d.primary.length <= n
    /\ d.primary.size # RealSize(n)

\* Mutant: the table gets the size asked for.
ExpandUnrounded(d, n) ==
    IF ~MayExpandTo(d, n) THEN d
    ELSE IF d.primary.size = 0 THEN [d EXCEPT !.primary = NewMap(n)]
         ELSE [d EXCEPT !.rehash = NewMap(n), !.rehashidx = 0,
                        !.rehashing = TRUE]

Expand(d, n) ==
    IF ~MayExpandTo(d, n) THEN d
    ELSE IF d.primary.size = 0
         THEN [d EXCEPT !.primary = NewMap(RealSize(n))]
         ELSE [d EXCEPT !.rehash = NewMap(RealSize(n)),
                        !.rehashidx = 0,
                        !.rehashing = TRUE]

WantsExpand(d) == ~d.rehashing /\ (d.primary.size = 0 \/ ShouldExpand(d))

ExpandRequest(d) ==
    IF d.primary.size = 0 THEN DICT_MINIMAL_SIZE ELSE 2 * d.primary.length

\* dict_expand_if: the dictionary afterwards, and whether it returned OK.
ExpandIf(d) == IF WantsExpand(d) THEN Expand(d, ExpandRequest(d)) ELSE d
ExpandIfOK(d) == WantsExpand(d) => MayExpandTo(d, ExpandRequest(d))
-----------------------------------------------------------------------------
(* Insertion and removal: the critical sections of __dict_add and          *)
(* __dict_delete.                                                          *)

\* dict_calc_index returned an index.  The expansion happens first, also for
\* a key that turns out to exist.
CanAdd(d, k) == ExpandIfOK(d) /\ ~Present(ExpandIf(d), k)

\* Mutant: a new entry always goes into the primary table.
AddKeyToPrimary(d, k) ==
    IF ~CanAdd(d, k) THEN ExpandIf(d)
    ELSE [ExpandIf(d) EXCEPT !.primary = Link(@, k)]

AddKey(d, k) ==
    LET x == ExpandIf(d)
    IN  IF ~CanAdd(d, k) THEN x
        ELSE IF x.rehashing THEN [x EXCEPT !.rehash = Link(@, k)]
                            ELSE [x EXCEPT !.primary = Link(@, k)]

DeleteKey(d, k) ==
    IF Contains(d.primary, k) THEN [d EXCEPT !.primary = Unlink(@, k)]
    ELSE IF d.rehashing /\ Contains(d.rehash, k)
         THEN [d EXCEPT !.rehash = Unlink(@, k)]
         ELSE d
-----------------------------------------------------------------------------
(* One iteration of the loops of dict_rehash.                              *)

\* while(array[rehashidx] == NULL) rehashidx++
SkipBucket(d) == [d EXCEPT !.rehashidx = @ + 1]

\* Empty bucket i, and push the entries B on their chains.
TakeBucket(m, i) ==
    [m EXCEPT !.array[i] = {}, !.length = @ - Cardinality(m.array[i])]
PushAll(m, B) ==
    [m EXCEPT !.array = [i \in 0..(m.size - 1) |->
                            m.array[i] \cup {k \in B : Slot(m, k) = i}],
              !.length = @ + Cardinality(B)]

\* Mutant: the entries keep their bucket index in the larger table.
MoveBucketSameIndex(d) ==
    LET i == d.rehashidx
        B == d.primary.array[i]
    IN  [d EXCEPT !.primary = TakeBucket(@, i),
                  !.rehash.array[i] = @ \cup B,
                  !.rehash.length = @ + Cardinality(B),
                  !.rehashidx = @ + 1]

MoveBucket(d) ==
    [d EXCEPT !.primary = TakeBucket(@, d.rehashidx),
              !.rehash = PushAll(@, d.primary.array[d.rehashidx]),
              !.rehashidx = @ + 1]

\* The last bucket was moved: the rehash table becomes the primary one.
SwapMaps(d) == [primary |-> d.rehash, rehash |-> NoMap,
                rehashidx |-> -1, rehashing |-> FALSE]

RehashBucket(d) ==
    LET m == MoveBucket(d)
    IN  IF m.primary.length = 0 THEN SwapMaps(m) ELSE m
-----------------------------------------------------------------------------
(* What a well formed dictionary is.                                       *)

Entries(m) == {k \in Keys : \E i \in 0..(m.size - 1) : k \in m.array[i]}

MapType(m) ==
    /\ DOMAIN m = {"size", "array", "length"}
    /\ m.size \in Nat
    /\ m.size # 0 => IsPowerOfTwo(m.size)
    /\ m.array \in [0..(m.size - 1) -> SUBSET Keys]
    /\ m.length \in Int

DictType(d) ==
    /\ DOMAIN d = {"primary", "rehash", "rehashidx", "rehashing"}
    /\ MapType(d.primary) /\ MapType(d.rehash)
    /\ d.rehashidx \in Int
    /\ d.rehashing \in BOOLEAN

\* Every entry sits in the bucket its key hashes to.
Placed(m) == \A i \in 0..(m.size - 1) : \A k \in m.array[i] : Slot(m, k) = i

Counted(m) == m.length = Cardinality(Entries(m))

\* The rehash table exists only while rehashing, and is the larger one; the
\* buckets the rehash has passed stay empty.
FrontOK(d) ==
    IF d.rehashing
    THEN /\ 0 < d.primary.size /\ d.primary.size < d.rehash.size
         /\ d.rehashidx \in 0..d.primary.size
         /\ \A i \in 0..(d.rehashidx - 1) : d.primary.array[i] = {}
    ELSE d.rehash = NoMap

Disjoint(d) == Entries(d.primary) \cap Entries(d.rehash) = {}

DictOK(d) ==
    /\ DictType(d)
    /\ Placed(d.primary) /\ Placed(d.rehash)
    /\ Counted(d.primary) /\ Counted(d.rehash)
    /\ FrontOK(d)
    /\ Disjoint(d)
=============================================================================
