----------------------------- MODULE DictProofs -----------------------------
(***************************************************************************)
(* Theorems about Dict, for any number of threads, keys and values.  The   *)
(* argument: the tables are well formed (DictOK), only the holder of the   *)
(* lock is inside dict_rehash, and there a rehash is in progress.  Every   *)
(* step then is a step of the mapping of DictSpec, or leaves it alone:     *)
(* an operation takes effect in its critical section, a rehash moves       *)
(* entries without changing what the two tables hold together.             *)
(***************************************************************************)
EXTENDS Dict, FiniteSetTheorems, TLAPS
-----------------------------------------------------------------------------
(* Each function of dict.c that changes the tables keeps a well formed     *)
(* dictionary well formed.                                                 *)

MapOK(m) == MapType(m) /\ Placed(m) /\ Counted(m)

\* The remainder of dict.c's hash & sizemask is an index of the array.
LEMMA SlotRange ==
    ASSUME NEW m, m.size \in Nat \ {0}, NEW k \in Keys
    PROVE  Slot(m, k) \in 0..(m.size - 1)
BY HashAssumption DEF Slot

\* dict_map::length is a natural number, at most the number of keys.
LEMMA LengthBound ==
    ASSUME NEW m, Counted(m)
    PROVE  /\ IsFiniteSet(Entries(m))
           /\ m.length \in Nat /\ m.length <= Cardinality(Keys)
           /\ m.length = 0 <=> Entries(m) = {}
<1>1. Entries(m) \subseteq Keys
  BY DEF Entries
<1>2. IsFiniteSet(Entries(m)) /\ Cardinality(Entries(m)) <= Cardinality(Keys)
  BY <1>1, KeysAssumption, FS_Subset
<1>3. Cardinality(Entries(m)) \in Nat
  BY <1>2, FS_CardinalityType
<1>4. Cardinality(Entries(m)) = 0 <=> Entries(m) = {}
  BY <1>2, FS_EmptySet
<1> QED
  BY <1>2, <1>3, <1>4 DEF Counted

\* The search of one chain finds exactly the entries of the table.
LEMMA ContainsEntries ==
    ASSUME NEW m, MapType(m), Placed(m), NEW k \in Keys
    PROVE  Contains(m, k) <=> k \in Entries(m)
<1>1. CASE m.size = 0
  BY <1>1 DEF Contains, Entries
<1>2. CASE m.size # 0
  <2>1. Slot(m, k) \in 0..(m.size - 1)
    BY <1>2, SlotRange DEF MapType
  <2> QED
    BY <1>2, <2>1 DEF Contains, Entries, Placed
<1> QED
  BY <1>1, <1>2

\* A fresh table of dict_expand or dict_init is empty and well formed.
LEMMA NewMapOK ==
    ASSUME NEW n \in Nat, n # 0 => IsPowerOfTwo(n)
    PROVE  MapOK(NewMap(n)) /\ Entries(NewMap(n)) = {} /\ NewMap(n).size = n
           /\ NewMap(n).length = 0
<1>1. Entries(NewMap(n)) = {}
  BY DEF Entries, NewMap
<1>2. Counted(NewMap(n))
  BY <1>1, FS_EmptySet, Zenon DEF Counted, NewMap
<1>3. MapType(NewMap(n))
  BY DEF MapType, NewMap
<1>4. Placed(NewMap(n))
  BY DEF Placed, NewMap
<1> QED
  BY <1>1, <1>2, <1>3, <1>4, Zenon DEF MapOK, NewMap

\* Linking a new entry at the head of its chain.
LEMMA LinkOK ==
    ASSUME NEW m, MapOK(m), m.size # 0, NEW k \in Keys, k \notin Entries(m)
    PROVE  /\ MapOK(Link(m, k)) /\ Link(m, k).size = m.size
           /\ Entries(Link(m, k)) = Entries(m) \cup {k}
<1> DEFINE l == Link(m, k)
           s == Slot(m, k)
<1>1. s \in 0..(m.size - 1)
  BY SlotRange DEF MapOK, MapType
<1>2. /\ l.size = m.size
      /\ l.array = [m.array EXCEPT ![s] = @ \cup {k}]
      /\ l.length = m.length + 1
      /\ DOMAIN l = DOMAIN m
  BY DEF Link, MapOK, MapType
<1>3. MapType(l)
  BY <1>1, <1>2 DEF MapOK, MapType
<1>4. \A j \in Keys : Slot(l, j) = Slot(m, j)
  BY <1>2 DEF Slot
<1>5. Placed(l)
  BY <1>1, <1>2, <1>4 DEF MapOK, MapType, Placed
<1>6. Entries(l) = Entries(m) \cup {k}
  BY <1>1, <1>2 DEF MapOK, MapType, Entries
<1>7. Counted(l)
  BY <1>2, <1>6, LengthBound, FS_AddElement, Zenon DEF MapOK, Counted
<1> QED
  BY <1>2, <1>3, <1>5, <1>6, <1>7 DEF MapOK

\* Unlinking an entry found in its chain.
LEMMA UnlinkOK ==
    ASSUME NEW m, MapOK(m), NEW k \in Keys, Contains(m, k)
    PROVE  /\ MapOK(Unlink(m, k)) /\ Unlink(m, k).size = m.size
           /\ Entries(Unlink(m, k)) = Entries(m) \ {k}
           /\ \A i \in 0..(m.size - 1) :
                Unlink(m, k).array[i] \subseteq m.array[i]
<1> DEFINE l == Unlink(m, k)
           s == Slot(m, k)
<1>1. s \in 0..(m.size - 1)
  BY SlotRange DEF MapOK, MapType, Contains
<1>2. /\ l.size = m.size
      /\ l.array = [m.array EXCEPT ![s] = @ \ {k}]
      /\ l.length = m.length - 1
      /\ DOMAIN l = DOMAIN m
  BY DEF Unlink, MapOK, MapType
<1>3. MapType(l)
  BY <1>1, <1>2 DEF MapOK, MapType
<1>4. \A j \in Keys : Slot(l, j) = Slot(m, j)
  BY <1>2 DEF Slot
<1>5. Placed(l)
  BY <1>1, <1>2, <1>4 DEF MapOK, MapType, Placed
<1>6. Entries(l) = Entries(m) \ {k}
  BY <1>1, <1>2 DEF MapOK, MapType, Entries, Placed
<1>7. k \in Entries(m)
  BY ContainsEntries DEF MapOK
<1>8. Counted(l)
  BY <1>2, <1>6, <1>7, LengthBound, FS_RemoveElement, Zenon DEF MapOK, Counted
<1>9. \A i \in 0..(m.size - 1) : l.array[i] \subseteq m.array[i]
  BY <1>1, <1>2 DEF MapOK, MapType
<1> QED
  BY <1>2, <1>3, <1>5, <1>6, <1>8, <1>9 DEF MapOK
-----------------------------------------------------------------------------
\* dict_alloc and dict_clear leave well formed dictionaries.
LEMMA FreshOK == DictOK(EmptyDict) /\ DictOK(Cleared)
<1>1. MapOK(NoMap) /\ Entries(NoMap) = {} /\ NoMap.size = 0
  BY NewMapOK DEF NoMap
<1>2. MapOK(EmptyDict.primary)
  BY NewMapOK, SizeAssumption DEF EmptyDict
<1>3. DictOK(EmptyDict)
  BY <1>1, <1>2
  DEF DictOK, DictType, MapOK, EmptyDict, FrontOK, Disjoint
<1>4. DictOK(Cleared)
  BY <1>1 DEF DictOK, DictType, MapOK, Cleared, FrontOK, Disjoint
<1> QED
  BY <1>3, <1>4

\* dict_real_size returns a power of two between the request and its double.
LEMMA RealSizeRange ==
    ASSUME NEW n \in Requests
    PROVE  RealSize(n) \in n..(2 * n - 1) /\ IsPowerOfTwo(RealSize(n))
BY PowerAssumption DEF RealSize

\* dict_expand_if: the requests it makes are the ones dict_expand accepts, a
\* rehash table it creates is larger than the primary one, and no entry moves.
LEMMA ExpandIfPreserves ==
    ASSUME NEW d, DictOK(d)
    PROVE  /\ DictOK(ExpandIf(d)) /\ ExpandIfOK(d)
           /\ ExpandIf(d).primary.size # 0
           /\ Entries(ExpandIf(d).primary) = Entries(d.primary)
           /\ Entries(ExpandIf(d).rehash) = Entries(d.rehash)
<1> DEFINE x == ExpandIf(d)
           n == ExpandRequest(d)
<1>a. MapOK(d.primary) /\ MapOK(d.rehash) /\ DictType(d)
  BY DEF DictOK, DictType, MapOK
<1>b. d.primary.length \in Nat /\ d.primary.length <= Cardinality(Keys)
      /\ (d.primary.length = 0 <=> Entries(d.primary) = {})
  BY <1>a, LengthBound DEF MapOK
<1>c. d.primary.size \in Nat
  BY <1>a DEF MapOK, MapType
<1>1. CASE ~WantsExpand(d)
  <2>1. x = d /\ d.primary.size # 0
    BY <1>1, <1>c DEF ExpandIf, WantsExpand, DictOK, FrontOK
  <2> QED
    BY <1>1, <2>1 DEF ExpandIfOK
<1>2. CASE WantsExpand(d)
  <2>0. ~d.rehashing /\ d.rehash = NoMap
    BY <1>2 DEF WantsExpand, DictOK, FrontOK
  <2>c. Cardinality(Keys) \in Nat
    BY KeysAssumption, FS_CardinalityType
  <2>1. CASE d.primary.size = 0
    <3>1. n = DICT_MINIMAL_SIZE /\ n \in Requests /\ n \in Nat \ {0}
      BY <2>1, SizeAssumption DEF ExpandRequest, Requests
    <3>2. RealSize(n) \in Nat \ {0} /\ IsPowerOfTwo(RealSize(n))
      BY <3>1, RealSizeRange
    <3>3. Entries(d.primary) = {} /\ d.primary.length = 0
      BY <1>b, <2>1 DEF Entries
    <3>4. MayExpandTo(d, n)
      BY <2>0, <2>1, <3>1, <3>2, <3>3 DEF MayExpandTo
    <3>5. x = [d EXCEPT !.primary = NewMap(RealSize(n))]
      BY <1>2, <2>1, <3>4 DEF ExpandIf, Expand
    <3>6. /\ x.primary = NewMap(RealSize(n)) /\ x.rehash = d.rehash
          /\ x.rehashidx = d.rehashidx /\ x.rehashing = d.rehashing
          /\ DOMAIN x = DOMAIN d
      BY <1>a, <3>5 DEF DictType
    <3>7. /\ MapOK(x.primary) /\ Entries(x.primary) = {}
          /\ x.primary.size = RealSize(n)
      BY <3>2, <3>6, NewMapOK
    <3>8. DictOK(x)
      BY <1>a, <2>0, <3>6, <3>7
      DEF DictOK, DictType, MapOK, FrontOK, Disjoint
    <3> QED
      BY <3>2, <3>3, <3>4, <3>6, <3>7, <3>8 DEF ExpandIfOK
  <2>2. CASE d.primary.size # 0
    <3>1. d.primary.length >= d.primary.size /\ n = 2 * d.primary.length
      BY <1>2, <2>2 DEF WantsExpand, ShouldExpand, ExpandRequest
    <3>2. n \in Requests /\ n \in Nat
      BY <1>b, <1>c, <2>2, <2>c, <3>1 DEF Requests
    <3>3. RealSize(n) \in n..(2 * n - 1) /\ IsPowerOfTwo(RealSize(n))
      BY <3>2, RealSizeRange
    <3>4. RealSize(n) \in Nat /\ d.primary.size < RealSize(n)
      BY <1>b, <1>c, <2>2, <3>1, <3>2, <3>3
    <3>5. MayExpandTo(d, n)
      BY <1>b, <1>c, <2>0, <3>1, <3>4 DEF MayExpandTo
    <3>6. x = [d EXCEPT !.rehash = NewMap(RealSize(n)), !.rehashidx = 0,
                        !.rehashing = TRUE]
      BY <1>2, <2>2, <3>5 DEF ExpandIf, Expand
    <3>7. /\ x.primary = d.primary /\ x.rehash = NewMap(RealSize(n))
          /\ x.rehashidx = 0 /\ DOMAIN x = DOMAIN d
          /\ x.rehashing /\ x.rehashing \in BOOLEAN
      BY <1>a, <3>6 DEF DictType
    <3>8. /\ MapOK(x.rehash) /\ Entries(x.rehash) = {}
          /\ x.rehash.size = RealSize(n)
      BY <3>3, <3>4, <3>7, NewMapOK
    <3>9. FrontOK(x)
      BY <1>c, <2>2, <3>4, <3>7, <3>8 DEF FrontOK
    <3>10. DictOK(x)
      BY <1>a, <3>7, <3>8, <3>9 DEF DictOK, DictType, MapOK, Disjoint
    <3>11. Entries(d.rehash) = {}
      BY <2>0, NewMapOK DEF NoMap
    <3> QED
      BY <2>2, <3>5, <3>7, <3>8, <3>10, <3>11 DEF ExpandIfOK
  <2> QED
    BY <2>1, <2>2
<1> QED
  BY <1>1, <1>2

\* The search over both tables finds exactly the entries of the dictionary.
LEMMA PresentEntries ==
    ASSUME NEW d, DictOK(d), NEW k \in Keys
    PROVE  Present(d, k) <=> k \in Entries(d.primary) \cup Entries(d.rehash)
<1>1. MapType(d.primary) /\ MapType(d.rehash)
  BY DEF DictOK, DictType
<1>2. /\ Contains(d.primary, k) <=> k \in Entries(d.primary)
      /\ Contains(d.rehash, k) <=> k \in Entries(d.rehash)
  BY <1>1, ContainsEntries DEF DictOK
<1>3. CASE d.rehashing
  BY <1>2, <1>3 DEF Present
<1>4. CASE ~d.rehashing
  <2>1. Entries(d.rehash) = {}
    BY <1>4, NewMapOK DEF DictOK, FrontOK, NoMap
  <2> QED
    BY <1>2, <1>4, <2>1 DEF Present
<1> QED
  BY <1>3, <1>4

\* A new entry goes into the rehash table while rehashing, and never behind
\* the front; the add is refused only for a key that is present.
LEMMA AddKeyPreserves ==
    ASSUME NEW d, DictOK(d), NEW k \in Keys
    PROVE  /\ DictOK(AddKey(d, k))
           /\ CanAdd(d, k) <=> ~Present(d, k)
           /\ Entries(AddKey(d, k).primary) \cup Entries(AddKey(d, k).rehash)
              = Entries(d.primary) \cup Entries(d.rehash) \cup {k}
<1> DEFINE x == ExpandIf(d)
           a == AddKey(d, k)
<1>1. /\ DictOK(x) /\ ExpandIfOK(d) /\ x.primary.size # 0
      /\ Entries(x.primary) = Entries(d.primary)
      /\ Entries(x.rehash) = Entries(d.rehash)
  BY ExpandIfPreserves
<1>2. Present(x, k) <=> Present(d, k)
  BY <1>1, PresentEntries
<1>3. CanAdd(d, k) <=> ~Present(d, k)
  BY <1>1, <1>2 DEF CanAdd
<1>4. MapOK(x.primary) /\ MapOK(x.rehash) /\ DictType(x)
  BY <1>1 DEF DictOK, DictType, MapOK
<1>5. CASE Present(d, k)
  <2>1. a = x
    BY <1>3, <1>5 DEF AddKey
  <2>2. k \in Entries(d.primary) \cup Entries(d.rehash)
    BY <1>5, PresentEntries
  <2> QED
    BY <1>1, <1>3, <2>1, <2>2
<1>6. CASE ~Present(d, k)
  <2>1. k \notin Entries(x.primary) /\ k \notin Entries(x.rehash)
    BY <1>1, <1>2, <1>6, PresentEntries
  <2>2. CASE x.rehashing
    <3>1. a = [x EXCEPT !.rehash = Link(@, k)]
      BY <1>3, <1>6, <2>2 DEF AddKey
    <3>2. /\ a.primary = x.primary /\ a.rehash = Link(x.rehash, k)
          /\ a.rehashidx = x.rehashidx /\ a.rehashing = x.rehashing
          /\ DOMAIN a = DOMAIN x
      BY <1>4, <3>1 DEF DictType
    <3>3. x.rehash.size # 0
      BY <1>1, <1>4, <2>2 DEF DictOK, FrontOK, MapOK, MapType
    <3>4. /\ MapOK(a.rehash) /\ a.rehash.size = x.rehash.size
          /\ Entries(a.rehash) = Entries(x.rehash) \cup {k}
      BY <1>4, <2>1, <3>2, <3>3, LinkOK
    <3>5. FrontOK(a)
      BY <1>1, <2>2, <3>2, <3>4 DEF DictOK, FrontOK
    <3>6. Disjoint(a)
      BY <1>1, <2>1, <3>2, <3>4 DEF DictOK, Disjoint
    <3>7. DictType(a)
      BY <1>4, <3>2, <3>4 DEF DictType, MapOK
    <3>8. DictOK(a)
      BY <1>4, <3>2, <3>4, <3>5, <3>6, <3>7 DEF DictOK, MapOK
    <3> QED
      BY <1>1, <1>3, <3>2, <3>4, <3>8
  <2>3. CASE ~x.rehashing
    <3>1. a = [x EXCEPT !.primary = Link(@, k)]
      BY <1>3, <1>6, <2>3 DEF AddKey
    <3>2. /\ a.rehash = x.rehash /\ a.primary = Link(x.primary, k)
          /\ a.rehashidx = x.rehashidx /\ a.rehashing = x.rehashing
          /\ DOMAIN a = DOMAIN x
      BY <1>4, <3>1 DEF DictType
    <3>4. /\ MapOK(a.primary) /\ a.primary.size = x.primary.size
          /\ Entries(a.primary) = Entries(x.primary) \cup {k}
      BY <1>1, <1>4, <2>1, <3>2, LinkOK
    <3>5. FrontOK(a)
      BY <1>1, <2>3, <3>2 DEF DictOK, FrontOK
    <3>6. Disjoint(a)
      BY <1>1, <2>1, <3>2, <3>4 DEF DictOK, Disjoint
    <3>7. DictType(a)
      BY <1>4, <3>2, <3>4 DEF DictType, MapOK
    <3>8. DictOK(a)
      BY <1>4, <3>2, <3>4, <3>5, <3>6, <3>7 DEF DictOK, MapOK
    <3> QED
      BY <1>1, <1>3, <3>2, <3>4, <3>8
  <2> QED
    BY <2>2, <2>3
<1> QED
  BY <1>5, <1>6

\* __dict_delete unlinks the one entry of the key, whichever table it is in.
LEMMA DeleteKeyPreserves ==
    ASSUME NEW d, DictOK(d), NEW k \in Keys
    PROVE  /\ DictOK(DeleteKey(d, k))
           /\ Entries(DeleteKey(d, k).primary)
                \cup Entries(DeleteKey(d, k).rehash)
              = (Entries(d.primary) \cup Entries(d.rehash)) \ {k}
<1> DEFINE a == DeleteKey(d, k)
<1>1. MapOK(d.primary) /\ MapOK(d.rehash) /\ DictType(d)
  BY DEF DictOK, DictType, MapOK
<1>2. /\ Contains(d.primary, k) <=> k \in Entries(d.primary)
      /\ Contains(d.rehash, k) <=> k \in Entries(d.rehash)
  BY <1>1, ContainsEntries DEF MapOK
<1>3. CASE Contains(d.primary, k)
  <2>1. a = [d EXCEPT !.primary = Unlink(@, k)]
    BY <1>3 DEF DeleteKey
  <2>2. /\ a.rehash = d.rehash /\ a.primary = Unlink(d.primary, k)
        /\ a.rehashidx = d.rehashidx /\ a.rehashing = d.rehashing
        /\ DOMAIN a = DOMAIN d
    BY <1>1, <2>1 DEF DictType
  <2>3. /\ MapOK(a.primary) /\ a.primary.size = d.primary.size
        /\ Entries(a.primary) = Entries(d.primary) \ {k}
        /\ \A i \in 0..(d.primary.size - 1) :
              a.primary.array[i] \subseteq d.primary.array[i]
    BY <1>1, <1>3, <2>2, UnlinkOK
  <2>4. d.primary.size \in Nat
    BY <1>1 DEF MapOK, MapType
  <2>5. FrontOK(a)
    BY <2>2, <2>3, <2>4 DEF DictOK, FrontOK
  <2>6. DictType(a)
    BY <1>1, <2>2, <2>3 DEF DictType, MapOK
  <2>7. Disjoint(a)
    BY <2>2, <2>3 DEF DictOK, Disjoint
  <2>8. DictOK(a)
    BY <1>1, <2>2, <2>3, <2>5, <2>6, <2>7 DEF DictOK, MapOK
  <2>9. k \notin Entries(d.rehash)
    BY <1>2, <1>3 DEF DictOK, Disjoint
  <2> QED
    BY <2>2, <2>3, <2>8, <2>9
<1>4. CASE ~Contains(d.primary, k) /\ d.rehashing /\ Contains(d.rehash, k)
  <2>1. a = [d EXCEPT !.rehash = Unlink(@, k)]
    BY <1>4 DEF DeleteKey
  <2>2. /\ a.primary = d.primary /\ a.rehash = Unlink(d.rehash, k)
        /\ a.rehashidx = d.rehashidx /\ a.rehashing = d.rehashing
        /\ DOMAIN a = DOMAIN d
    BY <1>1, <2>1 DEF DictType
  <2>3. /\ MapOK(a.rehash) /\ a.rehash.size = d.rehash.size
        /\ Entries(a.rehash) = Entries(d.rehash) \ {k}
    BY <1>1, <1>4, <2>2, UnlinkOK
  <2>5. FrontOK(a)
    BY <1>4, <2>2, <2>3 DEF DictOK, FrontOK
  <2>6. DictType(a)
    BY <1>1, <2>2, <2>3 DEF DictType, MapOK
  <2>7. Disjoint(a)
    BY <2>2, <2>3 DEF DictOK, Disjoint
  <2>8. DictOK(a)
    BY <1>1, <2>2, <2>3, <2>5, <2>6, <2>7 DEF DictOK, MapOK
  <2> QED
    BY <1>2, <1>4, <2>2, <2>3, <2>8
<1>5. CASE ~Present(d, k)
  <2>1. a = d
    BY <1>5 DEF DeleteKey, Present
  <2> QED
    BY <1>5, <2>1, PresentEntries
<1> QED
  BY <1>3, <1>4, <1>5 DEF Present
-----------------------------------------------------------------------------
\* Emptying one bucket.
LEMMA TakeBucketOK ==
    ASSUME NEW m, MapOK(m), NEW i \in 0..(m.size - 1)
    PROVE  /\ MapOK(TakeBucket(m, i)) /\ TakeBucket(m, i).size = m.size
           /\ TakeBucket(m, i).array = [m.array EXCEPT ![i] = {}]
           /\ Entries(TakeBucket(m, i)) = Entries(m) \ m.array[i]
           /\ m.array[i] \subseteq Entries(m)
<1> DEFINE l == TakeBucket(m, i)
           B == m.array[i]
<1>1. /\ l.size = m.size /\ l.array = [m.array EXCEPT ![i] = {}]
      /\ l.length = m.length - Cardinality(B) /\ DOMAIN l = DOMAIN m
  BY DEF TakeBucket, MapOK, MapType
<1>2. B \subseteq Entries(m)
  BY DEF Entries, MapOK, MapType
<1>3. \A j \in Keys : Slot(l, j) = Slot(m, j)
  BY <1>1 DEF Slot
<1>4. Entries(l) = Entries(m) \ B
  BY <1>1 DEF Entries, MapOK, MapType, Placed
<1>5. IsFiniteSet(Entries(m)) /\ Entries(m) \cap B = B
  BY <1>2, LengthBound DEF MapOK
<1>6. IsFiniteSet(B) /\ Cardinality(B) \in Nat
  BY <1>2, <1>5, FS_Subset, FS_CardinalityType
<1>7. Cardinality(Entries(l)) = Cardinality(Entries(m)) - Cardinality(B)
  BY <1>4, <1>5, FS_Difference, Zenon
<1>8. Counted(l)
  BY <1>1, <1>7 DEF Counted, MapOK
<1>9. MapType(l)
  BY <1>1, <1>6 DEF MapOK, MapType
<1>10. Placed(l)
  BY <1>1, <1>3 DEF MapOK, MapType, Placed
<1> QED
  BY <1>1, <1>2, <1>4, <1>8, <1>9, <1>10 DEF MapOK

\* Pushing the entries of a bucket on the chains of the rehash table.
LEMMA PushAllOK ==
    ASSUME NEW m, MapOK(m), m.size # 0, NEW B, B \subseteq Keys,
           B \cap Entries(m) = {}
    PROVE  /\ MapOK(PushAll(m, B)) /\ PushAll(m, B).size = m.size
           /\ Entries(PushAll(m, B)) = Entries(m) \cup B
<1> DEFINE l == PushAll(m, B)
<1>1. /\ l.size = m.size
      /\ l.array = [i \in 0..(m.size - 1) |->
                        m.array[i] \cup {k \in B : Slot(m, k) = i}]
      /\ l.length = m.length + Cardinality(B) /\ DOMAIN l = DOMAIN m
  BY DEF PushAll, MapOK, MapType
<1>2. \A k \in Keys : Slot(l, k) = Slot(m, k)
                       /\ Slot(m, k) \in 0..(m.size - 1)
  BY <1>1, SlotRange DEF Slot, MapOK, MapType
<1>3. Entries(l) = Entries(m) \cup B
  BY <1>1, <1>2 DEF Entries
<1>4. IsFiniteSet(Entries(m)) /\ IsFiniteSet(B)
  BY LengthBound, KeysAssumption, FS_Subset DEF MapOK
<1>5. Cardinality(Entries(l)) = Cardinality(Entries(m)) + Cardinality(B)
  <2>1. Cardinality(Entries(m) \cup B)
        = Cardinality(Entries(m)) + Cardinality(B)
            - Cardinality(Entries(m) \cap B)
    BY <1>4, FS_Union
  <2>2. Entries(m) \cap B = {} /\ Cardinality({}) = 0
    BY FS_EmptySet
  <2>3. Cardinality(Entries(m)) \in Nat /\ Cardinality(B) \in Nat
    BY <1>4, FS_CardinalityType
  <2>4. Cardinality(Entries(m) \cap B) = 0
    BY <2>2
  <2> QED
    BY <1>3, <2>1, <2>3, <2>4
<1>6. Counted(l)
  BY <1>1, <1>5 DEF Counted, MapOK
<1>7. MapType(l)
  <2>1. Cardinality(B) \in Nat
    BY <1>4, FS_CardinalityType
  <2> QED
    BY <1>1, <2>1 DEF MapOK, MapType
<1>8. Placed(l)
  BY <1>1, <1>2 DEF MapOK, MapType, Placed
<1> QED
  BY <1>1, <1>3, <1>6, <1>7, <1>8 DEF MapOK

\* While the primary table has entries, one of them is at or behind the front:
\* the scan of dict_rehash stops before the end of the array.
LEMMA FrontInBounds ==
    ASSUME NEW d, DictOK(d), d.rehashing, d.primary.length > 0
    PROVE  /\ d.rehashidx \in 0..(d.primary.size - 1)
           /\ \E i \in d.rehashidx..(d.primary.size - 1) :
                d.primary.array[i] # {}
<1>1. Entries(d.primary) # {}
  BY LengthBound DEF DictOK
<1>2. PICK k \in Keys, i \in 0..(d.primary.size - 1) : k \in d.primary.array[i]
  BY <1>1 DEF Entries
<1>3. d.primary.size \in Nat /\ d.rehashidx \in 0..d.primary.size
  BY DEF DictOK, DictType, MapType, FrontOK
<1>4. i \notin 0..(d.rehashidx - 1)
  BY <1>2 DEF DictOK, FrontOK
<1> QED
  BY <1>2, <1>3, <1>4

\* Stepping over an empty bucket.
LEMMA SkipBucketPreserves ==
    ASSUME NEW d, DictOK(d), d.rehashing, d.primary.length > 0,
           d.primary.array[d.rehashidx] = {}
    PROVE  /\ DictOK(SkipBucket(d)) /\ SkipBucket(d).rehashing
           /\ SkipBucket(d).primary = d.primary
           /\ SkipBucket(d).rehash = d.rehash
<1> DEFINE s == SkipBucket(d)
<1>1. /\ s.primary = d.primary /\ s.rehash = d.rehash
      /\ s.rehashing = d.rehashing /\ s.rehashidx = d.rehashidx + 1
      /\ DOMAIN s = DOMAIN d
  BY Zenon DEF SkipBucket, DictOK, DictType
<1>2. d.rehashidx \in 0..(d.primary.size - 1) /\ d.primary.size \in Nat
  BY FrontInBounds, Zenon DEF DictOK, DictType, MapType
<1>3. FrontOK(s)
  BY <1>1, <1>2 DEF DictOK, FrontOK
<1>4. DictType(s)
  BY <1>1, <1>2 DEF DictOK, DictType
<1> QED
  BY <1>1, <1>3, <1>4 DEF DictOK, Disjoint

\* Moving a bucket, and after the last one making the rehash table the primary
\* one, neither loses nor duplicates an entry.
LEMMA RehashBucketPreserves ==
    ASSUME NEW d, DictOK(d), d.rehashing, d.primary.length > 0
    PROVE  /\ DictOK(RehashBucket(d))
           /\ Entries(RehashBucket(d).primary)
                \cup Entries(RehashBucket(d).rehash)
              = Entries(d.primary) \cup Entries(d.rehash)
<1> DEFINE m == MoveBucket(d)
           r == RehashBucket(d)
           i == d.rehashidx
           B == d.primary.array[i]
<1>1. /\ i \in 0..(d.primary.size - 1) /\ d.primary.size \in Nat
      /\ MapOK(d.primary) /\ MapOK(d.rehash)
  BY FrontInBounds, Zenon DEF DictOK, DictType, MapType, MapOK
<1>2. /\ m.primary = TakeBucket(d.primary, i)
      /\ m.rehash = PushAll(d.rehash, B)
      /\ m.rehashidx = i + 1 /\ m.rehashing = d.rehashing
      /\ DOMAIN m = DOMAIN d
  BY Zenon DEF MoveBucket, DictOK, DictType
<1>3. /\ MapOK(m.primary) /\ m.primary.size = d.primary.size
      /\ m.primary.array = [d.primary.array EXCEPT ![i] = {}]
      /\ Entries(m.primary) = Entries(d.primary) \ B
      /\ B \subseteq Entries(d.primary)
  <2> DEFINE p == d.primary
  <2> HIDE DEF p, i
  <2>1. /\ MapOK(TakeBucket(p, i)) /\ TakeBucket(p, i).size = p.size
        /\ TakeBucket(p, i).array = [p.array EXCEPT ![i] = {}]
        /\ Entries(TakeBucket(p, i)) = Entries(p) \ p.array[i]
        /\ p.array[i] \subseteq Entries(p)
    <3>1. MapOK(p) /\ i \in 0..(p.size - 1)
      BY <1>1 DEF p
    <3> QED
      BY <3>1, TakeBucketOK
  <2> QED
    BY <1>2, <2>1 DEF p
<1>4. d.rehash.size # 0 /\ B \subseteq Keys /\ B \cap Entries(d.rehash) = {}
  <2>1. d.rehash.size # 0
    BY <1>1 DEF DictOK, FrontOK, MapOK, MapType
  <2>2. B \subseteq Keys
    BY <1>3 DEF Entries
  <2>3. B \cap Entries(d.rehash) = {}
    BY <1>3 DEF DictOK, Disjoint
  <2> QED
    BY <2>1, <2>2, <2>3
<1>5. /\ MapOK(m.rehash) /\ m.rehash.size = d.rehash.size
      /\ Entries(m.rehash) = Entries(d.rehash) \cup B
  BY <1>1, <1>2, <1>4, PushAllOK
<1>6. FrontOK(m)
  <2>1. \A j \in 0..i : m.primary.array[j] = {}
    BY <1>1, <1>3 DEF DictOK, FrontOK, MapOK, MapType
  <2>2. 0 < m.primary.size /\ m.primary.size < m.rehash.size
    BY <1>3, <1>5 DEF DictOK, FrontOK
  <2>3. m.rehashidx \in 0..m.primary.size /\ m.rehashidx - 1 = i
    BY <1>1, <1>2, <1>3
  <2> QED
    BY <1>2, <2>1, <2>2, <2>3 DEF FrontOK
<1>7. DictType(m)
  BY <1>1, <1>2, <1>3, <1>5 DEF DictOK, DictType, MapOK
<1>8. DictOK(m)
  BY <1>3, <1>5, <1>6, <1>7 DEF DictOK, MapOK, Disjoint
<1>9. CASE m.primary.length # 0
  <2>1. r = m
    BY <1>9 DEF RehashBucket
  <2> QED
    BY <1>3, <1>5, <1>8, <2>1
<1>10. CASE m.primary.length = 0
  <2>1. r = SwapMaps(m)
    BY <1>10 DEF RehashBucket
  <2>2. Entries(m.primary) = {}
    BY <1>3, <1>10, LengthBound DEF MapOK
  <2>3. MapOK(NoMap) /\ Entries(NoMap) = {}
    BY NewMapOK DEF NoMap
  <2>4. DictOK(SwapMaps(m))
    BY <1>5, <2>3
    DEF SwapMaps, DictOK, DictType, MapOK, FrontOK, Disjoint
  <2>5. SwapMaps(m).primary = m.rehash /\ SwapMaps(m).rehash = NoMap
    BY DEF SwapMaps
  <2> QED
    BY <1>3, <1>5, <2>1, <2>2, <2>3, <2>4, <2>5
<1> QED
  BY <1>9, <1>10
-----------------------------------------------------------------------------
(* The threads and the worker.                                             *)

\* Inside dict_rehash the thread holds the lock, the dictionary is rehashing
\* and the budget of empty buckets is not used up.
RehashLocked ==
    \A p \in Threads \cup {Worker} :
        pc[p] = "rehash" => lock = p /\ dict.rehashing /\ visits # 0

\* After the critical section the result is known.
TailResult == \A t \in Threads : pc[t] = "tail" =>
    ret[t] \in [rc : {OK, ERR}, data : Values \cup {NULL} \cup Int]

\* dict_free was called with nothing left in the dictionary and no operation
\* in progress.
FreedEmpty == freeing # "no" => AllIdle /\ DictSize(dict) = 0

IInv == TypeOK /\ DictOK(dict) /\ RehashLocked /\ TailResult /\ FreedEmpty

\* A thread is in a call as it was.
SamePlace(u) == pc'[u] = "idle" <=> pc[u] = "idle"

\* A step inside a call leaves the calls, results and values alone.
LEMMA TypeKept ==
    ASSUME TypeOK, DictType(dict'), lock' \in Threads \cup {Worker, NoThread},
           num' \in Nat, visits' \in Nat, DOMAIN pc' = DOMAIN pc,
           pc'[Worker] \in WorkerPCs,
           \A u \in Threads : pc'[u] \in ThreadPCs /\ SamePlace(u),
           UNCHANGED <<value, iterators, status, call, miss, ret, freeing>>
    PROVE  TypeOK'
<1>1. \A t \in Threads :
        IF pc'[t] = "idle" THEN call'[t] = NULL ELSE call'[t] \in Calls(t)
  BY Zenon DEF TypeOK, SamePlace
<1> QED
  BY <1>1, Zenon DEF TypeOK, Calls

\* dict_init establishes the invariant: two empty tables and no call.
LEMMA InitInv == Init => IInv
<1> SUFFICES ASSUME Init PROVE IInv
  OBVIOUS
<1>1. DictOK(dict)
  BY FreshOK DEF Init
<1>2. TypeOK
  BY <1>1, ThreadsAssumption, StepsAssumption
  DEF Init, TypeOK, DictOK, ThreadPCs, WorkerPCs
<1>3. RehashLocked /\ TailResult /\ FreedEmpty
  BY ThreadsAssumption DEF Init, RehashLocked, TailResult, FreedEmpty
<1> QED
  BY <1>1, <1>2, <1>3 DEF IInv

\* A step of a client that leaves the tables and the lock alone.
LEMMA CallInv ==
    ASSUME IInv, NEW t \in Threads, Call(t)
    PROVE  IInv'
<1>1. TypeOK'
  BY ThreadsAssumption
  DEF IInv, Call, Goto, TypeOK, ThreadPCs, WorkerPCs, Calls, DictOK
<1>2. (RehashLocked /\ TailResult /\ FreedEmpty)'
  BY ThreadsAssumption
  DEF IInv, Call, Goto, TypeOK, RehashLocked, TailResult, FreedEmpty, ThreadPCs
<1>3. DictOK(dict)'
  BY DEF IInv, Call
<1> QED
  BY <1>1, <1>2, <1>3 DEF IInv

\* The checks before the critical section, and entering dict_rehash.
LEMMA CheckInv ==
    ASSUME IInv, NEW t \in Threads,
           CheckRehashing(t) \/ CheckIterators(t) \/ RehashStep(t)
    PROVE  IInv'
<1>1. DictOK(dict)'
  BY DEF IInv, CheckRehashing, CheckIterators, RehashStep
<1>2. CASE CheckRehashing(t)
  <2>1. TypeOK'
    BY <1>2, ThreadsAssumption, Zenon
    DEF IInv, CheckRehashing, Goto, TypeOK, ThreadPCs, Calls
  <2>2. (RehashLocked /\ TailResult /\ FreedEmpty)'
    BY <1>2, ThreadsAssumption
    DEF IInv, CheckRehashing, Goto, TypeOK, RehashLocked, TailResult,
        FreedEmpty, AllIdle
  <2> QED
    BY <1>1, <2>1, <2>2 DEF IInv
<1>3. CASE CheckIterators(t)
  <2>1. TypeOK'
    BY <1>3, ThreadsAssumption, Zenon
    DEF IInv, CheckIterators, Goto, TypeOK, ThreadPCs, Calls
  <2>2. (RehashLocked /\ TailResult /\ FreedEmpty)'
    BY <1>3, ThreadsAssumption
    DEF IInv, CheckIterators, Goto, TypeOK, RehashLocked, TailResult,
        FreedEmpty, AllIdle
  <2> QED
    BY <1>1, <2>1, <2>2 DEF IInv
<1>4. CASE RehashStep(t)
  <2>0. 1 * EmptyVisits \in Nat \ {0}
    BY StepsAssumption
  <2>1. TypeOK'
    <3>1. /\ pc[t] = "step" /\ lock' \in {t, lock} /\ num' \in Nat /\ visits' \in Nat
          /\ \E x \in {"rehash", "main"} : pc' = [pc EXCEPT ![t] = x]
          /\ UNCHANGED <<dict, value, iterators, status, call, miss, ret, freeing>>
      BY <1>4, <2>0 DEF RehashStep, RehashEnter, Goto, IInv, TypeOK
    <3>2. /\ DOMAIN pc' = DOMAIN pc /\ pc'[Worker] = pc[Worker]
          /\ \A u \in Threads : pc'[u] \in ThreadPCs /\ SamePlace(u)
      BY <3>1, ThreadsAssumption, Zenon DEF IInv, TypeOK, ThreadPCs, SamePlace
    <3>3. TypeOK /\ DictType(dict') /\ lock' \in Threads \cup {Worker, NoThread}
          /\ pc'[Worker] \in WorkerPCs
      BY <3>1, <3>2, Zenon DEF IInv, TypeOK
    <3>4. UNCHANGED <<value, iterators, status, call, miss, ret, freeing>>
      BY <3>1
    <3> QED
      BY <3>1, <3>2, <3>3, <3>4, TypeKept, Zenon
  <2>2. (TailResult /\ FreedEmpty)'
    BY <1>4, ThreadsAssumption, Zenon
    DEF IInv, RehashStep, RehashEnter, Goto, TypeOK, TailResult,
        FreedEmpty, AllIdle
  <2>3. RehashLocked'
    BY <1>4, <2>0, ThreadsAssumption, Zenon
    DEF IInv, RehashStep, RehashEnter, Goto, TypeOK, RehashLocked, LockFree
  <2> QED
    BY <1>1, <2>1, <2>2, <2>3 DEF IInv
<1> QED
  BY <1>2, <1>3, <1>4

\* Nobody is inside dict_rehash while the lock is free.
LEMMA NobodyRehashes ==
    ASSUME IInv, LockFree, NEW p \in Threads \cup {Worker}
    PROVE  pc[p] # "rehash"
BY ThreadsAssumption DEF IInv, RehashLocked, LockFree

\* The critical section of __dict_add.
LEMMA InsertInv ==
    ASSUME IInv, NEW t \in Threads, pc[t] = "main", LockFree,
           call[t].op \in {"add", "update"}, InsertEntry(t),
           UNCHANGED <<value, iterators, status, lock, call, num, visits,
                       freeing, miss>>
    PROVE  IInv'
<1>1. call[t].key \in Keys
  BY ThreadsAssumption DEF IInv, TypeOK, Calls
<1>2. DictOK(dict')
  BY <1>1, AddKeyPreserves DEF IInv, InsertEntry
<1>3. freeing = "no"
  BY DEF IInv, FreedEmpty, AllIdle
<1>4. /\ DOMAIN pc' = Threads \cup {Worker}
      /\ pc'[t] = "tail"
      /\ \A u \in Threads \ {t} : pc'[u] = pc[u]
      /\ pc'[Worker] \in {pc[Worker], "woken"}
  BY ThreadsAssumption DEF IInv, TypeOK, InsertEntry, Signalled
<1>5. /\ ret' = [ret EXCEPT ![t] = ret'[t]]
      /\ ret'[t] \in [rc : {OK, ERR}, data : Values \cup {NULL} \cup Int]
  BY DEF IInv, TypeOK, InsertEntry, Result
<1>6. TypeOK'
  <2>1. DictType(dict')
    BY <1>2 DEF DictOK
  <2> QED
    BY <1>4, <1>5, <2>1, ThreadsAssumption
    DEF IInv, TypeOK, ThreadPCs, WorkerPCs, Calls
<1>7. RehashLocked'
  BY <1>4, NobodyRehashes DEF RehashLocked
<1>8. TailResult'
  BY <1>4, <1>5 DEF IInv, TypeOK, TailResult
<1>9. FreedEmpty'
  BY <1>3 DEF FreedEmpty
<1> QED
  BY <1>2, <1>6, <1>7, <1>8, <1>9, Zenon DEF IInv

\* The critical section of dict_add preserves it.
LEMMA AddInv ==
    ASSUME IInv, NEW t \in Threads, DictAdd(t)
    PROVE  IInv'
BY InsertInv DEF DictAdd, Main

\* The critical section of dict_delete preserves it.
LEMMA DeleteInv ==
    ASSUME IInv, NEW t \in Threads, DictDelete(t)
    PROVE  IInv'
<1>1. call[t].key \in Keys
  BY ThreadsAssumption, Zenon DEF IInv, TypeOK, Calls, DictDelete, Main
<1>2. DictOK(dict')
  BY <1>1, DeleteKeyPreserves DEF IInv, DictDelete
<1>3. freeing = "no"
  BY DEF IInv, FreedEmpty, AllIdle, DictDelete, Main
<1>4. /\ ret' = [ret EXCEPT ![t] = ret'[t]]
      /\ ret'[t] \in [rc : {OK, ERR}, data : Values \cup {NULL} \cup Int]
  BY DEF IInv, TypeOK, DictDelete, Result
<1>5. TypeOK'
  <2>1. DictType(dict')
    BY <1>2 DEF DictOK
  <2> QED
    BY <1>4, <2>1, ThreadsAssumption, Zenon
    DEF IInv, TypeOK, ThreadPCs, WorkerPCs, Calls, DictDelete, Main, Goto
<1>6. RehashLocked'
  BY NobodyRehashes, Zenon DEF IInv, TypeOK, RehashLocked, DictDelete, Main, Goto
<1>7. TailResult'
  BY <1>4 DEF IInv, TypeOK, TailResult, DictDelete, Goto
<1>8. FreedEmpty'
  BY <1>3 DEF FreedEmpty, DictDelete
<1> QED
  BY <1>2, <1>5, <1>6, <1>7, <1>8 DEF IInv

\* The critical sections that only read.
LEMMA ReadInv ==
    ASSUME IInv, NEW t \in Threads, DictLookup(t) \/ DictGetSize(t)
    PROVE  IInv'
<1>1. DictOK(dict)'
  BY DEF IInv, DictLookup, DictGetSize
<1>2. DictSize(dict) \in Int
  BY DEF IInv, DictOK, DictType, MapType, DictSize
<1>3. freeing = "no"
  BY DEF IInv, FreedEmpty, AllIdle, DictLookup, DictGetSize, Main
<1>4. /\ ret' = [ret EXCEPT ![t] = ret'[t]]
      /\ ret'[t] \in [rc : {OK, ERR}, data : Values \cup {NULL} \cup Int]
  BY <1>2 DEF IInv, TypeOK, DictLookup, DictGetSize, Result
<1>5. pc[t] = "main" /\ pc' = [pc EXCEPT ![t] = "tail"]
  BY DEF DictLookup, DictGetSize, Goto, Main
<1>6. UNCHANGED <<dict, value, iterators, status, lock, call, miss, num,
                  visits, freeing>>
  BY DEF DictLookup, DictGetSize
<1>7. TypeOK'
  BY <1>4, <1>5, <1>6, ThreadsAssumption, Zenon
  DEF IInv, TypeOK, ThreadPCs, WorkerPCs, Calls
<1>8. RehashLocked'
  BY <1>5, <1>6 DEF IInv, TypeOK, RehashLocked
<1>9. TailResult'
  BY <1>4, <1>5 DEF IInv, TypeOK, TailResult
<1>10. FreedEmpty'
  BY <1>3, <1>6 DEF FreedEmpty
<1> QED
  BY <1>1, <1>7, <1>8, <1>9, <1>10 DEF IInv

\* So does that of raw_dict_update: a lookup, and an insertion after a miss.
LEMMA UpdateInv ==
    ASSUME IInv, NEW t \in Threads, DictUpdate(t)
    PROVE  IInv'
<1>1. CASE miss[t]
  BY <1>1, InsertInv, Zenon DEF DictUpdate, Main
<1>2. CASE ~miss[t]
  <2>1. DictOK(dict)' /\ UNCHANGED dict
    BY <1>2 DEF IInv, DictUpdate
  <2>2. freeing = "no"
    BY DEF IInv, FreedEmpty, AllIdle, DictUpdate, Main
  <2>3. \/ /\ pc' = [pc EXCEPT ![t] = "tail"] /\ UNCHANGED miss
           /\ ret' = [ret EXCEPT ![t] = Result(OK, NULL)]
        \/ /\ pc' = [pc EXCEPT ![t] = "check"] /\ UNCHANGED ret
           /\ miss' = [miss EXCEPT ![t] = TRUE]
    BY <1>2 DEF DictUpdate, Goto
  <2>4. UNCHANGED <<value, iterators, status, lock, call, num, visits, freeing>>
        /\ pc[t] = "main"
    BY DEF DictUpdate, Main
  <2>5. Result(OK, NULL) \in [rc : {OK, ERR}, data : Values \cup {NULL} \cup Int]
    BY DEF Result
  <2>6. TypeOK'
    <3>1. /\ miss' \in [Threads -> BOOLEAN]
          /\ ret' \in [Threads -> {NULL} \cup
                 [rc : {OK, ERR}, data : Values \cup {NULL} \cup Int]]
      <4> DEFINE R == [rc : {OK, ERR}, data : Values \cup {NULL} \cup Int]
      <4>1. miss \in [Threads -> BOOLEAN] /\ ret \in [Threads -> {NULL} \cup R]
        BY DEF IInv, TypeOK
      <4>2. miss' = miss \/ miss' = [miss EXCEPT ![t] = TRUE]
        BY <2>3
      <4>3. ret' = ret \/ ret' = [ret EXCEPT ![t] = Result(OK, NULL)]
        BY <2>3
      <4>4. miss' \in [Threads -> BOOLEAN]
        BY <4>1, <4>2, Zenon
      <4> HIDE DEF R
      <4>5. ret' \in [Threads -> {NULL} \cup R]
        BY <2>5, <4>1, <4>3 DEF R
      <4> QED
        BY <4>4, <4>5 DEF R
    <3>2. /\ DOMAIN pc' = Threads \cup {Worker} /\ pc'[t] \in {"tail", "check"}
          /\ \A q \in Threads \cup {Worker} : q # t => pc'[q] = pc[q]
      BY <2>3 DEF IInv, TypeOK
    <3> QED
      BY <2>1, <2>4, <3>1, <3>2, ThreadsAssumption, Zenon
      DEF IInv, TypeOK, ThreadPCs, WorkerPCs, Calls
  <2>7. RehashLocked'
    BY <2>1, <2>3, <2>4 DEF IInv, TypeOK, RehashLocked
  <2>8. TailResult'
    <3>1. CASE pc' = [pc EXCEPT ![t] = "tail"]
               /\ ret' = [ret EXCEPT ![t] = Result(OK, NULL)]
      BY <2>5, <3>1 DEF IInv, TypeOK, TailResult
    <3>2. CASE pc' = [pc EXCEPT ![t] = "check"] /\ UNCHANGED ret
      BY <3>2 DEF IInv, TypeOK, TailResult
    <3> QED
      BY <2>3, <3>1, <3>2
  <2>9. FreedEmpty'
    BY <2>2, <2>4 DEF FreedEmpty
  <2> QED
    BY <2>1, <2>6, <2>7, <2>8, <2>9 DEF IInv
<1> QED
  BY <1>1, <1>2

\* The unlocked end of an operation touches the value of the thread's own key.
LEMMA TailInv ==
    ASSUME IInv, NEW t \in Threads, Tail(t)
    PROVE  IInv'
<1> DEFINE c == call[t]
<1>1. DictOK(dict)' /\ UNCHANGED dict
  BY DEF IInv, Tail
<1>2. pc[t] = "tail" /\ c \in Calls(t)
      /\ ret[t] \in [rc : {OK, ERR}, data : Values \cup {NULL} \cup Int]
  BY DEF IInv, TypeOK, TailResult, Tail
<1>3. value' \in [Keys -> Values \cup {NULL}]
  BY <1>2, ThreadsAssumption, ValuesAssumption, Zenon DEF IInv, TypeOK, Tail, Calls
<1>4. ret' \in [Threads -> {NULL} \cup
                  [rc : {OK, ERR}, data : Values \cup {NULL} \cup Int]]
  <2>1. CASE ret[t].rc = OK /\ c.op \in {"lookup", "delete"}
    <3>1. value[c.key] \in Values \cup {NULL}
      BY <1>2, <2>1, ThreadsAssumption DEF IInv, TypeOK, Calls
    <3>2. ret' = [ret EXCEPT ![t] = [ret[t] EXCEPT !.data = value[c.key]]]
      BY <2>1 DEF Tail
    <3>3. [ret[t] EXCEPT !.data = value[c.key]]
            \in [rc : {OK, ERR}, data : Values \cup {NULL} \cup Int]
      BY <1>2, <3>1
    <3> QED
      BY <3>2, <3>3 DEF IInv, TypeOK
  <2>2. CASE ~(ret[t].rc = OK /\ c.op \in {"lookup", "delete"})
    BY <2>2 DEF IInv, TypeOK, Tail
  <2> QED
    BY <2>1, <2>2
<1>5. TypeOK'
  BY <1>1, <1>3, <1>4, ThreadsAssumption
  DEF IInv, TypeOK, Tail, Goto, ThreadPCs, WorkerPCs, Calls
<1>6. RehashLocked'
  BY <1>1 DEF IInv, TypeOK, Tail, Goto, RehashLocked
<1>7. TailResult'
  BY <1>2 DEF IInv, TypeOK, Tail, Goto, TailResult
<1>8. FreedEmpty'
  BY <1>1 DEF IInv, TypeOK, Tail, Goto, FreedEmpty, AllIdle
<1> QED
  BY <1>1, <1>5, <1>6, <1>7, <1>8 DEF IInv

\* dict_rehash returns: what remains true whatever its last iteration did.
LEMMA ReturnInv ==
    ASSUME IInv, NEW p \in Threads \cup {Worker}, Rehashing(p),
           NEW more \in BOOLEAN, RehashReturn(p, more),
           DictOK(dict'), more => dict'.rehashing,
           freeing = "no" \/ dict' = dict,
           UNCHANGED <<value, iterators, status, call, miss, ret, freeing>>
    PROVE  IInv'
<1>1. WorkerSteps * EmptyVisits \in Nat \ {0}
  BY StepsAssumption
<1>2. DictType(dict')
  BY DEF DictOK
<1>3. \/ /\ lock' = NoThread /\ num' = 0 /\ visits' = 0
         /\ pc' = [pc EXCEPT ![p] = IF p = Worker THEN "loop" ELSE "main"]
      \/ /\ lock' = p /\ num' = WorkerSteps /\ more /\ p = Worker
         /\ visits' = WorkerSteps * EmptyVisits
         /\ pc' = [pc EXCEPT ![p] = "rehash"]
  BY DEF RehashReturn, RehashEnter, Goto
<1>4. \A q \in Threads \cup {Worker} : q # p => pc[q] # "rehash"
  BY DEF IInv, RehashLocked, Rehashing
<1>5. TypeOK'
  <2>1. /\ lock' \in {NoThread, p} /\ num' \in Nat /\ visits' \in Nat
        /\ \E x \in {"loop", "main", "rehash"} :
             /\ pc' = [pc EXCEPT ![p] = x]
             /\ x = "loop" => p = Worker
             /\ x = "main" => p # Worker
    BY <1>1, <1>3, StepsAssumption
  <2>2. /\ DOMAIN pc' = DOMAIN pc /\ pc'[Worker] \in WorkerPCs
        /\ \A u \in Threads : pc'[u] \in ThreadPCs /\ SamePlace(u)
    BY <2>1, ThreadsAssumption
    DEF IInv, TypeOK, ThreadPCs, WorkerPCs, Rehashing, SamePlace
  <2>3. TypeOK /\ lock' \in Threads \cup {Worker, NoThread}
    BY <2>1 DEF IInv
  <2> QED
    BY <1>2, <2>1, <2>2, <2>3, TypeKept, Zenon
<1>6. RehashLocked'
  BY <1>1, <1>3, <1>4, Zenon DEF IInv, TypeOK, RehashLocked
<1>7. TailResult'
  BY <1>3, Zenon DEF IInv, TypeOK, TailResult
<1>8. FreedEmpty'
  BY <1>3, ThreadsAssumption
  DEF IInv, TypeOK, FreedEmpty, AllIdle, Rehashing
<1> QED
  BY <1>5, <1>6, <1>7, <1>8 DEF IInv

\* dict_rehash goes on: what remains true while the lock is kept.
LEMMA ContinueInv ==
    ASSUME IInv, NEW p \in Threads \cup {Worker}, Rehashing(p), freeing = "no",
           DictOK(dict'), dict'.rehashing, num' \in Nat, visits' \in Nat \ {0},
           UNCHANGED <<value, iterators, status, call, miss, ret, freeing, lock,
                       pc>>
    PROVE  IInv'
<1>1. TypeOK'
  BY Zenon DEF IInv, TypeOK, Calls, DictOK
<1>2. (RehashLocked /\ TailResult /\ FreedEmpty)'
  BY DEF IInv, RehashLocked, TailResult, FreedEmpty
<1> QED
  BY <1>1, <1>2 DEF IInv

\* Every iteration of dict_rehash preserves it, whichever thread runs it.
LEMMA RehashInv ==
    ASSUME IInv, NEW p \in Threads \cup {Worker}, RehashIteration(p)
    PROVE  IInv'
<1>1. Rehashing(p) /\ dict.rehashing /\ visits \in Nat \ {0} /\ num \in Nat
  BY Zenon DEF RehashIteration, RehashSkip, RehashMove, RehashExit, IInv, TypeOK,
         RehashLocked, Rehashing
<1>2. RehashLoops => freeing = "no"
  <2>1. dict.primary.length \in Nat /\ dict.rehash.length \in Nat
    BY LengthBound DEF IInv, DictOK
  <2> QED
    BY <2>1 DEF IInv, FreedEmpty, DictSize, RehashLoops
<1>3. CASE RehashSkip(p)
  <2>1. DictOK(dict') /\ dict'.rehashing
    BY <1>1, <1>3, SkipBucketPreserves DEF IInv, RehashSkip, RehashLoops
  <2>2. CASE visits = 1
    BY <1>1, <1>2, <1>3, <2>1, <2>2, ReturnInv, Zenon DEF RehashSkip
  <2>3. CASE visits # 1
    <3>1. /\ num' = num /\ visits' = visits - 1 /\ freeing = "no"
          /\ UNCHANGED <<value, iterators, status, call, miss, ret, freeing, lock, pc>>
      BY <1>2, <1>3, <2>3, Zenon DEF RehashSkip
    <3>2. num' \in Nat /\ visits' \in Nat \ {0}
      BY <1>1, <2>3, <3>1
    <3> QED
      BY <1>1, <2>1, <3>1, <3>2, ContinueInv, Zenon
  <2> QED
    BY <2>2, <2>3
<1>4. CASE RehashMove(p)
  <2>1. DictOK(dict')
    BY <1>1, <1>4, RehashBucketPreserves, Zenon DEF IInv, RehashMove, RehashLoops
  <2>2. CASE ~dict'.rehashing
    BY <1>1, <1>2, <1>4, <2>1, <2>2, ReturnInv, Zenon DEF RehashMove
  <2>3. CASE dict'.rehashing
    <3>1. /\ num > 0 /\ num' = num - 1 /\ visits' = visits /\ freeing = "no"
          /\ UNCHANGED <<value, iterators, status, call, miss, ret, freeing, lock, pc>>
      BY <1>2, <1>4, <2>3, Zenon DEF RehashMove, RehashLoops
    <3>2. num' \in Nat /\ visits' \in Nat \ {0}
      BY <1>1, <3>1
    <3> QED
      BY <1>1, <2>1, <2>3, <3>1, <3>2, ContinueInv, Zenon
  <2> QED
    BY <2>2, <2>3
<1>5. CASE RehashExit(p)
  BY <1>1, <1>5, ReturnInv, Zenon DEF RehashExit, IInv
<1> QED
  BY <1>3, <1>4, <1>5 DEF RehashIteration

\* The worker's loop.
LEMMA WorkerInv ==
    ASSUME IInv, WorkerLoop \/ WorkerWake
    PROVE  IInv'
<1>1. WorkerSteps * EmptyVisits \in Nat \ {0} /\ WorkerSteps \in Nat
  BY StepsAssumption
<1>2. UNCHANGED <<dict, value, iterators, status, call, miss, ret, freeing>>
  BY DEF WorkerLoop, WorkerWake
<1>3. \/ /\ UNCHANGED <<lock, num, visits>>
         /\ \E l \in {"waiting", "loop"} : pc' = [pc EXCEPT ![Worker] = l]
      \/ /\ lock' = Worker /\ UNCHANGED <<num, visits>>
         /\ pc' = [pc EXCEPT ![Worker] = "exited"]
      \/ /\ lock' = Worker /\ dict.rehashing /\ num' = WorkerSteps
         /\ visits' = WorkerSteps * EmptyVisits
         /\ pc' = [pc EXCEPT ![Worker] = "rehash"]
  BY DEF WorkerLoop, WorkerWake, WorkerBody, RehashEnter, Goto
<1>4. \A q \in Threads \cup {Worker} : pc[q] # "rehash"
  BY NobodyRehashes DEF WorkerLoop, WorkerWake
<1>5. /\ \A t \in Threads : pc'[t] = pc[t]
      /\ DOMAIN pc' = Threads \cup {Worker}
      /\ pc'[Worker] \in WorkerPCs
  BY <1>3, ThreadsAssumption DEF IInv, TypeOK, WorkerPCs
<1>6. /\ num' \in Nat /\ visits' \in Nat
      /\ lock' \in Threads \cup {Worker, NoThread}
  BY <1>1, <1>3 DEF IInv, TypeOK
<1>7. TypeOK'
  BY <1>2, <1>5, <1>6 DEF IInv, TypeOK, Calls
<1>8. RehashLocked'
  BY <1>1, <1>2, <1>3, <1>4, <1>5, Zenon DEF IInv, TypeOK, RehashLocked
<1>9. (TailResult /\ FreedEmpty)'
  BY <1>2, <1>5 DEF IInv, TailResult, FreedEmpty, AllIdle
<1>10. DictOK(dict)'
  BY <1>2 DEF IInv
<1> QED
  BY <1>7, <1>8, <1>9, <1>10 DEF IInv

\* Opening and freeing a safe iterator preserve it.
LEMMA IteratorInv ==
    ASSUME IInv, OpenIterator \/ CloseIterator
    PROVE  IInv'
<1>1. iterators' \in 0..MaxIterators
  BY StepsAssumption DEF IInv, TypeOK, OpenIterator, CloseIterator
<1>2. UNCHANGED <<dict, value, status, lock, pc, call, miss, ret, num, visits,
                  freeing>>
  BY DEF OpenIterator, CloseIterator
<1>3. TypeOK'
  BY <1>1, <1>2 DEF IInv, TypeOK, Calls
<1>4. (RehashLocked /\ TailResult /\ FreedEmpty)'
  BY <1>2, Zenon DEF IInv, RehashLocked, TailResult, FreedEmpty, AllIdle
<1> QED
  BY <1>2, <1>3, <1>4 DEF IInv

\* dict_clear preserves it: no thread is inside dict_rehash.
LEMMA ClearInv ==
    ASSUME IInv, DictClear
    PROVE  IInv'
<1>1. DictOK(dict')
  BY FreshOK DEF DictClear
<1>2. TypeOK'
  BY <1>1, Zenon DEF IInv, TypeOK, DictClear, DictOK, Calls
<1>3. RehashLocked'
  BY NobodyRehashes DEF RehashLocked, DictClear
<1>4. (TailResult /\ FreedEmpty)'
  BY Zenon DEF IInv, TailResult, FreedEmpty, DictClear
<1> QED
  BY <1>1, <1>2, <1>3, <1>4 DEF IInv

\* The steps of dict_free.
LEMMA FreeInv ==
    ASSUME IInv, FreeArrays \/ FreeStatus \/ FreeJoin
    PROVE  IInv'
<1>1. UNCHANGED <<dict, value, iterators, lock, call, miss, ret, num, visits>>
  BY DEF FreeArrays, FreeStatus, FreeJoin
<1>2. /\ \A t \in Threads : pc'[t] = pc[t]
      /\ DOMAIN pc' = Threads \cup {Worker}
      /\ pc'[Worker] \in {pc[Worker], "woken"}
  BY ThreadsAssumption
  DEF IInv, TypeOK, FreeArrays, FreeStatus, FreeJoin, Signalled
<1>3. status' \in {"none", "free"} /\ freeing' \in {"arrays", "join", "done"}
  BY DEF IInv, TypeOK, FreeArrays, FreeStatus, FreeJoin
<1>4. TypeOK'
  BY <1>1, <1>2, <1>3, Zenon DEF IInv, TypeOK, WorkerPCs, Calls
<1>5. (RehashLocked /\ TailResult)'
  BY <1>1, <1>2 DEF IInv, RehashLocked, TailResult
<1>6. AllIdle /\ DictSize(dict) = 0
  BY DEF IInv, FreedEmpty, FreeArrays, FreeStatus, FreeJoin
<1>7. FreedEmpty'
  BY <1>1, <1>2, <1>6 DEF FreedEmpty, AllIdle
<1>8. DictOK(dict)'
  BY <1>1 DEF IInv
<1> QED
  BY <1>4, <1>5, <1>7, <1>8 DEF IInv

\* Every step of dict.c preserves the invariant.
LEMMA NextInv == IInv /\ [Next]_vars => IInv'
<1> SUFFICES ASSUME IInv, [Next]_vars PROVE IInv'
  OBVIOUS
<1>1. ASSUME NEW t \in Threads, Call(t) \/ Operation(t) \/ Tail(t) PROVE IInv'
  BY <1>1, CallInv, CheckInv, AddInv, DeleteInv, ReadInv, UpdateInv, TailInv
  DEF Operation
<1>2. ASSUME NEW p \in Threads \cup {Worker}, RehashIteration(p) PROVE IInv'
  BY <1>2, RehashInv
<1>3. ASSUME WorkerLoop \/ WorkerWake \/ OpenIterator \/ CloseIterator
              \/ DictClear \/ FreeArrays \/ FreeStatus \/ FreeJoin
      PROVE  IInv'
  BY <1>3, WorkerInv, IteratorInv, ClearInv, FreeInv
<1>4. ASSUME UNCHANGED vars PROVE IInv'
  <2>1. TypeOK'
    BY <1>4, Zenon DEF IInv, TypeOK, vars, Calls
  <2>2. (RehashLocked /\ TailResult /\ FreedEmpty)'
    BY <1>4, Zenon DEF IInv, RehashLocked, TailResult, FreedEmpty, AllIdle, vars
  <2> QED
    BY <1>4, <2>1, <2>2 DEF IInv, vars
<1> QED
  BY <1>1, <1>2, <1>3, <1>4 DEF Next, Freed

\* The inductive invariant holds in every reachable state of the dictionary.
THEOREM DictInvariant == Spec => []IInv
BY InitInv, NextInv, PTL DEF Spec

\* The variables of dict.c keep their types, and table sizes stay powers of
\* two, for any number of threads, keys, values and iterators.
THEOREM DictTypeCorrect == Spec => []TypeOK
<1>1. IInv => TypeOK
  BY DEF IInv
<1> QED
  BY <1>1, DictInvariant, PTL

\* No entry is ever stranded by an expansion, a rehash step, an insertion, a
\* removal or dict_clear, in whatever order threads and worker run them.
THEOREM DictEntriesReachable == Spec => []EntriesReachable
<1>1. IInv => EntriesReachable
  <2> SUFFICES ASSUME IInv PROVE EntriesReachable
    OBVIOUS
  <2>1. DictOK(dict)
    BY DEF IInv
  <2>2. \A k \in Entries(dict.primary) \cup Entries(dict.rehash) : k \in Keys
    BY DEF Entries
  <2> QED
    BY <2>1, <2>2, PresentEntries, Zenon DEF EntriesReachable, DictOK
<1> QED
  BY <1>1, DictInvariant, PTL

\* dict_map::length is exact whenever the lock may change hands.
THEOREM DictLengthsExact == Spec => []LengthsExact
<1>1. IInv => LengthsExact
  BY DEF IInv, DictOK, LengthsExact
<1> QED
  BY <1>1, DictInvariant, PTL

\* The assertion of dict.c:404 holds and the scan for a bucket to move stays
\* inside the array.
THEOREM DictRehashInBounds == Spec => []RehashInBounds
<1>1. IInv => RehashInBounds
  <2> SUFFICES ASSUME IInv, dict.rehashing, dict.primary.length > 0
               PROVE  RehashInBounds
    BY DEF RehashInBounds
  <2>1. DictOK(dict) /\ dict.primary.size \in Nat
    BY Zenon DEF IInv, DictOK, DictType, MapType
  <2> QED
    BY <2>1, FrontInBounds DEF RehashInBounds
<1> QED
  BY <1>1, DictInvariant, PTL

\* The worker does not touch the arrays that dict_free has released.
THEOREM DictFreedUntouched == Spec => []FreedUntouched
<1>1. IInv => FreedUntouched
  <2> SUFFICES ASSUME IInv, freeing # "no" PROVE ~RehashLoops
    BY DEF FreedUntouched
  <2>1. dict.primary.length \in Nat /\ dict.rehash.length \in Nat
    BY LengthBound, Zenon DEF IInv, DictOK
  <2> QED
    BY <2>1 DEF IInv, FreedEmpty, DictSize, RehashLoops
<1> QED
  BY <1>1, DictInvariant, PTL
-----------------------------------------------------------------------------
(* The dictionary implements DictSpec.                                     *)

\* An entry that a search finds has its value, or the thread that links it is
\* about to write it.
Valued == \A k \in Keys : Present(dict, k) =>
    \/ value[k] \in Values
    \/ \E t \in Threads : Pending(t, {"add", "update"}) /\ call[t].key = k

\* After the lookup of raw_dict_update has missed, the key stays absent until
\* the thread itself adds it.
MissAbsent == \A t \in Threads : miss[t] =>
    /\ pc[t] # "idle" /\ call[t].op = "update"
    /\ pc[t] = "tail" \/ ~Present(dict, call[t].key)

\* An unlinked entry whose value is still to be read is no longer found.
DeletedGone == \A t \in Threads :
    Pending(t, {"delete"}) => ~Present(dict, call[t].key)

LinInv == IInv /\ Valued /\ MissAbsent /\ DeletedGone

\* A key is used by one thread: whoever runs an operation on it is its owner.
LEMMA OwnKey ==
    ASSUME IInv, NEW t \in Threads, pc[t] # "idle", call[t].op # "size"
    PROVE  /\ call[t].key \in Keys
           /\ Owner(call[t].key) = t
           /\ \A u \in Threads : pc[u] # "idle" /\ call[u].op # "size"
                                 /\ call[u].key = call[t].key => u = t
<1>1. \A u \in Threads : pc[u] # "idle" /\ call[u].op # "size"
                         => call[u].key \in KeysOf[u]
  BY DEF IInv, TypeOK, Calls
<1>2. \A u \in Threads : call[t].key \in KeysOf[u] => u = t
  BY <1>1, ThreadsAssumption
<1> QED
  BY <1>1, <1>2, ThreadsAssumption DEF Owner

\* The keys of the abstract mapping are the ones a search finds, and
\* dict_get_size counts them.
LEMMA SizeExact ==
    ASSUME LinInv
    PROVE  /\ \A k \in Keys : AbsStore[k] = NULL <=> ~Present(dict, k)
           /\ Cardinality(Abs!Domain(AbsStore)) = DictSize(dict)
<1>1. ASSUME NEW k \in Keys, Present(dict, k) PROVE AbsStore[k] # NULL
  <2>1. CASE \E t \in Threads :
                Pending(t, {"add", "update"}) /\ call[t].key = k
    <3>1. PICK t \in Threads :
                Pending(t, {"add", "update"}) /\ call[t].key = k
      BY <2>1
    <3>2. call[t].val \in Values /\ Owner(k) = t
      <4>1. IInv /\ pc[t] # "idle" /\ call[t].op \in {"add", "update"}
        BY <3>1 DEF LinInv, Pending
      <4> QED
        BY <3>1, <4>1, OwnKey, ValuesAssumption, Zenon DEF IInv, TypeOK, Calls
    <3> QED
      BY <1>1, <2>1, <3>2, ValuesAssumption DEF AbsStore
  <2>2. CASE ~\E t \in Threads :
                Pending(t, {"add", "update"}) /\ call[t].key = k
    BY <1>1, <2>2, ValuesAssumption DEF AbsStore, LinInv, Valued
  <2> QED
    BY <2>1, <2>2
<1>2. \A k \in Keys : ~Present(dict, k) => AbsStore[k] = NULL
  BY DEF AbsStore
<1>3. DictOK(dict)
  BY DEF LinInv, IInv
<1>4. Abs!Domain(AbsStore) = Entries(dict.primary) \cup Entries(dict.rehash)
  <2>1. \A k \in Keys : AbsStore[k] # NULL
            <=> k \in Entries(dict.primary) \cup Entries(dict.rehash)
    BY <1>1, <1>2, <1>3, PresentEntries
  <2>2. Entries(dict.primary) \cup Entries(dict.rehash) \subseteq Keys
    BY DEF Entries
  <2> QED
    BY <2>1, <2>2 DEF Abs!Domain
<1>5. Cardinality(Entries(dict.primary) \cup Entries(dict.rehash))
        = DictSize(dict)
  <2>1. IsFiniteSet(Entries(dict.primary)) /\ IsFiniteSet(Entries(dict.rehash))
        /\ dict.primary.length \in Nat /\ dict.rehash.length \in Nat
    BY <1>3, LengthBound DEF DictOK
  <2>2. Entries(dict.primary) \cap Entries(dict.rehash) = {}
    BY <1>3 DEF DictOK, Disjoint
  <2>3. Cardinality({}) = 0
    BY FS_EmptySet
  <2>4. Cardinality(Entries(dict.primary) \cup Entries(dict.rehash))
        = Cardinality(Entries(dict.primary)) + Cardinality(Entries(dict.rehash))
          - Cardinality(Entries(dict.primary) \cap Entries(dict.rehash))
    BY <2>1, FS_Union
  <2>5. /\ dict.primary.length = Cardinality(Entries(dict.primary))
        /\ dict.rehash.length = Cardinality(Entries(dict.rehash))
    BY <1>3 DEF DictOK, Counted
  <2>6. Cardinality(Entries(dict.primary) \cap Entries(dict.rehash)) = 0
    BY <2>2, <2>3
  <2> QED
    BY <2>1, <2>4, <2>5, <2>6 DEF DictSize
<1> QED
  BY <1>1, <1>2, <1>4, <1>5

\* A step that moves no client into or out of the end of its operation, and
\* neither links nor unlinks an entry, is invisible.
LEMMA QuietStep ==
    ASSUME LinInv, IInv',
           \A k \in Keys : Present(dict', k) <=> Present(dict, k),
           \A t \in Threads :
                \/ pc'[t] = pc[t]
                \/ {pc[t], pc'[t]} \cap {"idle", "tail"} = {},
           UNCHANGED <<value, call, ret, miss>>
    PROVE  LinInv' /\ UNCHANGED Abs!vars
<1>1. \A t \in Threads : /\ pc'[t] = "tail" <=> pc[t] = "tail"
                         /\ pc'[t] = "idle" <=> pc[t] = "idle"
  BY Zenon
<1>2. \A t \in Threads : \A ops : Pending(t, ops)' <=> Pending(t, ops)
  BY <1>1 DEF Pending
<1>3. Valued'
  BY <1>2 DEF LinInv, Valued
<1>4. \A t \in Threads : pc[t] # "idle" /\ call[t].op # "size"
                            => call[t].key \in Keys
  BY OwnKey DEF LinInv
<1>5. (MissAbsent /\ DeletedGone)'
  BY <1>1, <1>2, <1>4 DEF LinInv, MissAbsent, DeletedGone, Pending
<1>6. AbsStore' = AbsStore
  BY <1>2 DEF AbsStore
<1>7. AbsStage' = AbsStage /\ AbsRet' = AbsRet
  BY <1>1, <1>2 DEF AbsStage, AbsRet
<1> QED
  BY <1>3, <1>5, <1>6, <1>7 DEF LinInv, Abs!vars

\* The critical section in which an operation takes effect, seen from the
\* abstract mapping: stage and result of the thread change, and at most the
\* value of its key.
LEMMA EffectStep ==
    ASSUME LinInv, NEW t \in Threads, pc[t] = "main", NEW r,
           pc'[t] = "tail", \A u \in Threads \ {t} : pc'[u] = pc[u],
           ret' = [ret EXCEPT ![t] = r], UNCHANGED <<value, call>>,
           \A j \in Keys : j # call[t].key \/ call[t].op = "size"
                => (Present(dict', j) <=> Present(dict, j))
    PROVE  /\ AbsStage[t] = "called"
           /\ AbsStage' = [AbsStage EXCEPT ![t] = "done"]
           /\ AbsRet' = [AbsRet EXCEPT ![t] =
                  IF r.rc = OK /\ call[t].op \in {"lookup", "delete"}
                  THEN [r EXCEPT !.data = value[call[t].key]] ELSE r]
           /\ \A j \in Keys : j # call[t].key \/ call[t].op = "size"
                => AbsStore'[j] = AbsStore[j]
           /\ call[t].op # "size" =>
                AbsStore'[call[t].key] =
                  IF ~Present(dict', call[t].key) THEN NULL
                  ELSE IF r.rc = OK /\ call[t].op \in {"add", "update"}
                  THEN call[t].val ELSE value[call[t].key]
           /\ call[t].op # "size" /\ Present(dict, call[t].key) =>
                /\ AbsStore[call[t].key] = value[call[t].key]
                /\ value[call[t].key] \in Values
<1>0. IInv
  BY DEF LinInv
<1>1. /\ \A u \in Threads \ {t} : \A ops : Pending(u, ops)' <=> Pending(u, ops)
      /\ \A ops : ~Pending(t, ops)
      /\ \A ops : Pending(t, ops)' <=> r.rc = OK /\ call[t].op \in ops
  BY <1>0, Zenon DEF Pending, IInv, TypeOK
<1>2. AbsStage[t] = "called" /\ AbsStage' = [AbsStage EXCEPT ![t] = "done"]
  BY Zenon DEF AbsStage
<1>3. AbsRet' = [AbsRet EXCEPT ![t] =
                  IF r.rc = OK /\ call[t].op \in {"lookup", "delete"}
                  THEN [r EXCEPT !.data = value[call[t].key]] ELSE r]
  <2> DEFINE x == IF r.rc = OK /\ call[t].op \in {"lookup", "delete"}
                  THEN [r EXCEPT !.data = value[call[t].key]] ELSE r
  <2>1. ret'[t] = r /\ \A u \in Threads : u # t => ret'[u] = ret[u]
    BY <1>0, Zenon DEF IInv, TypeOK
  <2>2. AbsRet'[t] = x
    BY <1>1, <2>1 DEF AbsRet
  <2>3. \A u \in Threads : u # t => AbsRet'[u] = AbsRet[u]
    BY <1>1, <2>1 DEF AbsRet
  <2>4. /\ AbsRet = [u \in Threads |-> AbsRet[u]]
        /\ AbsRet' = [u \in Threads |-> AbsRet'[u]]
    BY DEF AbsRet
  <2> HIDE DEF x
  <2>5. AbsRet' = [AbsRet EXCEPT ![t] = x]
    BY <2>2, <2>3, <2>4
  <2> QED
    BY <2>5 DEF x
<1> DEFINE P(j) == \E u \in Threads :
                        Pending(u, {"add", "update"}) /\ call[u].key = j
           Q(j) == \E u \in Threads :
                        Pending(u, {"add", "update"})' /\ call[u].key = j
<1>4. \A j \in Keys : j # call[t].key \/ call[t].op = "size"
            => (P(j) <=> Q(j))
  BY <1>1, Zenon
<1>5. \A j \in Keys : j # call[t].key \/ call[t].op = "size"
                => AbsStore'[j] = AbsStore[j]
  BY <1>4, Zenon DEF AbsStore
<1>6. ASSUME call[t].op # "size"
      PROVE  /\ call[t].key \in Keys /\ ~P(call[t].key)
             /\ Q(call[t].key) <=> r.rc = OK /\ call[t].op \in {"add", "update"}
             /\ Owner(call[t].key) = t
  <2>1. /\ call[t].key \in Keys /\ Owner(call[t].key) = t
        /\ \A u \in Threads : pc[u] # "idle" /\ call[u].op # "size"
                              /\ call[u].key = call[t].key => u = t
    BY <1>0, <1>6, OwnKey, Zenon
  <2>2. \A u \in Threads : Pending(u, {"add", "update"})
            => pc[u] # "idle" /\ call[u].op # "size"
    BY DEF Pending
  <2> QED
    BY <1>1, <2>1, <2>2, Zenon
<1>7. ASSUME call[t].op # "size"
      PROVE  AbsStore'[call[t].key] =
                  IF ~Present(dict', call[t].key) THEN NULL
                  ELSE IF r.rc = OK /\ call[t].op \in {"add", "update"}
                  THEN call[t].val ELSE value[call[t].key]
  <2>1. CASE r.rc = OK /\ call[t].op \in {"add", "update"}
    <3>1. Q(call[t].key)
      BY <1>6, <1>7, <2>1
    <3> QED
      BY <1>6, <1>7, <2>1, <3>1, Zenon DEF AbsStore
  <2>2. CASE ~(r.rc = OK /\ call[t].op \in {"add", "update"})
    <3>1. ~Q(call[t].key)
      BY <1>6, <1>7, <2>2, Zenon
    <3> QED
      BY <1>6, <1>7, <2>2, <3>1, Zenon DEF AbsStore
  <2> QED
    BY <2>1, <2>2
<1>8. ASSUME call[t].op # "size", Present(dict, call[t].key)
      PROVE  /\ AbsStore[call[t].key] = value[call[t].key]
             /\ value[call[t].key] \in Values
  BY <1>6, <1>8, Zenon DEF AbsStore, LinInv, Valued
<1> QED
  BY <1>2, <1>3, <1>5, <1>7, <1>8

\* The same critical section keeps the invariant of the refinement: nobody
\* else works on the key.
LEMMA EffectInv ==
    ASSUME LinInv, IInv', NEW t \in Threads, pc[t] = "main", NEW r,
           pc'[t] = "tail", \A u \in Threads \ {t} : pc'[u] = pc[u],
           ret' = [ret EXCEPT ![t] = r], UNCHANGED <<value, call, miss>>,
           \A j \in Keys : j # call[t].key \/ call[t].op = "size"
                => (Present(dict', j) <=> Present(dict, j)),
           call[t].op # "size" /\ Present(dict', call[t].key) =>
                \/ Present(dict, call[t].key)
                \/ r.rc = OK /\ call[t].op \in {"add", "update"},
           call[t].op = "delete" => ~Present(dict', call[t].key)
    PROVE  LinInv'
<1>0. IInv
  BY Zenon DEF LinInv
<1>1. /\ \A u \in Threads \ {t} : \A ops : Pending(u, ops)' <=> Pending(u, ops)
      /\ \A ops : ~Pending(t, ops)
      /\ \A ops : Pending(t, ops)' <=> r.rc = OK /\ call[t].op \in ops
  BY <1>0, Zenon DEF Pending, IInv, TypeOK
<1>2. \A u \in Threads : u # t /\ pc[u] # "idle" /\ call[u].op # "size" =>
            /\ call[u].key \in Keys
            /\ call[t].op # "size" => call[u].key # call[t].key
  <2> SUFFICES ASSUME NEW u \in Threads, u # t, pc[u] # "idle",
                      call[u].op # "size"
               PROVE  /\ call[u].key \in Keys
                      /\ call[t].op # "size" => call[u].key # call[t].key
    OBVIOUS
  <2>1. call[u].key \in Keys
        /\ \A v \in Threads : pc[v] # "idle" /\ call[v].op # "size"
                              /\ call[v].key = call[u].key => v = u
    BY <1>0, OwnKey
  <2> QED
    BY <2>1, Zenon
<1>3. Valued'
  <2> SUFFICES ASSUME NEW j \in Keys, Present(dict', j)
               PROVE  \/ value[j] \in Values
                      \/ \E u \in Threads : /\ Pending(u, {"add", "update"})'
                                            /\ call[u].key = j
    BY Zenon DEF Valued
  <2>1. CASE j # call[t].key \/ call[t].op = "size"
    <3>1. Present(dict, j)
      BY <2>1, Zenon
    <3>2. CASE value[j] \in Values
      BY <3>2, Zenon
    <3>3. CASE \E u \in Threads : Pending(u, {"add", "update"})
                                  /\ call[u].key = j
      BY <1>1, <3>3, Zenon
    <3> QED
      BY <3>1, <3>2, <3>3, Zenon DEF LinInv, Valued
  <2>2. CASE j = call[t].key /\ call[t].op # "size"
    <3>1. CASE r.rc = OK /\ call[t].op \in {"add", "update"}
      BY <1>1, <2>2, <3>1, Zenon
    <3>2. CASE Present(dict, j)
      <4>1. \A u \in Threads : Pending(u, {"add", "update"})
                => pc[u] # "idle" /\ call[u].op # "size"
        BY DEF Pending
      <4>2. \A u \in Threads : Pending(u, {"add", "update"}) => call[u].key # j
        BY <1>1, <1>2, <2>2, <4>1, Zenon
      <4>3. \/ value[j] \in Values
            \/ \E u \in Threads : Pending(u, {"add", "update"})
                                  /\ call[u].key = j
        BY <3>2, Zenon DEF LinInv, Valued
      <4> QED
        BY <4>2, <4>3, Zenon
    <3> QED
      BY <2>2, <3>1, <3>2
  <2> QED
    BY <2>1, <2>2, Zenon
<1>4. MissAbsent'
  <2> SUFFICES ASSUME NEW u \in Threads, miss[u]
               PROVE  /\ pc'[u] # "idle" /\ call[u].op = "update"
                      /\ pc'[u] = "tail" \/ ~Present(dict', call[u].key)
    BY DEF MissAbsent
  <2>1. /\ pc[u] # "idle" /\ call[u].op = "update"
        /\ pc[u] = "tail" \/ ~Present(dict, call[u].key)
    BY DEF LinInv, MissAbsent
  <2>2. CASE u = t
    BY <2>1, <2>2
  <2>3. CASE u # t
    BY <1>2, <2>1, <2>3
  <2> QED
    BY <2>2, <2>3
<1>5. DeletedGone'
  <2> SUFFICES ASSUME NEW u \in Threads, Pending(u, {"delete"})'
               PROVE  ~Present(dict', call[u].key)
    BY DEF DeletedGone
  <2>1. CASE u = t
    BY <1>1, <2>1
  <2>2. CASE u # t
    <3>1. Pending(u, {"delete"})
      BY <1>1, <2>2
    <3>2. /\ pc[u] # "idle" /\ call[u].op # "size"
          /\ ~Present(dict, call[u].key)
      BY <3>1, Zenon DEF LinInv, DeletedGone, Pending
    <3> QED
      BY <1>2, <2>2, <3>2
  <2> QED
    BY <2>1, <2>2
<1> QED
  BY <1>3, <1>4, <1>5, Zenon DEF LinInv

\* What the operations on the tables do to the search.
LEMMA PresentAfter ==
    ASSUME NEW d, DictOK(d), NEW k \in Keys, NEW j \in Keys
    PROVE  /\ Present(AddKey(d, k), j) <=> Present(d, j) \/ j = k
           /\ Present(DeleteKey(d, k), j) <=> Present(d, j) /\ j # k
<1>1. /\ DictOK(AddKey(d, k)) /\ DictOK(DeleteKey(d, k))
      /\ Entries(AddKey(d, k).primary) \cup Entries(AddKey(d, k).rehash)
           = Entries(d.primary) \cup Entries(d.rehash) \cup {k}
      /\ Entries(DeleteKey(d, k).primary) \cup Entries(DeleteKey(d, k).rehash)
           = (Entries(d.primary) \cup Entries(d.rehash)) \ {k}
  BY AddKeyPreserves, DeleteKeyPreserves, Zenon
<1>2. /\ Present(d, j) <=> j \in Entries(d.primary) \cup Entries(d.rehash)
      /\ Present(AddKey(d, k), j) <=>
           j \in Entries(AddKey(d, k).primary) \cup Entries(AddKey(d, k).rehash)
      /\ Present(DeleteKey(d, k), j) <=>
           j \in Entries(DeleteKey(d, k).primary)
                   \cup Entries(DeleteKey(d, k).rehash)
  BY <1>1, PresentEntries, Zenon
<1> QED
  BY <1>1, <1>2, Zenon

\* The critical section of __dict_add performs dict_add, and dict_update
\* after a miss.
LEMMA InsertPerforms ==
    ASSUME LinInv, IInv', NEW t \in Threads, pc[t] = "main",
           call[t].op = "add" \/ (call[t].op = "update" /\ miss[t]),
           InsertEntry(t), UNCHANGED <<value, call, miss>>
    PROVE  LinInv' /\ Abs!Perform(t)
<1> DEFINE k == call[t].key
           r == Result(IF CanAdd(dict, k) THEN OK ELSE ERR, NULL)
<1>1. k \in Keys /\ IInv /\ DictOK(dict)
  BY OwnKey, Zenon DEF LinInv, IInv
<1>2. /\ pc'[t] = "tail" /\ \A u \in Threads \ {t} : pc'[u] = pc[u]
      /\ ret' = [ret EXCEPT ![t] = r] /\ dict' = AddKey(dict, k)
  BY <1>1, ThreadsAssumption, Zenon DEF InsertEntry, Signalled, IInv, TypeOK
<1>3. /\ CanAdd(dict, k) <=> ~Present(dict, k)
      /\ \A j \in Keys : Present(dict', j) <=> Present(dict, j) \/ j = k
  <2>1. CanAdd(dict, k) <=> ~Present(dict, k)
    BY <1>1, AddKeyPreserves, Zenon
  <2>2. \A j \in Keys : Present(AddKey(dict, k), j) <=> Present(dict, j) \/ j = k
    BY <1>1, PresentAfter, Zenon
  <2> QED
    BY <1>2, <2>1, <2>2, Zenon
<1>4. r.data = NULL /\ (r.rc = OK <=> ~Present(dict, k))
      /\ r = [rc |-> IF Present(dict, k) THEN "err" ELSE "ok", data |-> NULL]
  BY <1>3, Zenon DEF Result, OK, ERR
<1>5. call[t].op = "update" => ~Present(dict, k)
  BY DEF LinInv, MissAbsent
<1> HIDE DEF r
<1>6. LinInv'
  BY <1>1, <1>2, <1>3, <1>4, EffectInv, Zenon
<1>7. /\ AbsStage[t] = "called"
      /\ AbsStage' = [AbsStage EXCEPT ![t] = "done"]
      /\ AbsRet' = [AbsRet EXCEPT ![t] = r]
      /\ \A j \in Keys : j # k => AbsStore'[j] = AbsStore[j]
      /\ AbsStore'[k] = IF r.rc = OK THEN call[t].val ELSE value[k]
      /\ Present(dict, k) => AbsStore[k] = value[k]
  <2>1. \A j \in Keys : j # k => (Present(dict', j) <=> Present(dict, j))
    BY <1>3
  <2>2. call[t].op \in {"add", "update"} /\ Present(dict', k)
    BY <1>1, <1>3
  <2> QED
    BY <1>2, <2>1, <2>2, EffectStep, Zenon
<1>8. AbsStore[k] = NULL <=> ~Present(dict, k)
  BY <1>1, SizeExact
<1>9. /\ AbsStore = [j \in Keys |-> AbsStore[j]]
      /\ AbsStore' = [j \in Keys |-> AbsStore'[j]]
  BY DEF AbsStore
<1>10. r = Abs!Reply(call[t], AbsStore)
  BY <1>4, <1>5, <1>8 DEF Abs!Reply
<1>11. AbsStore' = Abs!Effect(call[t], AbsStore)
  <2>1. CASE Present(dict, k)
    <3>1. AbsStore' = AbsStore
      BY <1>4, <1>7, <1>9, <2>1
    <3> QED
      BY <1>5, <1>8, <2>1, <3>1 DEF Abs!Effect
  <2>2. CASE ~Present(dict, k)
    <3>1. AbsStore' = [AbsStore EXCEPT ![k] = call[t].val]
      BY <1>1, <1>4, <1>7, <1>9, <2>2
    <3> QED
      BY <1>8, <2>2, <3>1 DEF Abs!Effect
  <2> QED
    BY <2>1, <2>2
<1> QED
  BY <1>6, <1>7, <1>10, <1>11, Zenon DEF Abs!Perform

\* The lookup of raw_dict_update performs the update when it finds the key,
\* and is invisible when it does not.
LEMMA UpdatePerforms ==
    ASSUME LinInv, IInv', NEW t \in Threads, DictUpdate(t)
    PROVE  LinInv' /\ (Abs!Perform(t) \/ UNCHANGED Abs!vars)
<1> DEFINE k == call[t].key
           r == Result(OK, NULL)
<1>0. pc[t] = "main" /\ call[t].op = "update" /\ UNCHANGED <<value, call>>
  BY Zenon DEF DictUpdate, Main
<1>1. k \in Keys /\ IInv
  BY <1>0, OwnKey DEF LinInv
<1>2. CASE miss[t]
  BY <1>0, <1>2, InsertPerforms DEF DictUpdate
<1>3. CASE ~miss[t] /\ Present(dict, k)
  <2>1. /\ pc'[t] = "tail" /\ \A u \in Threads \ {t} : pc'[u] = pc[u]
        /\ ret' = [ret EXCEPT ![t] = r] /\ UNCHANGED <<dict, miss>>
    BY <1>1, <1>3, Zenon DEF DictUpdate, Goto, IInv, TypeOK
  <2>2. r.rc = OK /\ r = [rc |-> "ok", data |-> NULL]
    BY DEF Result, OK
  <2> HIDE DEF r
  <2>3. LinInv'
    BY <1>0, <2>1, <2>2, EffectInv, Zenon
  <2>4. /\ AbsStage[t] = "called"
        /\ AbsStage' = [AbsStage EXCEPT ![t] = "done"]
        /\ AbsRet' = [AbsRet EXCEPT ![t] = r]
        /\ \A j \in Keys : j # k => AbsStore'[j] = AbsStore[j]
        /\ AbsStore'[k] = call[t].val
    BY <1>0, <1>3, <2>1, <2>2, EffectStep, Zenon
  <2>5. /\ AbsStore = [j \in Keys |-> AbsStore[j]]
        /\ AbsStore' = [j \in Keys |-> AbsStore'[j]]
    BY DEF AbsStore
  <2>6. AbsStore' = [AbsStore EXCEPT ![k] = call[t].val]
    BY <1>1, <2>4, <2>5
  <2>7. r = Abs!Reply(call[t], AbsStore)
    BY <1>0, <2>2 DEF Abs!Reply
  <2>8. AbsStore' = Abs!Effect(call[t], AbsStore)
    BY <1>0, <2>6 DEF Abs!Effect
  <2> QED
    BY <1>0, <2>3, <2>4, <2>7, <2>8 DEF Abs!Perform
<1>4. CASE ~miss[t] /\ ~Present(dict, k)
  <2>1. /\ pc'[t] = "check" /\ \A u \in Threads \ {t} : pc'[u] = pc[u]
        /\ UNCHANGED <<dict, ret>>
        /\ \A u \in Threads \ {t} : miss'[u] = miss[u]
    BY <1>1, <1>4, Zenon DEF DictUpdate, Goto, IInv, TypeOK
  <2>2. \A u \in Threads : /\ pc'[u] = "tail" <=> pc[u] = "tail"
                           /\ pc'[u] = "idle" <=> pc[u] = "idle"
    BY <1>0, <2>1
  <2>3. \A u \in Threads : \A ops : Pending(u, ops)' <=> Pending(u, ops)
    BY <1>0, <2>1, <2>2 DEF Pending
  <2>4. Valued' /\ DeletedGone'
    BY <1>0, <2>1, <2>3, Zenon DEF LinInv, Valued, DeletedGone
  <2>5. MissAbsent'
    BY <1>0, <1>4, <2>1, <2>2, Zenon DEF LinInv, MissAbsent
  <2>6. UNCHANGED Abs!vars
    BY <1>0, <2>1, <2>2, <2>3 DEF Abs!vars, AbsStore, AbsStage, AbsRet
  <2> QED
    BY <2>4, <2>5, <2>6 DEF LinInv
<1> QED
  BY <1>2, <1>3, <1>4, Zenon

\* The critical sections of dict_delete and dict_lookup perform them; the
\* value they return is read after the unlock, and nobody writes it before.
LEMMA FindPerforms ==
    ASSUME LinInv, IInv', NEW t \in Threads, DictDelete(t) \/ DictLookup(t)
    PROVE  LinInv' /\ Abs!Perform(t)
<1> DEFINE k == call[t].key
           r == Result(IF Present(dict, k) THEN OK ELSE ERR, NULL)
<1>0. /\ pc[t] = "main" /\ call[t].op \in {"delete", "lookup"}
      /\ UNCHANGED <<value, call, miss>>
  BY DEF DictDelete, DictLookup, Main
<1>1. k \in Keys /\ IInv /\ DictOK(dict)
  BY <1>0, OwnKey DEF LinInv, IInv
<1>2. /\ pc'[t] = "tail" /\ \A u \in Threads \ {t} : pc'[u] = pc[u]
      /\ ret' = [ret EXCEPT ![t] = r]
      /\ dict' = IF call[t].op = "delete" THEN DeleteKey(dict, k) ELSE dict
  BY <1>1, Zenon DEF DictDelete, DictLookup, Goto, Main, IInv, TypeOK
<1>3. /\ \A j \in Keys : j # k => (Present(dict', j) <=> Present(dict, j))
      /\ Present(dict', k) <=> Present(dict, k) /\ call[t].op = "lookup"
  <2>1. \A j \in Keys : Present(DeleteKey(dict, k), j) <=> Present(dict, j) /\ j # k
    BY <1>1, PresentAfter
  <2> QED
    BY <1>0, <1>1, <1>2, <2>1, Zenon
<1>4. /\ r.rc = OK <=> Present(dict, k)
      /\ r = [rc |-> IF Present(dict, k) THEN "ok" ELSE "err", data |-> NULL]
  BY DEF Result, OK, ERR
<1> HIDE DEF r
<1>5. LinInv'
  BY <1>0, <1>2, <1>3, EffectInv, Zenon
<1>6. /\ AbsStage[t] = "called"
      /\ AbsStage' = [AbsStage EXCEPT ![t] = "done"]
      /\ AbsRet' = [AbsRet EXCEPT ![t] =
            IF Present(dict, k) THEN [r EXCEPT !.data = value[k]] ELSE r]
      /\ \A j \in Keys : j # k => AbsStore'[j] = AbsStore[j]
      /\ AbsStore'[k] = IF Present(dict', k) THEN value[k] ELSE NULL
      /\ Present(dict, k) => AbsStore[k] = value[k]
  <2>1. call[t].op # "size" /\ call[t].op \notin {"add", "update"}
    BY <1>0
  <2> QED
    BY <1>0, <1>2, <1>3, <1>4, <2>1, EffectStep, Zenon
<1>7. AbsStore[k] = NULL <=> ~Present(dict, k)
  BY <1>1, SizeExact, Zenon
<1>8. (IF Present(dict, k) THEN [r EXCEPT !.data = value[k]] ELSE r)
        = Abs!Reply(call[t], AbsStore)
  <2>1. Present(dict, k) => [r EXCEPT !.data = value[k]]
                              = [rc |-> "ok", data |-> AbsStore[k]]
    BY <1>4, <1>6
  <2> QED
    BY <1>0, <1>4, <1>7, <2>1 DEF Abs!Reply
<1>9. /\ AbsStore = [j \in Keys |-> AbsStore[j]]
      /\ AbsStore' = [j \in Keys |-> AbsStore'[j]]
  BY Zenon DEF AbsStore
<1>10. AbsStore' = Abs!Effect(call[t], AbsStore)
  <2>1. CASE call[t].op = "delete"
    <3>1. call[t].val = NULL
      BY <1>0, <1>1, <2>1, Zenon DEF IInv, TypeOK, Calls
    <3>2. AbsStore' = [AbsStore EXCEPT ![k] = NULL]
      BY <1>1, <1>3, <1>6, <1>9, <2>1
    <3> QED
      BY <2>1, <3>1, <3>2 DEF Abs!Effect
  <2>2. CASE call[t].op = "lookup"
    <3>1. AbsStore' = AbsStore
      BY <1>1, <1>3, <1>6, <1>7, <1>9, <2>2
    <3> QED
      BY <2>2, <3>1 DEF Abs!Effect
  <2> QED
    BY <1>0, <2>1, <2>2
<1> QED
  BY <1>0, <1>5, <1>6, <1>8, <1>10, Zenon DEF Abs!Perform

\* dict_get_size returns the number of keys of the mapping.
LEMMA SizePerforms ==
    ASSUME LinInv, IInv', NEW t \in Threads, DictGetSize(t)
    PROVE  LinInv' /\ Abs!Perform(t)
<1> DEFINE r == Result(OK, DictSize(dict))
<1>0. /\ pc[t] = "main" /\ call[t].op = "size"
      /\ UNCHANGED <<dict, value, call, miss>>
  BY Zenon DEF DictGetSize, Main
<1>1. /\ pc'[t] = "tail" /\ \A u \in Threads \ {t} : pc'[u] = pc[u]
      /\ ret' = [ret EXCEPT ![t] = r]
  BY Zenon DEF DictGetSize, Goto, LinInv, IInv, TypeOK
<1>2. r = [rc |-> "ok", data |-> Cardinality(Abs!Domain(AbsStore))]
  BY SizeExact DEF Result, OK
<1> HIDE DEF r
<1>3. LinInv'
  BY <1>0, <1>1, EffectInv, Zenon
<1>4. /\ AbsStage[t] = "called"
      /\ AbsStage' = [AbsStage EXCEPT ![t] = "done"]
      /\ AbsRet' = [AbsRet EXCEPT ![t] = r]
      /\ \A j \in Keys : AbsStore'[j] = AbsStore[j]
  BY <1>0, <1>1, EffectStep, Zenon
<1>5. AbsStore' = AbsStore
  <2>1. /\ AbsStore = [j \in Keys |-> AbsStore[j]]
        /\ AbsStore' = [j \in Keys |-> AbsStore'[j]]
    BY DEF AbsStore
  <2> QED
    BY <1>4, <2>1
<1>6. AbsStore' = Abs!Effect(call[t], AbsStore)
  BY <1>0, <1>5 DEF Abs!Effect
<1>7. r = Abs!Reply(call[t], AbsStore)
  <2>1. Abs!Reply(call[t], AbsStore)
          = [rc |-> "ok", data |-> Abs!Cardinality(Abs!Domain(AbsStore))]
    BY <1>0 DEF Abs!Reply
  <2>2. Abs!Cardinality(Abs!Domain(AbsStore))
          = Cardinality(Abs!Domain(AbsStore))
    BY Zenon DEF Abs!Cardinality, Cardinality
  <2> QED
    BY <1>2, <2>1, <2>2
<1> QED
  BY <1>0, <1>3, <1>4, <1>6, <1>7, Zenon DEF Abs!Perform

\* A call of an operation is the abstract call.
LEMMA CallInvokes ==
    ASSUME LinInv, IInv', NEW t \in Threads, Call(t)
    PROVE  LinInv' /\ Abs!Invoke(t)
<1>1. PICK c \in Calls(t) :
            /\ call' = [call EXCEPT ![t] = c]
            /\ pc' = [pc EXCEPT ![t] = IF c.op = "size" THEN "main" ELSE "check"]
  BY Zenon DEF Call, Goto
<1>2. /\ pc[t] = "idle" /\ UNCHANGED <<dict, value, miss>>
      /\ ret' = [ret EXCEPT ![t] = NULL]
  BY DEF Call
<1>3. /\ pc'[t] \in {"main", "check"} /\ \A u \in Threads \ {t} : pc'[u] = pc[u]
      /\ call'[t] = c /\ \A u \in Threads \ {t} : call'[u] = call[u]
      /\ ret'[t] = NULL /\ \A u \in Threads \ {t} : ret'[u] = ret[u]
  BY <1>1, <1>2, Zenon DEF LinInv, IInv, TypeOK
<1>4. \A ops : ~Pending(t, ops) /\ ~Pending(t, ops)'
  BY <1>2, <1>3, Zenon DEF Pending
<1>5. \A u \in Threads : \A ops : /\ Pending(u, ops)' <=> Pending(u, ops)
                                  /\ Pending(u, ops) => call'[u] = call[u]
  BY <1>3, <1>4, Zenon DEF Pending
<1>6. Valued' /\ DeletedGone'
  BY <1>2, <1>5, Zenon DEF LinInv, Valued, DeletedGone
<1>7. MissAbsent'
  BY <1>2, <1>3, Zenon DEF LinInv, MissAbsent
<1>8. AbsStore' = AbsStore
  <2>1. ASSUME NEW k \in Keys PROVE AbsStore'[k] = AbsStore[k]
    <3>1. CASE \E u \in Threads : Pending(u, {"add", "update"})
                                  /\ call[u].key = k
      <4>1. PICK v \in Threads : Pending(v, {"add", "update"}) /\ call[v].key = k
        BY <3>1
      <4>2. pc[v] # "idle" /\ call[v].op # "size" /\ IInv
        BY <4>1 DEF Pending, LinInv
      <4>3. Owner(k) = v
        BY <4>1, <4>2, OwnKey
      <4>4. \E u \in Threads : Pending(u, {"add", "update"})' /\ call'[u].key = k
        BY <1>5, <4>1
      <4>5. call'[v] = call[v]
        BY <1>5, <4>1
      <4>6. AbsStore[k] = IF ~Present(dict, k) THEN NULL ELSE call[v].val
        BY <3>1, <4>3 DEF AbsStore
      <4>7. AbsStore'[k] = IF ~Present(dict', k) THEN NULL ELSE call'[v].val
        BY <4>3, <4>4 DEF AbsStore
      <4> QED
        BY <1>2, <4>5, <4>6, <4>7
    <3>2. CASE ~\E u \in Threads : Pending(u, {"add", "update"})
                                   /\ call[u].key = k
      <4>1. ~\E v \in Threads : Pending(v, {"add", "update"})' /\ call'[v].key = k
        BY <1>5, <3>2
      <4> QED
        BY <1>2, <3>2, <4>1, Zenon DEF AbsStore
    <3> QED
      BY <3>1, <3>2
  <2>2. /\ AbsStore = [j \in Keys |-> AbsStore[j]]
        /\ AbsStore' = [j \in Keys |-> AbsStore'[j]]
    BY Zenon DEF AbsStore
  <2> QED
    BY <2>1, <2>2
<1>9. AbsStage[t] = "idle" /\ AbsStage' = [AbsStage EXCEPT ![t] = "called"]
  BY <1>2, <1>3, Zenon DEF AbsStage
<1>10. AbsRet' = [AbsRet EXCEPT ![t] = NULL]
  <2>1. AbsRet'[t] = NULL /\ \A u \in Threads : u # t => AbsRet'[u] = AbsRet[u]
    BY <1>2, <1>3, <1>4, <1>5 DEF AbsRet
  <2>2. /\ AbsRet = [u \in Threads |-> AbsRet[u]]
        /\ AbsRet' = [u \in Threads |-> AbsRet'[u]]
    BY DEF AbsRet
  <2> QED
    BY <2>1, <2>2
<1> QED
  BY <1>1, <1>6, <1>7, <1>8, <1>9, <1>10, Zenon DEF LinInv, Abs!Invoke

\* The unlocked end of an operation is its abstract return: the value written
\* is the one the mapping already has, the value read the one it had.
LEMMA TailReturns ==
    ASSUME LinInv, IInv', NEW t \in Threads, Tail(t)
    PROVE  LinInv' /\ Abs!Return(t)
<1> DEFINE k == call[t].key
           W == Pending(t, {"add", "update", "delete"})
<1>0. IInv /\ pc[t] = "tail" /\ UNCHANGED dict
  BY DEF LinInv, Tail
<1>1. /\ call[t] \in Calls(t) /\ ret[t] \in [rc : {OK, ERR},
                                     data : Values \cup {NULL} \cup Int]
      /\ call[t].op \in {"add", "update", "delete", "lookup", "size"}
      /\ call[t].op \in {"add", "update"} => call[t].val \in Values
  BY <1>0, ValuesAssumption, Zenon DEF IInv, TypeOK, TailResult, Calls
<1>2. /\ pc'[t] = "idle" /\ \A u \in Threads \ {t} : pc'[u] = pc[u]
      /\ call' = [call EXCEPT ![t] = NULL]
      /\ \A u \in Threads \ {t} : call'[u] = call[u]
      /\ ~miss'[t] /\ \A u \in Threads \ {t} : miss'[u] = miss[u]
      /\ ret'[t] = (IF Pending(t, {"lookup", "delete"})
                    THEN [ret[t] EXCEPT !.data = value[k]] ELSE ret[t])
      /\ \A u \in Threads \ {t} : ret'[u] = ret[u]
  BY <1>0 DEF Tail, Goto, Pending, IInv, TypeOK
<1>3. ~W => value' = value
  BY <1>0, <1>1 DEF Tail, Pending
<1>4. W => k \in Keys /\ value'[k] = call[t].val
           /\ \A j \in Keys : j # k => value'[j] = value[j]
  <2> SUFFICES ASSUME W
               PROVE  k \in Keys /\ value'[k] = call[t].val
                      /\ \A j \in Keys : j # k => value'[j] = value[j]
    BY Zenon
  <2>1. call[t].op # "size" /\ ret[t].rc = OK /\ call[t].op # "lookup"
    BY Zenon DEF Pending
  <2>2. k \in Keys
    BY <1>0, <2>1, OwnKey
  <2>3. value' = [value EXCEPT ![k] = call[t].val]
    BY <2>1 DEF Tail
  <2> QED
    BY <1>0, <2>2, <2>3, Zenon DEF IInv, TypeOK
<1>5. \A u \in Threads \ {t} : \A ops : Pending(u, ops)' <=> Pending(u, ops)
  BY <1>2 DEF Pending
<1>6. \A ops : ~Pending(t, ops)'
  BY <1>2 DEF Pending
<1>7. ASSUME NEW u \in Threads, u # t, W, pc[u] # "idle", call[u].op # "size"
      PROVE  call[u].key # k
  <2>1. call[t].op # "size"
    BY <1>7 DEF Pending
  <2> QED
    BY <1>0, <1>7, <2>1, OwnKey
<1>8. Pending(t, {"delete"}) => ~Present(dict, k)
  BY DEF LinInv, DeletedGone
<1>9. Valued'
  <2> SUFFICES ASSUME NEW j \in Keys, Present(dict, j)
               PROVE  \/ value'[j] \in Values
                      \/ \E u \in Threads : /\ Pending(u, {"add", "update"})'
                                            /\ call'[u].key = j
    BY <1>0 DEF Valued
  <2>1. CASE W /\ j = k
    <3>1. call[t].op \in {"add", "update"}
      BY <1>8, <2>1, Zenon DEF Pending
    <3> QED
      BY <1>1, <1>4, <2>1, <3>1, Zenon
  <2>2. CASE ~(W /\ j = k)
    <3>1. value'[j] = value[j]
      BY <1>3, <1>4, <2>2
    <3>2. CASE value[j] \in Values
      BY <3>1, <3>2, Zenon
    <3>3. CASE \E u \in Threads : Pending(u, {"add", "update"})
                                  /\ call[u].key = j
      <4>1. PICK u \in Threads : Pending(u, {"add", "update"}) /\ call[u].key = j
        BY <3>3
      <4>2. u # t
        BY <2>2, <4>1 DEF Pending
      <4> QED
        BY <1>2, <1>5, <4>1, <4>2
    <3> QED
      BY <3>2, <3>3 DEF LinInv, Valued
  <2> QED
    BY <2>1, <2>2
<1>10. MissAbsent'
  BY <1>0, <1>2 DEF LinInv, MissAbsent
<1>11. DeletedGone'
  <2> SUFFICES ASSUME NEW u \in Threads, Pending(u, {"delete"})'
               PROVE  ~Present(dict', call'[u].key)
    BY DEF DeletedGone
  <2>1. u # t
    BY <1>6
  <2> QED
    BY <1>0, <1>2, <1>5, <2>1 DEF LinInv, DeletedGone
<1>12. AbsStage[t] = "done" /\ AbsStage' = [AbsStage EXCEPT ![t] = "idle"]
  BY <1>0, <1>2, Zenon DEF AbsStage
<1>13. AbsRet' = AbsRet
  <2>1. AbsRet'[t] = AbsRet[t]
    BY <1>2, <1>6 DEF AbsRet
  <2>2. ASSUME NEW u \in Threads, u # t PROVE AbsRet'[u] = AbsRet[u]
    <3>1. CASE Pending(u, {"lookup", "delete"})
      <4>1. pc[u] # "idle" /\ call[u].op # "size"
        BY <3>1 DEF Pending
      <4>2. call[u].key \in Keys
        BY <1>0, <4>1, OwnKey
      <4>3. value'[call[u].key] = value[call[u].key]
        BY <1>3, <1>4, <1>7, <2>2, <4>1, <4>2
      <4> QED
        BY <1>2, <1>5, <2>2, <3>1, <4>3 DEF AbsRet
    <3>2. CASE ~Pending(u, {"lookup", "delete"})
      BY <1>2, <1>5, <2>2, <3>2 DEF AbsRet
    <3> QED
      BY <3>1, <3>2
  <2>3. /\ AbsRet = [u \in Threads |-> AbsRet[u]]
        /\ AbsRet' = [u \in Threads |-> AbsRet'[u]]
    BY DEF AbsRet
  <2> QED
    BY <2>1, <2>2, <2>3
<1>14. AbsStore' = AbsStore
  <2>1. ASSUME NEW j \in Keys PROVE AbsStore'[j] = AbsStore[j]
    <3>1. CASE ~Present(dict, j)
      BY <1>0, <3>1 DEF AbsStore
    <3>2. CASE Present(dict, j) /\ W /\ j = k
      <4>1. Pending(t, {"add", "update"})
        BY <1>8, <3>2 DEF Pending
      <4>2. Owner(j) = t
        <5>1. pc[t] # "idle" /\ call[t].op # "size"
          BY <4>1 DEF Pending
        <5> QED
          BY <1>0, <3>2, <5>1, OwnKey
      <4>3. \E u \in Threads : Pending(u, {"add", "update"}) /\ call[u].key = j
        BY <3>2, <4>1
      <4>4. AbsStore[j] = call[t].val
        BY <3>2, <4>2, <4>3 DEF AbsStore
      <4>5. ~\E u \in Threads : Pending(u, {"add", "update"})' /\ call'[u].key = j
        <5> SUFFICES ASSUME NEW u \in Threads, Pending(u, {"add", "update"})',
                            call'[u].key = j
                     PROVE  FALSE
          OBVIOUS
        <5>1. u # t
          BY <1>6
        <5>2. /\ Pending(u, {"add", "update"}) /\ call[u].key = k
          BY <1>2, <1>5, <3>2, <5>1
        <5>3. pc[u] # "idle" /\ call[u].op # "size"
          BY <5>2 DEF Pending
        <5> QED
          BY <1>7, <3>2, <5>1, <5>2, <5>3
      <4>6. AbsStore'[j] = value'[j]
        BY <1>0, <3>2, <4>5 DEF AbsStore
      <4> QED
        BY <1>4, <3>2, <4>4, <4>6
    <3>3. CASE Present(dict, j) /\ ~(W /\ j = k)
      <4>1. value'[j] = value[j]
        BY <1>3, <1>4, <3>3
      <4>2. CASE \E u \in Threads : Pending(u, {"add", "update"})
                                    /\ call[u].key = j
        <5>1. PICK u \in Threads : Pending(u, {"add", "update"})
                                   /\ call[u].key = j
          BY <4>2
        <5>2. u # t
          BY <3>3, <5>1 DEF Pending
        <5>3. Owner(j) = u
          <6>1. pc[u] # "idle" /\ call[u].op # "size"
            BY <5>1 DEF Pending
          <6> QED
            BY <1>0, <5>1, <6>1, OwnKey
        <5>4. AbsStore[j] = call[u].val
          BY <3>3, <4>2, <5>3 DEF AbsStore
        <5>5. \E v \in Threads : Pending(v, {"add", "update"})'
                                 /\ call'[v].key = j
          BY <1>2, <1>5, <5>1, <5>2
        <5>6. AbsStore'[j] = call'[u].val
          BY <1>0, <3>3, <5>3, <5>5, Zenon DEF AbsStore
        <5> QED
          BY <1>2, <5>2, <5>4, <5>6
      <4>3. CASE ~\E u \in Threads : Pending(u, {"add", "update"})
                                     /\ call[u].key = j
        <5>1. ~\E u \in Threads : Pending(u, {"add", "update"})'
                                  /\ call'[u].key = j
          BY <1>2, <1>5, <1>6, <4>3
        <5> QED
          BY <1>0, <3>3, <4>1, <4>3, <5>1 DEF AbsStore
      <4> QED
        BY <4>2, <4>3
    <3> QED
      BY <3>1, <3>2, <3>3
  <2>2. /\ AbsStore = [j \in Keys |-> AbsStore[j]]
        /\ AbsStore' = [j \in Keys |-> AbsStore'[j]]
    BY DEF AbsStore
  <2> QED
    BY <2>1, <2>2
<1> QED
  BY <1>2, <1>9, <1>10, <1>11, <1>12, <1>13, <1>14 DEF LinInv, Abs!Return

\* dict_clear empties the mapping.
LEMMA ClearClears ==
    ASSUME LinInv, IInv', DictClear
    PROVE  LinInv' /\ Abs!Clear
<1>1. /\ AllIdle /\ dict' = Cleared /\ UNCHANGED <<pc, call, miss, ret>>
  BY DEF DictClear
<1>2. \A k \in Keys : ~Present(dict', k)
  BY <1>1 DEF Cleared, NoMap, NewMap, Present, Contains
<1>3. Valued' /\ MissAbsent' /\ DeletedGone'
  BY <1>1, <1>2, Zenon DEF LinInv, Valued, MissAbsent, DeletedGone, AllIdle, Pending
<1>4. AbsStore' = [k \in Keys |-> NULL]
  BY <1>2 DEF AbsStore
<1>5. UNCHANGED <<AbsStage, AbsRet>> /\ \A t \in Threads : AbsStage[t] = "idle"
  BY <1>1 DEF AllIdle, AbsStage, AbsRet, Pending
<1> QED
  BY <1>1, <1>3, <1>4, <1>5 DEF LinInv, Abs!Clear

\* Rehash iterations, whoever runs them, are invisible.
LEMMA RehashQuiet ==
    ASSUME LinInv, IInv', NEW p \in Threads \cup {Worker}, RehashIteration(p)
    PROVE  LinInv' /\ UNCHANGED Abs!vars
<1>1. /\ DictOK(dict) /\ dict.rehashing /\ pc[p] = "rehash"
      /\ DOMAIN pc = Threads \cup {Worker}
      /\ UNCHANGED <<value, call, miss, ret>>
  BY Zenon DEF RehashIteration, RehashSkip, RehashMove, RehashExit, LinInv, IInv,
         TypeOK, RehashLocked, Rehashing
<1>2. \/ UNCHANGED pc
      \/ \E l \in {"rehash", "loop", "main"} : pc' = [pc EXCEPT ![p] = l]
  BY Zenon DEF RehashIteration, RehashSkip, RehashMove, RehashExit, RehashReturn,
         RehashEnter, Goto
<1>3. \A t \in Threads : \/ pc'[t] = pc[t]
                         \/ {pc[t], pc'[t]} \cap {"idle", "tail"} = {}
  BY <1>1, <1>2
<1>4. Entries(dict'.primary) \cup Entries(dict'.rehash)
        = Entries(dict.primary) \cup Entries(dict.rehash)
  <2>1. CASE RehashSkip(p)
    BY <1>1, <2>1, SkipBucketPreserves, Zenon DEF RehashSkip, RehashLoops
  <2>2. CASE RehashMove(p)
    BY <1>1, <2>2, RehashBucketPreserves, Zenon DEF RehashMove, RehashLoops
  <2>3. CASE RehashExit(p)
    BY <2>3 DEF RehashExit
  <2> QED
    BY <2>1, <2>2, <2>3, Zenon DEF RehashIteration
<1>5. DictOK(dict')
  BY DEF IInv
<1>6. \A k \in Keys : Present(dict', k) <=> Present(dict, k)
  BY <1>1, <1>4, <1>5, PresentEntries
<1> QED
  BY <1>1, <1>3, <1>6, QuietStep

\* So are the checks before a critical section, the loop of the worker, the
\* safe iterators and the steps of dict_free.
LEMMA OtherQuiet ==
    ASSUME LinInv, IInv',
           \/ \E t \in Threads :
                CheckRehashing(t) \/ CheckIterators(t) \/ RehashStep(t)
           \/ WorkerLoop \/ WorkerWake \/ OpenIterator \/ CloseIterator
           \/ FreeArrays \/ FreeStatus \/ FreeJoin \/ UNCHANGED vars
    PROVE  LinInv' /\ UNCHANGED Abs!vars
<1>0. DOMAIN pc = Threads \cup {Worker}
  BY Zenon DEF LinInv, IInv, TypeOK
<1>1. ASSUME NEW t \in Threads,
             CheckRehashing(t) \/ CheckIterators(t) \/ RehashStep(t)
      PROVE  LinInv' /\ UNCHANGED Abs!vars
  <2>1. /\ UNCHANGED <<dict, value, call, miss, ret>>
        /\ pc[t] \in {"check", "iters", "step"}
        /\ \E l \in {"iters", "main", "step", "rehash"} :
                pc' = [pc EXCEPT ![t] = l]
    BY <1>1 DEF CheckRehashing, CheckIterators, RehashStep, RehashEnter, Goto
  <2>2. \A u \in Threads : \/ pc'[u] = pc[u]
                           \/ {pc[u], pc'[u]} \cap {"idle", "tail"} = {}
    BY <1>0, <2>1
  <2> QED
    BY <2>1, <2>2, QuietStep
<1>2. ASSUME WorkerLoop \/ WorkerWake \/ OpenIterator \/ CloseIterator
             \/ FreeArrays \/ FreeStatus \/ FreeJoin \/ UNCHANGED vars
      PROVE  LinInv' /\ UNCHANGED Abs!vars
  <2>1. UNCHANGED <<dict, value, call, miss, ret>>
    BY <1>2, Zenon DEF WorkerLoop, WorkerWake, OpenIterator, CloseIterator,
                FreeArrays, FreeStatus, FreeJoin, vars
  <2>2. UNCHANGED pc \/ \E l : pc' = [pc EXCEPT ![Worker] = l]
    BY <1>2, Zenon DEF WorkerLoop, WorkerWake, WorkerBody, RehashEnter, Goto,
                OpenIterator, CloseIterator, FreeArrays, FreeStatus, Signalled,
                FreeJoin, vars
  <2>3. \A u \in Threads : pc'[u] = pc[u]
    BY <1>0, <2>2, ThreadsAssumption
  <2> QED
    BY <2>1, <2>3, QuietStep
<1> QED
  BY <1>1, <1>2

\* Every step of dict.c is a step of DictSpec or invisible to it.
LEMMA NextLin == LinInv /\ [Next]_vars => LinInv' /\ [Abs!Next]_(Abs!vars)
<1> SUFFICES ASSUME LinInv, [Next]_vars PROVE LinInv' /\ [Abs!Next]_(Abs!vars)
  OBVIOUS
<1>0. IInv'
  BY NextInv DEF LinInv
<1>1. ASSUME NEW t \in Threads, Call(t) \/ Operation(t) \/ Tail(t)
      PROVE  LinInv' /\ [Abs!Next]_(Abs!vars)
  <2>1. CASE Call(t)
    BY <1>0, <2>1, CallInvokes DEF Abs!Next
  <2>2. CASE DictAdd(t)
    BY <1>0, <2>2, InsertPerforms, Zenon DEF Abs!Next, DictAdd, Main
  <2>3. CASE DictUpdate(t)
    BY <1>0, <2>3, UpdatePerforms DEF Abs!Next
  <2>4. CASE DictDelete(t) \/ DictLookup(t)
    BY <1>0, <2>4, FindPerforms DEF Abs!Next
  <2>5. CASE DictGetSize(t)
    BY <1>0, <2>5, SizePerforms DEF Abs!Next
  <2>6. CASE Tail(t)
    BY <1>0, <2>6, TailReturns DEF Abs!Next
  <2>7. CASE CheckRehashing(t) \/ CheckIterators(t) \/ RehashStep(t)
    BY <1>0, <2>7, OtherQuiet
  <2> QED
    BY <1>1, <2>1, <2>2, <2>3, <2>4, <2>5, <2>6, <2>7 DEF Operation
<1>2. ASSUME NEW p \in Threads \cup {Worker}, RehashIteration(p)
      PROVE  LinInv' /\ [Abs!Next]_(Abs!vars)
  BY <1>0, <1>2, RehashQuiet
<1>3. CASE DictClear
  BY <1>0, <1>3, ClearClears DEF Abs!Next
<1>4. CASE WorkerLoop \/ WorkerWake \/ OpenIterator \/ CloseIterator
           \/ FreeArrays \/ FreeStatus \/ FreeJoin \/ Freed \/ UNCHANGED vars
  BY <1>0, <1>4, OtherQuiet DEF Freed
<1> QED
  BY <1>1, <1>2, <1>3, <1>4 DEF Next

\* Nothing is found in the dictionary that dict_init makes.
LEMMA EmptyAbsent ==
    ASSUME NEW k \in Keys
    PROVE  ~Present(EmptyDict, k)
<1>1. /\ EmptyDict.primary.size = DICT_MINIMAL_SIZE /\ ~EmptyDict.rehashing
      /\ EmptyDict.primary.array = [i \in 0..(DICT_MINIMAL_SIZE - 1) |-> {}]
  BY Zenon DEF EmptyDict, NewMap
<1>2. Slot(EmptyDict.primary, k) \in 0..(DICT_MINIMAL_SIZE - 1)
  BY <1>1, SlotRange, SizeAssumption
<1> QED
  BY <1>1, <1>2 DEF Present, Contains

\* dict.c implements the atomic mapping of DictSpec for any number of threads,
\* keys and values, whatever the rehash worker, expansions, iterators and
\* dict_clear do: every operation takes effect once, between call and return.
THEOREM DictLinearizable == Spec => Linearizable
<1>1. Init => LinInv
  <2> SUFFICES ASSUME Init PROVE LinInv
    OBVIOUS
  <2>1. \A k \in Keys : ~Present(dict, k)
    BY EmptyAbsent DEF Init
  <2> QED
    BY <2>1, InitInv, ThreadsAssumption
    DEF Init, LinInv, Valued, MissAbsent, DeletedGone, Pending
<1>2. Init => Abs!Init
  <2> SUFFICES ASSUME Init PROVE Abs!Init
    OBVIOUS
  <2>1. \A k \in Keys : ~Present(dict, k)
    BY EmptyAbsent DEF Init
  <2>2. \A t \in Threads : pc[t] = "idle"
    BY ThreadsAssumption DEF Init
  <2> QED
    BY <2>1, <2>2 DEF Init, Abs!Init, AbsStore, AbsStage, AbsRet, Pending
<1> QED
  BY <1>1, <1>2, NextLin, PTL DEF Spec, Linearizable, Abs!Spec
=============================================================================
