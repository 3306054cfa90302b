------------------------------ MODULE Skiplist ------------------------------
(***************************************************************************)
(* The skiplist of libxfiredbengine/storage/skiplist.c below the set and   *)
(* the hashmap (set.c, hashmap.c) as the server uses them through          *)
(* ext/xfiredb-serv.  Nodes are ordered by the hash of their key; the      *)
(* header closes the ring on every level and has the largest hash.         *)
(*                                                                         *)
(* Every call of the extension holds the interpreter lock and is one step. *)
(* Only `each' gives it up, between two nodes, when its block runs: other  *)
(* threads then change the list under the iterator.                        *)
(*                                                                         *)
(* A node is named by its key: the callers search before they insert, so a *)
(* key has one node at most.                                               *)
(***************************************************************************)
EXTENDS Integers, Sequences, FiniteSets, FiniteSetsExt

CONSTANTS Keys,
          Hash,       \* the hash of every key
          MaxHash,    \* SKIPLIST_MAX_SIZE, the hash of the header
          MaxLevels,  \* SKIPLIST_MAX_LEVELS
          MaxNum,     \* bound on the counter of the set
          Header,     \* the header node
          NoNode,     \* a null pointer
          Freed,      \* a pointer to a node that was freed
          NoAnswer

ASSUME SkiplistAssumption ==
    /\ Hash \in [Keys -> 0..MaxHash]
    /\ MaxLevels \in Nat \ {0}
    /\ Header \notin Keys /\ NoNode \notin Keys /\ Freed \notin Keys

VARIABLES kind,       \* "set" or "hashmap"
          list,       \* struct skiplist: forward, level and size
          num,        \* set::num or hashmap::num
          cleared,    \* a clear has removed nodes
          it,         \* the iterators of `each': none or one
          answer,     \* the last operation and what it returned
          crashed     \* the process has died of a null pointer

vars == <<kind, list, num, cleared, it, answer, crashed>>

Nodes == Keys \cup {Header}

Levels == 1..MaxLevels

\* skiplist_hash_key, by its value
HashOf(n) == IF n = Header THEN MaxHash ELSE Hash[n]

\* raw_skiplist_init
EmptyList ==
    [forward |-> [n \in Nodes |-> IF n = Header THEN [i \in Levels |-> Header]
                                                ELSE <<>>],
     level |-> 1,
     size |-> 0]

\* The keys with a node in the list.
Members == {k \in Keys : list.forward[k] # <<>>}
-----------------------------------------------------------------------------
(* The operations of skiplist.c on a list l.                               *)

\* The last node on level i, from n on, with a hash below h.
RECURSIVE Below(_, _, _, _)
Below(l, h, i, n) ==
    IF HashOf(l.forward[n][i]) < h THEN Below(l, h, i, l.forward[n][i]) ELSE n

\* The nodes where a descent for hash h from n on level i leaves the levels,
\* the lowest level first.
RECURSIVE Descent(_, _, _, _)
Descent(l, h, i, n) ==
    LET last == Below(l, h, i, n)
    IN  IF i = 1 THEN <<last>> ELSE Append(Descent(l, h, i - 1, last), last)

Path(l, h) == Descent(l, h, l.level, Header)

\* The first node with this key, from n on along the lowest level.  The header
\* has no key: a search that gets there compares with a null pointer.
RECURSIVE KeyFrom(_, _, _)
KeyFrom(l, k, n) == IF n \in {k, Header} THEN n ELSE KeyFrom(l, k, l.forward[n][1])

\* Mutant: the descent ends above the lowest level.
SearchUpper(l, k) ==
    LET p == Path(l, Hash[k])
        first == l.forward[p[IF l.level > 1 THEN 2 ELSE 1]][1]
    IN  IF HashOf(first) = Hash[k] THEN KeyFrom(l, k, first) ELSE NoNode

\* Header stands for the crash, NoNode for a key that is not found.
skiplist_search(l, k) ==
    LET first == l.forward[Path(l, Hash[k])[1]][1]
    IN  IF HashOf(first) = Hash[k] THEN KeyFrom(l, k, first) ELSE NoNode

\* A new node of the given height; skiplist_rand_level chooses it.
skiplist_insert(l, k, height) ==
    LET path == Path(l, Hash[k])
        update == [i \in 1..height |-> IF i <= l.level THEN path[i] ELSE Header]
        Linked(n) == [i \in DOMAIN l.forward[n] |->
                        IF i <= height /\ update[i] = n THEN k
                                                        ELSE l.forward[n][i]]
    IN  IF l.forward[path[1]][1] = k
        THEN l
        ELSE [forward |-> [n \in Nodes |->
                IF n = k THEN [i \in 1..height |-> l.forward[update[i]][i]]
                         ELSE Linked(n)],
              level |-> Max({l.level, height}),
              size |-> l.size + 1]

\* Like Below, but past the nodes with hash h as well, up to the key itself.
RECURSIVE UpTo(_, _, _, _)
UpTo(l, k, i, n) ==
    IF HashOf(l.forward[n][i]) <= Hash[k] /\ l.forward[n][i] # k
    THEN UpTo(l, k, i, l.forward[n][i])
    ELSE n

RECURSIVE DeleteDescent(_, _, _, _)
DeleteDescent(l, k, i, n) ==
    LET last == UpTo(l, k, i, n)
    IN  IF i = 1 THEN <<last>> ELSE Append(DeleteDescent(l, k, i - 1, last), last)

DeletePath(l, k) == DeleteDescent(l, k, l.level, Header)

\* Mutant: the node stays linked on its highest level.
UnlinkedOnLower(l, k, path) ==
    {i \in 1..l.level : /\ \A j \in 1..i : l.forward[path[j]][j] = k
                        /\ i = 1 \/ i < Len(l.forward[k])}

\* The levels on which the node of k is unlinked: from the lowest one up to the
\* first where the node is not next on the path.
UnlinkedOn(l, k, path) ==
    {i \in 1..l.level : \A j \in 1..i : l.forward[path[j]][j] = k}

\* Mutant: an emptied list has no level.
LevelAfterLast(forward, level) ==
    Max({0} \cup {i \in 1..level : forward[Header][i] # Header})

\* The empty levels at the top are given up, the lowest one never.
LevelAfter(forward, level) ==
    Max({1} \cup {i \in 1..level : forward[Header][i] # Header})

\* Mutant: skiplist::size is not decremented.
DeleteKeepsSize(l, k) ==
    LET path == DeletePath(l, k)
        out == UnlinkedOn(l, k, path)
        forward == [n \in Nodes |->
            IF n = k THEN <<>>
            ELSE [i \in DOMAIN l.forward[n] |->
                    IF i \in out /\ path[i] = n THEN l.forward[k][i]
                                                ELSE l.forward[n][i]]]
    IN  IF l.forward[path[1]][1] = k
        THEN [l EXCEPT !.forward = forward, !.level = LevelAfter(forward, @)]
        ELSE l

\* Unlinks and destroys the node of k; without one the list stays as it is.
skiplist_delete(l, k) ==
    LET path == DeletePath(l, k)
        out == UnlinkedOn(l, k, path)
        forward == [n \in Nodes |->
            IF n = k THEN <<>>
            ELSE [i \in DOMAIN l.forward[n] |->
                    IF i \in out /\ path[i] = n THEN l.forward[k][i]
                                                ELSE l.forward[n][i]]]
    IN  IF l.forward[path[1]][1] = k
        THEN [forward |-> forward,
              level |-> LevelAfter(forward, l.level),
              size |-> l.size - 1]
        ELSE l

\* The loop of set_clear and rb_hashmap_remove: skiplist_iterator_delete puts
\* the iterator back to the node before, so each turn deletes the first node.
RECURSIVE Emptied(_)
Emptied(l) ==
    IF l.forward[Header][1] = Header THEN l
    ELSE Emptied(skiplist_delete(l, l.forward[Header][1]))
-----------------------------------------------------------------------------
(* The set and the hashmap.                                                *)

Init ==
    /\ kind \in {"set", "hashmap"}
    /\ list = EmptyList
    /\ num = 0
    /\ cleared = FALSE
    /\ it = {}
    /\ answer = NoAnswer
    /\ crashed = FALSE

Alive == ~crashed

Answered(op, k, ok) == answer' = [op |-> op, key |-> k, ok |-> ok]

Crash ==
    /\ crashed' = TRUE
    /\ it' = {}
    /\ UNCHANGED <<kind, list, num, cleared, answer>>

\* An open iterator that stands on one of the nodes points to freed memory.
FreeUnder(removed) ==
    it' = {[i EXCEPT !.current = IF @ \in removed THEN Freed ELSE @,
                     !.torn = @ \/ i.current \in removed,
                     !.stay = @ \ removed] : i \in it}

\* A node that was searched for and not found is inserted.
Insert(k) ==
    /\ num < MaxNum
    /\ \E height \in Levels : list' = skiplist_insert(list, k, height)
    /\ num' = num + 1
    /\ Answered("add", k, TRUE)
    /\ UNCHANGED <<kind, cleared, it, crashed>>

Keep(op, k, ok) ==
    /\ Answered(op, k, ok)
    /\ UNCHANGED <<kind, list, num, cleared, it, crashed>>

\* rb_set_add: set_add finds out whether the set contains the key.
set_add(k) ==
    /\ Alive /\ kind = "set"
    /\ LET found == skiplist_search(list, k)
       IN  \/ found = Header /\ Crash
           \/ found = k /\ Keep("add", k, FALSE)
           \/ found = NoNode /\ Insert(k)

\* rb_hashmap_store: a key that is found gets a new value in its node.
hashmap_store(k) ==
    /\ Alive /\ kind = "hashmap"
    /\ LET found == skiplist_search(list, k)
       IN  \/ found = Header /\ Crash
           \/ found = k /\ Keep("add", k, FALSE)
           \/ found = NoNode /\ Insert(k)

\* Mutant: the counter goes down whatever skiplist_delete returns.
DeleteCounts(k) ==
    LET after == skiplist_delete(list, k)
        ok == after # list
    IN  /\ list' = after
        /\ num' = num - 1
        /\ Answered("remove", k, ok)
        /\ FreeUnder(IF ok THEN {k} ELSE {})
        /\ UNCHANGED <<kind, cleared, crashed>>

\* The caller frees the node if skiplist_delete has found and unlinked it.
Delete(k) ==
    LET after == skiplist_delete(list, k)
        ok == after # list
    IN  /\ list' = after
        /\ num' = IF ok THEN num - 1 ELSE num
        /\ Answered("remove", k, ok)
        /\ FreeUnder(IF ok THEN {k} ELSE {})
        /\ UNCHANGED <<kind, cleared, crashed>>

\* rb_set_remove_key: the node is searched for, then deleted by its key.
set_remove(k) ==
    /\ Alive /\ kind = "set"
    /\ IF skiplist_search(list, k) = Header THEN Crash ELSE Delete(k)

\* rb_hashmap_delete
hashmap_remove(k) ==
    /\ Alive /\ kind = "hashmap"
    /\ IF skiplist_search(list, k) = Header THEN Crash ELSE Delete(k)

\* rb_set_include
set_contains(k) ==
    /\ Alive /\ kind = "set"
    /\ IF skiplist_search(list, k) = Header THEN Crash
       ELSE Keep("contains", k, skiplist_search(list, k) = k)

\* rb_hashmap_ref
hashmap_find(k) ==
    /\ Alive /\ kind = "hashmap"
    /\ IF skiplist_search(list, k) = Header THEN Crash
       ELSE Keep("contains", k, skiplist_search(list, k) = k)

\* The nodes go, the counter keeps its value.
ClearNodes ==
    /\ list' = Emptied(list)
    /\ cleared' = (cleared \/ Members # {})
    /\ FreeUnder(Members)
    /\ UNCHANGED <<kind, num, answer, crashed>>

\* rb_set_clear
set_clear == Alive /\ kind = "set" /\ ClearNodes

\* rb_hashmap_clear
hashmap_clear == Alive /\ kind = "hashmap" /\ ClearNodes
-----------------------------------------------------------------------------
(* rb_set_each and rb_hashmap_each.                                        *)

\* Mutant: the iterator follows the highest level of its node.
IteratorNextSkips(n) ==
    LET next == list.forward[n][Len(list.forward[n])]
    IN  IF next = Header THEN NoNode ELSE next

\* The node after n, or a null pointer at the end.
skiplist_iterator_next(n) ==
    LET next == list.forward[n][1]
    IN  IF next = Header THEN NoNode ELSE next

\* The iterator moves from n to the next node, and the block gets its key.
\* stay: the keys in the list ever since the start; seen: the keys handed out.
StepFrom(n, seen, stay) ==
    LET next == skiplist_iterator_next(n)
    IN  [current |-> next,
         seen |-> IF next = NoNode THEN seen ELSE Append(seen, next),
         stay |-> stay,
         torn |-> FALSE]

OnlyIt == UNCHANGED <<kind, list, num, cleared, answer>>

each_start ==
    /\ Alive /\ it = {}
    /\ it' = {StepFrom(Header, <<>>, Members)}
    /\ OnlyIt /\ UNCHANGED crashed

each_next ==
    /\ Alive
    /\ \E i \in it :
        /\ i.current \in Keys
        /\ it' = {IF i.torn
                  THEN [i EXCEPT !.current = skiplist_iterator_next(@)]
                  ELSE StepFrom(i.current, i.seen, i.stay)}
    /\ OnlyIt /\ UNCHANGED crashed

\* The iterator follows a pointer of a freed node: the destroyed node holds a
\* null pointer, but its memory may be a new node's by now.
each_freed ==
    /\ Alive
    /\ \E i \in it :
        /\ i.current = Freed
        /\ \/ crashed' = TRUE /\ it' = {}
           \/ /\ \E n \in Members \cup {NoNode} :
                    it' = {[i EXCEPT !.current = n, !.seen = <<>>]}
              /\ UNCHANGED crashed
    /\ OnlyIt

\* The iterator is at its end, or the block leaves the loop.
each_end ==
    /\ Alive /\ it # {}
    /\ it' = {}
    /\ OnlyIt /\ UNCHANGED crashed

\* Nothing happens any more.
Dead == crashed /\ UNCHANGED vars

Next ==
    \/ \E k \in Keys : \/ set_add(k) \/ set_remove(k) \/ set_contains(k)
                       \/ hashmap_store(k) \/ hashmap_remove(k) \/ hashmap_find(k)
    \/ set_clear \/ hashmap_clear
    \/ each_start \/ each_next \/ each_freed \/ each_end
    \/ Dead

Spec == Init /\ [][Next]_vars
-----------------------------------------------------------------------------
(* Properties.                                                             *)

\* The type invariant of the list, the counter and the iterator.
TypeOK ==
    /\ kind \in {"set", "hashmap"}
    /\ \A n \in Nodes : /\ Len(list.forward[n]) <= MaxLevels
                        /\ \A i \in 1..Len(list.forward[n]) :
                                list.forward[n][i] \in Nodes
    /\ list.level \in Levels
    /\ list.size \in Nat
    /\ num \in 0..MaxNum
    /\ cleared \in BOOLEAN
    /\ \A i \in it : i.current \in Keys \cup {NoNode, Freed}
    /\ answer \in {NoAnswer} \cup [op : {"add", "remove", "contains"},
                                   key : Keys, ok : BOOLEAN]
    /\ crashed \in BOOLEAN

\* Every level of skiplist::forward links exactly the nodes that reach up to it,
\* in the order of their hashes and back to the header; skiplist::level is the
\* height of the highest node; and two keys with one hash are never both in the
\* list, on which the descents of skiplist_insert and skiplist_delete depend.
Layered ==
    LET OnLevel(i) == {k \in Members : Len(list.forward[k]) >= i}
        After(n, i) == {m \in OnLevel(i) : n = Header \/ Hash[m] > Hash[n]}
    IN  /\ \A i \in Levels : \A n \in OnLevel(i) \cup {Header} :
            IF After(n, i) = {} THEN list.forward[n][i] = Header
            ELSE /\ list.forward[n][i] \in After(n, i)
                 /\ \A m \in After(n, i) : Hash[list.forward[n][i]] <= Hash[m]
        /\ list.level = Max({1} \cup {Len(list.forward[k]) : k \in Members})
        /\ \A j, k \in Members : Hash[j] = Hash[k] => j = k

\* skiplist::size counts the nodes through every insert, delete and clear;
\* set::num and hashmap::num, the sizes that clients ask for, do so until a
\* set_clear or rb_hashmap_clear drops nodes without counting them.
SizesExact ==
    /\ list.size = Cardinality(Members)
    /\ cleared \/ num = Cardinality(Members)

\* `each' hands out no key twice and, up to the place where it stands, every key
\* that was in the list all the time, whatever other threads add, remove and add
\* again while its block runs, unless the node it stands on is freed.
IterationExact ==
    \A i \in it : ~i.torn =>
        /\ \A a, b \in DOMAIN i.seen : i.seen[a] = i.seen[b] => a = b
        /\ \A k \in i.stay :
            \/ i.current # NoNode /\ Hash[k] > Hash[i.current]
            \/ \E a \in DOMAIN i.seen : i.seen[a] = k

Abstract == INSTANCE SetSpec WITH members <- Members

\* Sets and hashmaps answer every add, remove and lookup like a plain set of
\* keys, for every height skiplist_rand_level may draw.  A process that dies in
\* skiplist_search answers nothing.
ImplementsSet == Abstract!Spec
=============================================================================
