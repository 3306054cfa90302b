-------------------------------- MODULE CApi --------------------------------
(***************************************************************************)
(* The storage engine without a server: the calls of                       *)
(* libxfiredbengine/xfiredb.c that a C program (the engine's tests) makes  *)
(* between xfiredb_init and xfiredb_exit.  Database, queue and disk are    *)
(* those of Store; whatever load_state says, every call queues its changes *)
(* itself.                                                                 *)
(***************************************************************************)
EXTENDS Store

VARIABLES api,  \* the program: "ruby", a server, or "c"
          gap   \* what is wrong with a key:
                \*   "entries"  its list has entries that were not queued
                \*   "stale"    rows of it may be left that should be deleted
                \*   "freed"    the database still has a container freed

capi == <<api, gap>>

NoGap == [k \in Keys |-> "none"]

\* The file of a C program may hold the rows of a set, from another test.
CInit ==
    /\ api \in {"ruby", "c"}
    /\ mode = "stopped" /\ load_state = FALSE
    /\ db = [k \in Keys |-> NoData]
    /\ keys = {} /\ toload = <<>> /\ queue = <<>>
    /\ \/ disk = <<>>
       \/ /\ api = "c"
          /\ \E k \in Keys, s \in SubKeys : disk = <<Row(k, s, "set", Null)>>
    /\ contents = Loaded(disk)
    /\ gap = NoGap
-----------------------------------------------------------------------------
(* Calls.                                                                  *)

\* A call on a container that was freed is refused, for its type is gone, or
\* kills the program; what calls make of stale rows is not followed.
Call(k) ==
    /\ mode = "open" /\ Len(queue) <= MaxQueue
    /\ gap[k] \notin {"stale", "freed"}
    /\ UNCHANGED <<mode, load_state, keys, toload, disk, api>>

bio_queue_add(ops) == queue' = queue \o ops

\* db_lookup and container_check_type: a container of another type refuses.
MayHold(k, type) == db[k] = NoData \/ IsA(k, type)
Mark(k, what) == gap' = [gap EXCEPT ![k] = what]

\* The container, or the end of it once it is empty.
Keep(k, c, empty) ==
    /\ Put(k, IF empty THEN NoData ELSE c)
    /\ Mark(k, IF empty THEN "none" ELSE gap[k])

xfiredb_string_set(k, v) ==
    /\ Call(k) /\ MayHold(k, "string")
    /\ Put(k, Container("string", v))
    /\ bio_queue_add(<<Bio(IF db[k] = NoData THEN "STRING_ADD"
                           ELSE "STRING_UPDATE", k, Null, v)>>)
    /\ UNCHANGED gap

\* list_lpush and list_rpush
Pushed(list, v, left) == IF left THEN <<v>> \o list ELSE Append(list, v)

\* An entry pushed on the left is the last row as well.
xfiredb_list_push(k, v, left) ==
    LET list == Opened(k, "list").data
    IN  /\ Call(k) /\ MayHold(k, "list") /\ Len(list) < MaxList
        /\ Put(k, Container("list", Pushed(list, v, left)))
        /\ bio_queue_add(<<Bio("LIST_ADD", k, Null, v)>>)
        /\ UNCHANGED gap

\* An index that is not in the list appends, and queues nothing.
xfiredb_list_set(k, idx, v) ==
    \/ db[k] = NoData /\ xfiredb_list_push(k, v, FALSE)
    \/ /\ Call(k) /\ IsA(k, "list")
       /\ LET list == db[k].data
          IN  IF idx + 1 \in DOMAIN list
              THEN /\ Put(k, Container("list", [list EXCEPT ![idx + 1] = v]))
                   /\ bio_queue_add(<<Bio("LIST_UPDATE", k, list[idx + 1], v)>>)
                   /\ UNCHANGED gap
              ELSE /\ Len(list) < MaxList
                   /\ Put(k, Container("list", Pushed(list, v, FALSE)))
                   /\ Mark(k, "entries")
                   /\ UNCHANGED queue

\* The positions xfiredb_list_pop takes from a list for the indices idx, in one
\* walk: it looks for one index at a time, never goes back, and adds what the
\* length is by then to an index as long as it is negative.
Popped(list, idx) ==
    LET walk[i \in 0..Len(list)] ==
            IF i = 0 THEN [idx |-> idx, out |-> {}]
            ELSE LET w == walk[i - 1]
                     len == Len(list) - Cardinality(w.out)
                     n == Head(w.idx) + IF Head(w.idx) < 0 THEN len ELSE 0
                 IN  IF w.idx = <<>> THEN w
                     ELSE IF n = i - 1
                     THEN [idx |-> Tail(w.idx), out |-> w.out \cup {i}]
                     ELSE [w EXCEPT !.idx = <<n>> \o Tail(w.idx)]
    IN  walk[Len(list)].out

\* The entries at some positions.
At(list, S) == [i \in 1..Cardinality(S) |-> list[SetToSortSeq(S, <)[i]]]
ListDel(k, entries) == [i \in DOMAIN entries |-> rb_list_pop(k, entries[i])]

xfiredb_list_pop(k, idx) ==
    /\ Call(k) /\ IsA(k, "list")
    /\ LET list == db[k].data
           out == Popped(list, idx)
           rest == At(list, DOMAIN list \ out)
       IN  /\ Keep(k, Container("list", rest), rest = <<>>)
           /\ bio_queue_add(ListDel(k, At(list, out)))

xfiredb_hashmap_set(k, s, v) ==
    LET map == Opened(k, "hashmap").data
    IN  /\ Call(k) /\ MayHold(k, "hashmap")
        /\ Put(k, Container("hashmap", Stored(map, s, v)))
        /\ bio_queue_add(<<rb_hashmap_store(k, map, s, v)>>)
        /\ UNCHANGED gap

HashmapDel(k, S) == ForEach(S, LAMBDA s : rb_hashmap_delete(k, s))

xfiredb_hashmap_remove(k, S) ==
    /\ Call(k) /\ IsA(k, "hashmap")
    /\ LET map == db[k].data
           left == DOMAIN map \ S
       IN  /\ Keep(k, Container("hashmap", Restrict(map, left)), left = {})
           /\ bio_queue_add(HashmapDel(k, S \cap DOMAIN map))

\* All entries of a list are queued with one copy of the key, which bio_worker
\* frees after the first.
SharedKey(ops) ==
    [i \in DOMAIN ops |-> IF i = 1 THEN ops[i]
                          ELSE [ops[i] EXCEPT !.operation = "freed key"]]

\* A set leaves the database and stays on disk.
xfiredb_key_delete(k) ==
    \/ /\ Call(k) /\ db[k] # NoData
       /\ Put(k, NoData)
       /\ CASE IsA(k, "set") -> UNCHANGED queue /\ Mark(k, "stale")
            [] IsA(k, "list") ->
                /\ bio_queue_add(SharedKey(raw_rb_list_clear(k)))
                /\ Mark(k, IF Len(db[k].data) > 1 THEN "stale" ELSE "none")
            [] OTHER -> bio_queue_add(DeleteOps(k)) /\ UNCHANGED gap
    \/ /\ mode = "open" /\ gap[k] = "freed"
       /\ Mark(k, "none")
       /\ UNCHANGED <<vars, api>>

\* Mutant: one copy of the key for all entries here, too.
ListClearSharesKey(k) ==
    /\ Call(k) /\ IsA(k, "list")
    /\ Put(k, NoData) /\ Mark(k, "freed")
    /\ bio_queue_add(SharedKey(ListDel(k, db[k].data)))

\* The container is freed and not taken out of the database.
xfiredb_list_clear(k) ==
    /\ Call(k) /\ IsA(k, "list")
    /\ Put(k, NoData) /\ Mark(k, "freed")
    /\ bio_queue_add(ListDel(k, db[k].data))

xfiredb_hashmap_clear(k) ==
    /\ Call(k) /\ IsA(k, "hashmap")
    /\ Put(k, NoData) /\ Mark(k, "freed")
    /\ bio_queue_add(HashmapDel(k, DOMAIN db[k].data))
-----------------------------------------------------------------------------
(* The engine.                                                             *)

\* A string does not replace what is there; the type of a container that rows
\* are added to is not asked for (RowsConsistent: it is theirs).
LoadRow(c, row) ==
    IF row.db_type = "string"
    THEN IF c = NoData THEN Container("string", row.db_value) ELSE c
    ELSE WithEntry(IF c = NoData THEN NewContainer(row.db_type) ELSE c, row)

xfiredb_load(rows) ==
    LET after[i \in 0..Len(rows)] ==
            IF i = 0 THEN [k \in Keys |-> NoData]
            ELSE [after[i - 1] EXCEPT ![rows[i].db_key] = LoadRow(@, rows[i])]
    IN  after[Len(rows)]

xfiredb_init ==
    /\ api = "c" /\ mode = "stopped"
    /\ mode' = "open"
    /\ db' = xfiredb_load(disk) /\ contents' = db'
    /\ gap' = NoGap
    /\ UNCHANGED <<load_state, keys, toload, queue, disk, api>>

\* bio_sync and bio_exit wait for the queue (mode "stopping").
xfiredb_exit ==
    /\ mode = "open"
    /\ mode' = "stopping"
    /\ db' = [k \in Keys |-> NoData]
    /\ UNCHANGED <<load_state, keys, toload, queue, disk, contents, capi>>

\* The statement for a key that was freed finds the row if the text is still
\* there, or no row.  (That the second free kills the program is CKill.)
ExecuteFreed ==
    /\ queue # <<>> /\ Head(queue).operation = "freed key"
    /\ disk' \in {disk, disk_delete_list(disk, Head(queue).key,
                                         Head(queue).arg)}
    /\ queue' = Tail(queue)
    /\ UNCHANGED <<mode, load_state, db, keys, toload, contents, capi>>

CExecute ==
    /\ queue # <<>> /\ Head(queue).operation # "freed key"
    /\ Execute /\ UNCHANGED capi

CKill == Kill /\ gap' = NoGap /\ UNCHANGED api
-----------------------------------------------------------------------------
CCalls ==
    \E k \in Keys :
        \/ \E v \in Values :
            \/ xfiredb_string_set(k, v)
            \/ \E left \in BOOLEAN : xfiredb_list_push(k, v, left)
            \/ \E idx \in Indices : xfiredb_list_set(k, idx, v)
            \/ \E s \in SubKeys : xfiredb_hashmap_set(k, s, v)
        \/ \E idx \in BoundedSeq(Indices, 2) \ {<<>>} : xfiredb_list_pop(k, idx)
        \/ \E S \in SUBSET SubKeys : xfiredb_hashmap_remove(k, S)
        \/ xfiredb_key_delete(k)
        \/ xfiredb_list_clear(k) \/ xfiredb_hashmap_clear(k)

\* A server, or a program with the calls above.
Ruby ==
    /\ api = "ruby" /\ UNCHANGED capi
    /\ Commands \/ Start \/ LoadEntry \/ StartReturn \/ Exit

CNext ==
    \/ Ruby \/ CCalls \/ xfiredb_init \/ xfiredb_exit
    \/ CExecute \/ ExecuteFreed \/ CKill
    \/ ExitReturn /\ UNCHANGED capi

CSpec == CInit /\ [][CNext]_<<vars, capi>>
-----------------------------------------------------------------------------
\* A list without some of its entries.
SubList(c, d) ==
    c = NoData \/ /\ c.type = "list" /\ d # NoData
                  /\ ToBag(c.data) \sqsubseteq ToBag(d.data)

\* What the commands, or calls, have made of the database is what will be loaded
\* from the disk, by a server or by a program, once the queue is executed and
\* whether the engine is running or was stopped: the same keys, types, strings,
\* hashmaps and sets, and lists with the same entries.  Neither starting the
\* engine, nor stopping it, nor an earlier kill between any two statements spoils
\* that; a list with entries that xfiredb_list_set did not queue keeps some of
\* the others and gets none that is not its own, and nothing is said of the rows
\* xfiredb_key_delete leaves behind.
RestartKeepsData ==
    queue = <<>> /\ mode # "loading" =>
        LET loaded == IF api = "c" THEN xfiredb_load(disk) ELSE Loaded(disk)
        IN  \A k \in Keys :
                CASE gap[k] = "stale" -> TRUE
                  [] gap[k] = "entries" -> SubList(loaded[k], contents[k])
                  [] OTHER -> SameContents(loaded[k], contents[k])
=============================================================================
