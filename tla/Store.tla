------------------------------- MODULE Store --------------------------------
(***************************************************************************)
(* One server and its storage: the commands of                             *)
(* lib/xfiredb-serv/storage_commands.rb on keys the server owns, the       *)
(* containers of ext/xfiredb-serv that they change, the changes these      *)
(* notice to the disk (xfiredb_notice_disk) through the queue of the       *)
(* background I/O, and the engine's start, exit and loss                   *)
(* (lib/xfiredb-serv/engine.rb).  A command runs to its end before the     *)
(* next one starts; bio_worker executes what is queued at any time, and    *)
(* the process can be killed at any time.                                  *)
(***************************************************************************)
EXTENDS Disk, Integers

CONSTANTS MaxList,   \* bound on the length of a list
          MaxQueue   \* bound on the queue a command is started with

VARIABLES mode,        \* of the process ("open": in module CApi)
          load_state,  \* changes are noticed to the disk
          db,          \* the containers in memory
          keys,        \* KeyShard: the keys the shard knows of
          toload,      \* rows read from disk and not yet loaded
          queue,       \* the queue of bio.c
          disk,        \* the rows on disk
          contents     \* history: what the commands have made of the database

vars == <<mode, load_state, db, keys, toload, queue, disk, contents>>

Init ==
    /\ mode = "stopped" /\ load_state = FALSE
    /\ db = [k \in Keys |-> NoData]
    /\ keys = {} /\ toload = <<>> /\ queue = <<>> /\ disk = <<>>
    /\ contents = db

\* xfiredb_notice_disk and xfiredb_store_container
Notice(ops) == queue' = IF load_state THEN queue \o ops ELSE queue

Present(d) == {k \in Keys : d[k] # NoData}
IsA(k, type) == db[k] # NoData /\ db[k].type = type
-----------------------------------------------------------------------------
(* Database and containers (ext/xfiredb-serv): what each call notices.     *)

rb_list_push(k, v) == Bio("LIST_ADD", k, Null, v)
rb_list_set(k, old, v) == Bio("LIST_UPDATE", k, old, v)
rb_list_pop(k, old) == Bio("LIST_DEL", k, old, Null)
rb_hashmap_delete(k, s) == Bio("HM_DEL", k, s, Null)
rb_set_add(k, s) == Bio("SET_ADD", k, s, Null)
rb_set_remove_key(k, s) == Bio("SET_DEL", k, s, Null)

\* Mutant: an existing key of the hashmap is added once more.
HashmapStoreAdds(k, map, s, v) == Bio("HM_ADD", k, s, v)
rb_hashmap_store(k, map, s, v) ==
    Bio(IF s \in DOMAIN map THEN "HM_UPDATE" ELSE "HM_ADD", k, s, v)

\* One operation for every member of a set, in the order of a skiplist.
ForEach(S, Op(_)) == LET s == SetToSeq(S) IN [i \in DOMAIN s |-> Op(s[i])]

\* The members of a container are deleted one by one.
raw_rb_list_clear(k) ==
    [i \in DOMAIN db[k].data |-> rb_list_pop(k, db[k].data[i])]
rb_hashmap_remove(k) ==
    ForEach(DOMAIN db[k].data, LAMBDA s : rb_hashmap_delete(k, s))
rb_set_remove(k) == ForEach(db[k].data, LAMBDA s : rb_set_remove_key(k, s))

\* raw_rb_db_delete of the container under k
DeleteOps(k) ==
    IF db[k] = NoData THEN <<>>
    ELSE CASE db[k].type = "string" -> <<Bio("STRING_DEL", k, Null, Null)>>
           [] db[k].type = "list" -> raw_rb_list_clear(k)
           [] db[k].type = "hashmap" -> rb_hashmap_remove(k)
           [] db[k].type = "set" -> rb_set_remove(k)

\* rb_db_store of a string
StringOps(k, v) ==
    IF IsA(k, "string") THEN <<Bio("STRING_UPDATE", k, Null, v)>>
    ELSE DeleteOps(k) \o <<Bio("STRING_ADD", k, Null, v)>>

\* db[key] = T.new unless db[key].is_a? T: an empty container notices nothing
\* when it is stored, the one it replaces is deleted.
Opened(k, type) == IF IsA(k, type) THEN db[k] ELSE NewContainer(type)
OpenOps(k, type) == IF IsA(k, type) THEN <<>> ELSE DeleteOps(k)

Put(k, c) == db' = [db EXCEPT ![k] = c] /\ contents' = db'
-----------------------------------------------------------------------------
(* Commands.                                                               *)

Command ==
    /\ mode = "running" /\ Len(queue) <= MaxQueue
    /\ UNCHANGED <<mode, load_state, toload, disk>>

\* Command#exec(true) and Command#exec(false)
Added(k) == keys' = keys \cup {k}
Removed(k) == keys' = keys \ {k}

\* Mutant: the key of an emptied container is not taken from the shard.
PutOrDeleteForgets(k, c, empty) ==
    Put(k, IF empty THEN NoData ELSE c) /\ UNCHANGED keys
\* A container that a command has emptied is deleted with its key.
PutOrDelete(k, c, empty) ==
    IF empty THEN Put(k, NoData) /\ Removed(k)
    ELSE Put(k, c) /\ UNCHANGED keys

SET(k, v) ==
    /\ Command
    /\ Put(k, Container("string", v)) /\ Notice(StringOps(k, v))
    /\ Added(k)

DELETE(k) ==
    /\ Command
    /\ Put(k, NoData) /\ Notice(DeleteOps(k))
    /\ Removed(k)

LPUSH(k, v) ==
    LET list == Opened(k, "list").data
    IN  /\ Command /\ Len(list) < MaxList
        /\ Put(k, Container("list", Append(list, v)))
        /\ Notice(Append(OpenOps(k, "list"), rb_list_push(k, v)))
        /\ Added(k)

\* num times list.pop(n): an index out of the list pops nothing.
Pop(k, n, num) ==
    LET list == db[k].data
        last == IF n + num < Len(list) THEN n + num ELSE Len(list)
        rest == SubSeq(list, 1, n) \o SubSeq(list, last + 1, Len(list))
    IN  /\ 0 <= n /\ n < Len(list)
        /\ PutOrDelete(k, Container("list", rest), rest = <<>>)
        /\ Notice([i \in 1..(last - n) |-> rb_list_pop(k, list[n + i])])

LPOP(k, idx) == Command /\ IsA(k, "list") /\ Pop(k, idx, 1)

\* LPOP key first..last; negative bounds count from the end.
LPOPRange(k, first, last) ==
    LET FromEnd(i) == IF i < 0 THEN i + Len(db[k].data) ELSE i
        lo == FromEnd(first)
        hi == FromEnd(last)
    IN  /\ Command /\ IsA(k, "list") /\ lo <= hi
        /\ Pop(k, lo, hi - lo + 1)

LSET(k, idx, v) ==
    /\ Command /\ IsA(k, "list")
    /\ idx + 1 \in DOMAIN db[k].data
    /\ Put(k, Container("list", [db[k].data EXCEPT ![idx + 1] = v]))
    /\ Notice(<<rb_list_set(k, db[k].data[idx + 1], v)>>)
    /\ Added(k)

MADD(k, s, v) ==
    LET map == Opened(k, "hashmap").data
    IN  /\ Command
        /\ Put(k, Container("hashmap", Stored(map, s, v)))
        /\ Notice(Append(OpenOps(k, "hashmap"),
                         rb_hashmap_store(k, map, s, v)))
        /\ Added(k)

MDEL(k, S) ==
    LET map == db[k].data
        left == DOMAIN map \ S
    IN  /\ Command /\ IsA(k, "hashmap")
        /\ PutOrDelete(k, Container("hashmap", Restrict(map, left)), left = {})
        /\ Notice(ForEach(S \cap DOMAIN map,
                          LAMBDA s : rb_hashmap_delete(k, s)))

SADD(k, S) ==
    LET set == Opened(k, "set").data
    IN  /\ Command
        /\ Put(k, Container("set", set \cup S))
        /\ Notice(OpenOps(k, "set") \o
                  ForEach(S \ set, LAMBDA s : rb_set_add(k, s)))
        /\ Added(k)

SDEL(k, S) ==
    LET set == db[k].data
    IN  /\ Command /\ IsA(k, "set")
        /\ PutOrDelete(k, Container("set", set \ S), set \subseteq S)
        /\ Notice(ForEach(S \cap set, LAMBDA s : rb_set_remove_key(k, s)))

LCLEAR(k) == IsA(k, "list") /\ DELETE(k)
MCLEAR(k) == IsA(k, "hashmap") /\ DELETE(k)
SCLEAR(k) == IsA(k, "set") /\ DELETE(k)
-----------------------------------------------------------------------------
(* The engine.                                                             *)

Execute ==
    /\ queue # <<>>
    /\ disk' = bio_execute(disk, Head(queue))
    /\ queue' = Tail(queue)
    /\ UNCHANGED <<mode, load_state, db, keys, toload, contents>>

\* The rows, in the order of the disk, as XFireDB::Engine gets them.
rb_se_load == disk

\* Mutant: changes are noticed to the disk while it is loaded.
StartNoticing ==
    /\ mode = "stopped"
    /\ mode' = "loading" /\ load_state' = TRUE
    /\ toload' = rb_se_load
    /\ UNCHANGED <<db, keys, queue, disk, contents>>

\* Engine#start: all rows are read, then loaded one by one while changes are
\* not noticed; KeyShard#load_keys closes the start.
Start ==
    /\ mode = "stopped"
    /\ mode' = "loading" /\ load_state' = FALSE
    /\ toload' = rb_se_load
    /\ UNCHANGED <<db, keys, queue, disk, contents>>

LoadOps(k, row) ==
    CASE row.db_type = "string" -> StringOps(k, row.db_value)
      [] row.db_type = "list" -> <<rb_list_push(k, row.db_value)>>
      [] row.db_type = "hashmap" ->
            <<rb_hashmap_store(k, Opened(k, "hashmap").data,
                               row.db_secondary_key, row.db_value)>>
      [] row.db_type = "set" -> <<rb_set_add(k, row.db_secondary_key)>>

LoadEntry ==
    /\ mode = "loading" /\ toload # <<>>
    /\ LET row == Head(toload)
           k == row.db_key
       IN  /\ db' = [db EXCEPT ![k] = load_entry(@, row)]
           /\ Notice(LoadOps(k, row))
    /\ toload' = Tail(toload)
    /\ UNCHANGED <<mode, load_state, keys, disk, contents>>

StartReturn ==
    /\ mode = "loading" /\ toload = <<>>
    /\ mode' = "running" /\ load_state' = TRUE
    /\ keys' = Present(db)
    /\ contents' = db
    /\ UNCHANGED <<db, toload, queue, disk>>

\* Engine#exit: the keys are deleted from memory while changes are not noticed,
\* then xfiredb_se_exit waits for the queue and closes the disk.
Exit ==
    /\ mode = "running"
    /\ mode' = "stopping" /\ load_state' = FALSE
    /\ db' = [k \in Keys |-> NoData]
    /\ keys' = {}
    /\ UNCHANGED <<toload, queue, disk, contents>>

ExitReturn ==
    /\ mode = "stopping" /\ queue = <<>>
    /\ mode' = "stopped"
    /\ UNCHANGED <<load_state, db, keys, toload, queue, disk, contents>>

\* The process is killed: what was only in memory is lost.
Kill ==
    /\ mode # "stopped"
    /\ mode' = "stopped" /\ load_state' = FALSE
    /\ db' = [k \in Keys |-> NoData]
    /\ keys' = {} /\ toload' = <<>> /\ queue' = <<>>
    /\ contents' = Loaded(disk)
    /\ UNCHANGED disk
-----------------------------------------------------------------------------
Indices == -MaxList..MaxList

ListCommand(k) ==
    \/ \E v \in Values : LPUSH(k, v) \/ \E idx \in Indices : LSET(k, idx, v)
    \/ \E idx \in Indices : LPOP(k, idx)
    \/ \E first, last \in Indices : LPOPRange(k, first, last)

MapCommand(k) ==
    \/ \E s \in SubKeys, v \in Values : MADD(k, s, v)
    \/ \E S \in SUBSET SubKeys : MDEL(k, S)

SetCommand(k) ==
    \E S \in SUBSET SubKeys \ {{}} : SADD(k, S) \/ SDEL(k, S)

Commands ==
    \E k \in Keys :
        \/ \E v \in Values : SET(k, v)
        \/ DELETE(k)
        \/ ListCommand(k) \/ MapCommand(k) \/ SetCommand(k)
        \/ LCLEAR(k) \/ MCLEAR(k) \/ SCLEAR(k)

Engine ==
    Execute \/ Start \/ LoadEntry \/ StartReturn \/ Exit \/ ExitReturn \/ Kill

Next == Commands \/ Engine

Spec == Init /\ [][Next]_vars
-----------------------------------------------------------------------------
Containers ==
    [type : {"string"}, data : Values]
    \cup [type : {"list"}, data : Seq(Values)]
    \cup [type : {"hashmap"}, data : UNION {[S -> Values] : S \in SUBSET SubKeys}]
    \cup [type : {"set"}, data : SUBSET SubKeys]

Rows == [db_key : Keys, db_secondary_key : SubKeys \cup {Null},
         db_type : {"string", "list", "hashmap", "set"},
         db_value : Values \cup {Null}]

\* Type invariant.
TypeOK ==
    /\ mode \in {"stopped", "loading", "running", "stopping", "open"}
    /\ load_state \in BOOLEAN
    /\ {db, contents} \subseteq [Keys -> Containers \cup {NoData}]
    /\ keys \subseteq Keys
    /\ disk \in Seq(Rows) /\ toload \in Seq(Rows)
    /\ \A i \in DOMAIN queue : queue[i].key \in Keys

\* Two containers with the same contents, lists up to the order of their entries.
SameContents(c, d) ==
    \/ c = d
    \/ /\ c # NoData /\ d # NoData
       /\ c.type = "list" /\ d.type = "list"
       /\ ToBag(c.data) = ToBag(d.data)

\* At every moment, so also wherever a kill cuts the queue, the rows of a key
\* are of one type, with no row twice: load_entry never meets a key of another
\* type and drops nothing.
RowsConsistent ==
    \A i, j \in DOMAIN disk :
        i # j /\ disk[i].db_key = disk[j].db_key =>
            /\ disk[i].db_type = disk[j].db_type
            /\ disk[i].db_type # "string"
            /\ disk[i].db_type \in {"hashmap", "set"} =>
                disk[i].db_secondary_key # disk[j].db_secondary_key

\* The shard knows exactly the keys that exist; a key it does not know of would
\* stay behind when its slot is migrated.
ShardKnowsKeys == mode = "running" => keys = Present(db)

\* What the comment of Engine#exit says, "All data will be stored to disk": the
\* order of a list is part of its data.
ListOrderStored ==
    queue = <<>> /\ mode # "loading" => Loaded(disk) = contents
=============================================================================
