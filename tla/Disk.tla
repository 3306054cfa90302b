-------------------------------- MODULE Disk --------------------------------
(***************************************************************************)
(* The persistent copy of the database, libxfiredbengine/storage/disk.c: a *)
(* table of rows in the order of their insertion, and one SQL statement    *)
(* for each operation of the background I/O queue (storage/bio.c).  The    *)
(* texts stored are plain: no statement is refused by SQLite.              *)
(*                                                                         *)
(* The second part is the way back: what the rows mean to the server that  *)
(* loads them (lib/xfiredb-serv/engine.rb).                                *)
(***************************************************************************)
EXTENDS SequencesExt

CONSTANTS Keys, SubKeys, Values,
          Null,    \* the text "null" in a column that is not used
          NoData   \* no container is stored under a key

Row(key, skey, type, value) ==
    [db_key |-> key, db_secondary_key |-> skey,
     db_type |-> type, db_value |-> value]

\* struct bio_q
Bio(operation, key, arg, newdata) ==
    [operation |-> operation, key |-> key, arg |-> arg, newdata |-> newdata]
-----------------------------------------------------------------------------
(* The statements.                                                         *)

UpdateAll(rows, Match(_), value) ==
    [i \in DOMAIN rows |-> IF Match(rows[i])
                           THEN [rows[i] EXCEPT !.db_value = value]
                           ELSE rows[i]]

\* ... WHERE ROWID IN (SELECT ROWID ... LIMIT 1)
UpdateFirst(rows, Match(_), value) ==
    LET i == SelectInSeq(rows, Match)
    IN  IF i = 0 THEN rows ELSE [rows EXCEPT ![i].db_value = value]

DeleteAll(rows, Match(_)) == SelectSeq(rows, LAMBDA r : ~Match(r))

disk_store_string(d, key, data) == Append(d, Row(key, Null, "string", data))
disk_store_list_entry(d, key, data) == Append(d, Row(key, Null, "list", data))
disk_store_hm_node(d, key, nodekey, data) ==
    Append(d, Row(key, nodekey, "hashmap", data))
\* Mutant: the two key columns are exchanged.
StoreSetKeySwapped(d, key, skey) == Append(d, Row(skey, key, "set", Null))
disk_store_set_key(d, key, skey) == Append(d, Row(key, skey, "set", Null))

\* Mutant: the key is not asked for.
IsAnyString(r, key) == r.db_type = "string"
IsString(r, key) == r.db_type = "string" /\ r.db_key = key
IsEntry(r, key, data) ==
    r.db_key = key /\ r.db_value = data /\ r.db_type = "list"

disk_update_string(d, key, data) ==
    UpdateAll(d, LAMBDA r : IsString(r, key), data)
disk_update_list(d, key, data, newdata) ==
    UpdateFirst(d, LAMBDA r : IsEntry(r, key, data), newdata)

\* The type of the row is not asked for.
disk_update_hm(d, key, nodekey, data) ==
    UpdateAll(d, LAMBDA r : r.db_key = key /\ r.db_secondary_key = nodekey,
              data)

disk_delete_string(d, key) == DeleteAll(d, LAMBDA r : IsString(r, key))
disk_delete_list(d, key, data) ==
    RemoveFirstMatch(d, LAMBDA r : IsEntry(r, key, data))

DeleteMember(d, type, key, skey) ==
    DeleteAll(d, LAMBDA r : /\ r.db_type = type /\ r.db_key = key
                            /\ r.db_secondary_key = skey)
disk_delete_hashmapnode(d, key, nodekey) ==
    DeleteMember(d, "hashmap", key, nodekey)
disk_delete_set_key(d, key, skey) == DeleteMember(d, "set", key, skey)

\* The switch of bio_worker.
bio_execute(d, q) ==
    CASE q.operation = "STRING_ADD" -> disk_store_string(d, q.key, q.newdata)
      [] q.operation = "STRING_UPDATE" ->
            disk_update_string(d, q.key, q.newdata)
      [] q.operation = "STRING_DEL" -> disk_delete_string(d, q.key)
      [] q.operation = "LIST_ADD" ->
            disk_store_list_entry(d, q.key, q.newdata)
      [] q.operation = "LIST_DEL" -> disk_delete_list(d, q.key, q.arg)
      [] q.operation = "LIST_UPDATE" ->
            disk_update_list(d, q.key, q.arg, q.newdata)
      [] q.operation = "HM_ADD" ->
            disk_store_hm_node(d, q.key, q.arg, q.newdata)
      [] q.operation = "HM_DEL" -> disk_delete_hashmapnode(d, q.key, q.arg)
      [] q.operation = "HM_UPDATE" ->
            disk_update_hm(d, q.key, q.arg, q.newdata)
      [] q.operation = "SET_ADD" -> disk_store_set_key(d, q.key, q.arg)
      [] q.operation = "SET_DEL" -> disk_delete_set_key(d, q.key, q.arg)
-----------------------------------------------------------------------------
(* Containers, and their reading from rows.                                *)

Container(type, data) == [type |-> type, data |-> data]
NewContainer(type) ==
    Container(type, CASE type = "list" -> <<>>
                      [] type = "hashmap" -> [s \in {} |-> Null]
                      [] type = "set" -> {})

\* hashmap[skey] = data
Stored(map, skey, data) ==
    [s \in DOMAIN map \cup {skey} |-> IF s = skey THEN data ELSE map[s]]

WithEntry(c, row) ==
    Container(c.type,
        CASE c.type = "list" -> Append(c.data, row.db_value)
          [] c.type = "hashmap" ->
                Stored(c.data, row.db_secondary_key, row.db_value)
          [] c.type = "set" -> c.data \cup {row.db_secondary_key})

\* What Engine#load_entry makes of the container c (or NoData) of the row's key.
load_entry(c, row) ==
    IF row.db_type = "string" THEN Container("string", row.db_value)
    ELSE IF c = NoData THEN WithEntry(NewContainer(row.db_type), row)
    ELSE IF c.type = row.db_type THEN WithEntry(c, row)
    ELSE c

\* The database that a server started on the rows has in memory.
Loaded(rows) ==
    LET after[i \in 0..Len(rows)] ==
            IF i = 0 THEN [k \in Keys |-> NoData]
            ELSE [after[i - 1] EXCEPT ![rows[i].db_key] =
                    load_entry(@, rows[i])]
    IN  after[Len(rows)]
=============================================================================
