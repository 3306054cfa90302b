------------------------------ MODULE Cluster -------------------------------
(***************************************************************************)
(* Several servers and the slots they share: commands that are forwarded   *)
(* to the node that owns the slot of their key (command.rb), migration of  *)
(* slots with their keys from one node to another (localnode.rb,           *)
(* keyshard.rb), and the operations of the administrator that drive it,    *)
(* CLUSTER RESHARD and CLUSTER FORGET (cluster.rb, cluster_commands.rb).   *)
(*                                                                         *)
(* Each node runs its handlers in threads; a step is what a thread does    *)
(* between two requests to other nodes, or between two calls that another  *)
(* thread could observe.  A node may be stopped and started again at any   *)
(* time: the database is saved, its threads are gone.  The administrator   *)
(* runs one operation at a time.                                           *)
(***************************************************************************)
EXTENDS Integers, Sequences, FiniteSets

CONSTANTS Nodes, Slots, Keys, Clients,
          SlotOf,        \* KeyShard.key_to_slot
          Root,          \* the node set up as root: it has every slot
          Members,       \* the nodes that have met at the start
          Inviters,      \* the nodes an administrator runs CLUSTER MEET on
          MeetNewcomers, \* whether they meet only nodes that know no other one
          Values,        \* strings, and members of sets
          MaxNum,        \* bound on the slots of a RESHARD
          MaxHops,       \* bound on how often a command is forwarded
          MaxTasks,      \* bound on the operations an administrator has begun
                         \* and the stops before the next one
          MaxStops,      \* bound on the stops of nodes
          NoData, Idle,
          Blank          \* the empty string, where a slot is expected

ASSUME ClusterAssumption ==
    /\ SlotOf \in [Keys -> Slots] /\ Blank \notin Slots
    /\ Members \subseteq Nodes /\ Root \in Members /\ Inviters \subseteq Nodes
    /\ IsFiniteSet(Slots) /\ IsFiniteSet(Nodes) /\ MeetNewcomers \in BOOLEAN
    /\ {MaxNum, MaxHops, MaxTasks, MaxStops} \subseteq Nat

String(v) == <<"string", v>>
SetOf(S) == <<"set", S>>
Data == {NoData} \cup {String(v) : v \in Values} \cup {SetOf(S) : S \in SUBSET Values}

Command ==
    [op : {"SET", "SADD", "DELETE"}, key : Keys, val : Values \cup {NoData}, node : Nodes,
     pc : {"check", "where", "forward", "store", "keys"}, own : BOOLEAN,
     asked : SUBSET Nodes, path : Seq(Nodes \cup {Idle})]

Migration ==
    [src : Nodes, dst : Nodes, num : Nat, slots : SUBSET (Slots \cup {Blank}),
     keys : SUBSET Keys, key : Keys \cup {NoData},
     pieces : SUBSET ({"SET", "SADD"} \X Values),
     pc : {"reshard", "save", "add", "added", "keys", "copy"}]

Task ==
    [kind : {"all", "one", "forget", "meet"}, at : Nodes, node : Nodes, num : Int,
     dist : [Nodes -> Nat], per : Nat,
     left : SUBSET Nodes, news : SUBSET Nodes,
     pc : {"round", "next", "wait", "hung", "met", "gossip"}]

ASSUME DataAssumption ==
    NoData \notin {String(v) : v \in Values} \cup {SetOf(S) : S \in SUBSET Values}

ASSUME IdleAssumption == Idle \notin Command \cup Migration \cup Task

VARIABLES up,       \* the nodes that are running
          known,    \* Cluster#nodes of every node
          slots,    \* KeyShard#slots of every node
          shards,   \* db['xfiredb']['shards'] of every node
          keys,     \* KeyShard#keys of every node
          db,       \* the other keys of every node's database
          cmd,      \* the command of every client
          mig,      \* LocalNode#migrate in progress
          task,     \* RESHARD or FORGET in progress
          truth,    \* history: the value of a key after the commands so far
          disturbed,\* history: keys used while their slot was moving, or
                    \* by two commands at once
          tasks,    \* how many operations the administrator has begun
          stops     \* how many times a node was stopped

nodevars == <<slots, shards, keys, db>>
history == <<truth, disturbed>>
vars == <<up, known, nodevars, cmd, mig, task, history, tasks, stops>>

Init ==
    /\ up = Nodes
    /\ known = [n \in Nodes |-> IF n \in Members THEN Members ELSE {n}]
    /\ slots = [n \in Nodes |-> IF n = Root THEN Slots ELSE {}]
    /\ shards = slots
    /\ keys = [n \in Nodes |-> {}]
    /\ db = [n \in Nodes |-> [k \in Keys |-> NoData]]
    /\ cmd = [c \in Clients |-> Idle]
    /\ mig = Idle /\ task = Idle
    /\ truth = [k \in Keys |-> NoData]
    /\ disturbed = {} /\ tasks = 0 /\ stops = 0

Min2(i, j) == IF i < j THEN i ELSE j

\* A request on the cluster bus of m is served if m runs and has the sender's
\* address among its nodes; other requests are answered by something that no
\* caller takes for an error.  A node that was told to forget itself has no
\* local node left, and every handler that needs it raises an error.
Accepts(m, n) == m \in up /\ n \in known[m]
Serves(m, n) == Accepts(m, n) /\ m \in known[m]

\* KeyShard#include?
Includes(n, k) == SlotOf[k] \in slots[n]

\* What SET, SADD and DELETE make of the data of their key.
Effect(op, v, data) ==
    CASE op = "SET" -> String(v)
      [] op = "SADD" -> SetOf({v} \cup (IF data # NoData /\ data[1] = "set"
                                        THEN data[2] ELSE {}))
      [] op = "DELETE" -> NoData
-----------------------------------------------------------------------------
(* Commands.  A command runs at `node', after it was forwarded by the nodes *)
(* of `path'.                                                              *)

Moving(k) == mig # Idle /\ SlotOf[k] \in mig.slots
InUse(k) == \E c \in Clients : cmd[c] # Idle /\ cmd[c].key = k

\* History: nothing more is said of the values of K.
Disturb(K) ==
    /\ disturbed' = disturbed \cup K
    /\ truth' = [k \in Keys |-> IF k \in K THEN NoData ELSE truth[k]]

Request(c, n, op, k, v) ==
    /\ cmd[c] = Idle /\ n \in up
    /\ cmd' = [cmd EXCEPT ![c] =
            [op |-> op, key |-> k, val |-> v, node |-> n, pc |-> "check",
             own |-> TRUE, asked |-> {}, path |-> <<>>]]
    /\ Disturb({k} \cap {x \in Keys : Moving(x) \/ InUse(x)})
    /\ UNCHANGED <<up, known, nodevars, mig, task, tasks, stops>>

\* The caller of a command that has ended, the last one that is still waiting.
\* Every command returns the reply of the node it was forwarded to; only DELETE
\* goes on with its own database.
Waiting(path) == {i \in DOMAIN path : path[i] # Idle}

Resume(r) ==
    IF r.op # "DELETE" \/ Waiting(r.path) = {} THEN Idle
    ELSE LET i == CHOOSE i \in Waiting(r.path) : \A j \in Waiting(r.path) : j <= i
         IN  [r EXCEPT !.node = r.path[i], !.own = FALSE, !.pc = "store",
                       !.path = SubSeq(@, 1, i - 1)]

\* A step of the command of c.
At(c, pc) ==
    cmd[c] # Idle /\ cmd[c].pc = pc /\ UNCHANGED <<up, known, mig, task,
                                            slots, shards, tasks, stops>>
Becomes(c, r) == cmd' = [cmd EXCEPT ![c] = r]

\* return forward(...) unless shard.include? key
CheckOwner(c) ==
    LET r == cmd[c]
    IN  /\ At(c, "check")
        /\ Becomes(c, IF r.node \notin known[r.node] THEN Resume(r)
                      ELSE IF Includes(r.node, r.key)
                           THEN [r EXCEPT !.pc = "store"]
                           ELSE [r EXCEPT !.pc = "where"])
        /\ UNCHANGED <<keys, db, history>>

\* CLUSTER WHEREIS?: the nodes are asked one by one, CLUSTER YOUHAVE?; the first
\* one that does not answer "false" is taken.
WhereIs(c) ==
    LET r == cmd[c]
    IN  /\ At(c, "where")
        /\ \E m \in known[r.node] \ r.asked :
            Becomes(c, IF Serves(m, r.node) /\ ~Includes(m, r.key)
                       THEN [r EXCEPT !.asked = @ \cup {m}]
                       ELSE [r EXCEPT !.asked = {m}, !.pc = "forward"])
        /\ UNCHANGED <<keys, db, history>>

\* "Key not known" is not the name of a node: the command raises an error.
NotFound(c) ==
    /\ At(c, "where") /\ known[cmd[c].node] \subseteq cmd[c].asked
    /\ Becomes(c, Resume(cmd[c]))
    /\ UNCHANGED <<keys, db, history>>

\* Command#forward
Forward(c) ==
    LET r == cmd[c]
        n == r.node
    IN  /\ At(c, "forward") /\ Len(r.path) < MaxHops
        /\ \E m \in r.asked :
            Becomes(c,
              IF m \notin known[n] THEN Resume(r)
              ELSE LET f == [r EXCEPT !.asked = {}, !.path = Append(@, n)]
                   IN  IF Accepts(m, n)
                       THEN [f EXCEPT !.node = m, !.pc = "check"]
                       ELSE Resume(f))
        /\ UNCHANGED <<keys, db, history>>

\* The change of the database: owned, or what DELETE does after its forward.
StoreData(c) ==
    LET r == cmd[c]
    IN  /\ At(c, "store")
        /\ db' = [db EXCEPT ![r.node][r.key] = Effect(r.op, r.val, @)]
        /\ truth' = IF r.own /\ r.key \notin disturbed
                    THEN [truth EXCEPT ![r.key] = Effect(r.op, r.val, @)]
                    ELSE truth
        /\ Becomes(c, [r EXCEPT !.pc = "keys"])
        /\ UNCHANGED <<keys, disturbed>>

\* Command#exec: add_key, which looks at the slots again, or del_key
ShardKey(c) ==
    LET r == cmd[c]
        n == r.node
    IN  /\ At(c, "keys")
        /\ keys' = [keys EXCEPT ![n] =
                IF n \notin known[n] THEN @
                ELSE IF r.op = "DELETE" THEN @ \ {r.key}
                ELSE IF Includes(n, r.key) THEN @ \cup {r.key} ELSE @]
        /\ Becomes(c, Resume(r))
        /\ Disturb(IF n \in known[n] THEN {} ELSE {r.key})
        /\ UNCHANGED db

CommandStep(c) ==
    \/ CheckOwner(c) \/ WhereIs(c) \/ NotFound(c) \/ Forward(c)
    \/ StoreData(c) \/ ShardKey(c)
-----------------------------------------------------------------------------
(* Operations of the administrator on node `at': MEET, RESHARD, FORGET.    *)

\* CLUSTER SLOTS: a node that does not serve the request counts as 0.
SlotCount(m, n) == IF Serves(m, n) THEN Cardinality(slots[m]) ELSE 0

\* The node runs and no node that accepts its requests raises an error.
Ready(a) ==
    /\ task = Idle /\ mig = Idle /\ a \in up /\ tasks + stops < MaxTasks
    /\ \A m \in known[a] : Accepts(m, a) => m \in known[m]

Starts(t) ==
    /\ task' = t /\ tasks' = tasks + 1
    /\ UNCHANGED <<up, known, nodevars, cmd, mig, history, stops>>

\* Cluster#reshard, src = "all"
ReshardAll(a, num, dst) ==
    /\ Ready(a) /\ dst \in known[a]
    /\ num <= Cardinality(Slots) - SlotCount(dst, a)
    /\ Starts([kind |-> "all", at |-> a, node |-> dst, num |-> num,
               dist |-> [m \in Nodes |-> IF m \in known[a] \ {dst}
                                        THEN SlotCount(m, a) ELSE 0],
               per |-> 0, left |-> {}, news |-> {}, pc |-> "round"])

\* Cluster#reshard from one node
ReshardOne(a, num, src, dst) ==
    /\ Ready(a) /\ {src, dst} \subseteq known[a]
    /\ Starts([kind |-> "one", at |-> a, node |-> dst, num |-> num,
               dist |-> [m \in Nodes |-> 0],
               per |-> num, left |-> {src}, news |-> {}, pc |-> "next"])

\* Cluster#forget
Forget(a, f) ==
    /\ Ready(a) /\ f \in known[a]
    /\ Starts([kind |-> "forget", at |-> a, node |-> f, num |-> SlotCount(f, a),
               dist |-> [m \in Nodes |-> 0],
               per |-> 0, left |-> {}, news |-> {f}, pc |-> "round"])

\* Cluster#auth_node on the node that is met: "Already authenticated", or it
\* remembers the one that asks.
auth_node(m, a) ==
    /\ a \notin known[m]
    /\ known' = [known EXCEPT ![m] = @ \cup {a}]

\* ClusterCommand#cluster_meet, up to the answer of the node that is met
Meet(a, m) ==
    /\ Ready(a) /\ a \in known[a] /\ m \in up /\ auth_node(m, a)
    /\ task' = [kind |-> "meet", at |-> a, node |-> m, num |-> 0,
                dist |-> [x \in Nodes |-> 0], per |-> 0, left |-> {},
                news |-> {}, pc |-> "met"]
    /\ tasks' = tasks + 1
    /\ UNCHANGED <<up, nodevars, cmd, mig, history, stops>>

Administer ==
    \E a, m \in Nodes :
        \/ a \in Inviters /\ (MeetNewcomers => known[m] \subseteq {m}) /\ Meet(a, m)
        \/ Forget(a, m)
        \/ \E num \in 0..MaxNum :
            ReshardAll(a, num, m) \/ \E src \in Nodes : ReshardOne(a, num, src, m)

\* A step of the task, which leaves the data alone.
TaskAt(pc) ==
    task # Idle /\ task.pc = pc /\ UNCHANGED <<up, nodevars, cmd, history, tasks, stops>>

\* Mutant: forget is done after one pass over the nodes.
ProceedOnce(t) ==
    IF t.kind = "one" \/ (t.kind = "all" /\ t.num <= 0) THEN Idle
    ELSE IF t.kind = "forget" /\ t.left = {} THEN [t EXCEPT !.num = 0, !.pc = "round"]
    ELSE [t EXCEPT !.pc = IF t.num <= 0 \/ t.left = {} THEN "round" ELSE "next"]

\* ... and after the answer to a MIGRATE request.
Proceed(t) ==
    IF t.kind = "one" \/ (t.kind = "all" /\ t.num <= 0) THEN Idle
    ELSE [t EXCEPT !.pc = IF t.num <= 0 \/ t.left = {} THEN "round" ELSE "next"]

\* The nodes a round of reshard takes slots from, or a round of forget gives
\* slots to.
Sources(t) ==
    IF t.kind = "all" THEN {m \in Nodes : t.dist[m] > 0} ELSE known[t.at] \ {t.node}

\* Mutant: a share that is rounded down to 0 stays 0.
RoundDown ==
    LET t == task
        sources == Sources(t)
    IN  /\ TaskAt("round") /\ UNCHANGED <<known, mig>>
        /\ task' = IF t.num <= 0
                   THEN IF t.kind = "all" THEN Idle
                        ELSE [t EXCEPT !.left = known[t.at], !.pc = "gossip"]
                   ELSE IF sources = {} THEN Idle
                   ELSE [t EXCEPT !.per = t.num \div Cardinality(sources),
                                  !.left = sources, !.pc = "next"]

\* The head of the loops of reshard and forget: the share of a node, rounded
\* down, or all of it if that is 0.  A division by zero ends the task.
Round ==
    LET t == task
        sources == Sources(t)
        share == t.num \div Cardinality(sources)
    IN  /\ TaskAt("round") /\ UNCHANGED <<known, mig>>
        /\ task' = IF t.num <= 0
                   THEN IF t.kind = "all" THEN Idle
                        ELSE [t EXCEPT !.left = known[t.at], !.pc = "gossip"]
                   ELSE IF sources = {} THEN Idle
                   ELSE [t EXCEPT !.per = IF share = 0 THEN t.num ELSE share,
                                  !.left = sources, !.pc = "next"]

\* One MIGRATE request; reshard asks the nodes with most slots first and never
\* for more than a node had when the task began.
Migrate ==
    /\ TaskAt("next") /\ mig = Idle /\ UNCHANGED known
    /\ \E m \in task.left :
        LET x == IF task.kind = "all" THEN Min2(task.per, task.dist[m])
                 ELSE task.per
            src == IF task.kind = "forget" THEN task.node ELSE m
            dst == IF task.kind = "forget" THEN m ELSE task.node
            t == [task EXCEPT !.num = @ - x, !.left = @ \ {m}]
        IN  /\ \A o \in task.left : task.dist[o] <= task.dist[m]
            /\ IF Serves(src, task.at)
               THEN /\ task' = [t EXCEPT !.pc = "wait"]
                    /\ mig' = [src |-> src, dst |-> dst, num |-> x,
                               slots |-> {}, keys |-> {}, key |-> NoData,
                               pieces |-> {}, pc |-> "reshard"]
               ELSE /\ task' = IF Accepts(src, task.at)
                               THEN [t EXCEPT !.pc = "hung"] ELSE Proceed(t)
                    /\ UNCHANGED mig

\* A handler that raised an error leaves its connection open: the caller waits
\* until it is collected as garbage.
Collected ==
    /\ TaskAt("hung") /\ task' = Proceed(task) /\ UNCHANGED <<known, mig>>

\* The rest of cluster_meet: remember the new node, and tell all nodes of all.
Met ==
    /\ TaskAt("met") /\ UNCHANGED mig
    /\ known' = [known EXCEPT ![task.at] = @ \cup {task.node}]
    /\ task' = [task EXCEPT !.news = known'[task.at], !.left = known'[task.at],
                            !.pc = "gossip"]

\* Cluster#gossip on one node.
Gossiped(m) ==
    IF task.kind = "meet" THEN known[m] \cup task.news ELSE known[m] \ task.news

\* ClusterNode#gossip; a node that does not run raises an error here.  The sender
\* has nothing to tell itself.
Gossip ==
    /\ TaskAt("gossip") /\ UNCHANGED mig
    /\ \E m \in task.left :
        /\ task' = IF m \in up THEN [task EXCEPT !.left = @ \ {m}] ELSE Idle
        /\ known' = IF m # task.at /\ Accepts(m, task.at)
                    THEN [known EXCEPT ![m] = Gossiped(m)] ELSE known

\* Cluster#remove_node, the end of forget
GossipSent ==
    /\ TaskAt("gossip") /\ task.left = {} /\ UNCHANGED mig
    /\ known' = IF task.kind = "forget"
                THEN [known EXCEPT ![task.at] = @ \ task.news] ELSE known
    /\ task' = Idle

TaskStep == Round \/ Migrate \/ Met \/ Gossip \/ GossipSent
-----------------------------------------------------------------------------
(* LocalNode#migrate                                                       *)

Answered == task' = IF task # Idle /\ task.pc = "wait" THEN Proceed(task) ELSE task
Failed == task' = IF task # Idle /\ task.pc = "wait"
                  THEN [task EXCEPT !.pc = "hung"] ELSE task

MigAt(pc) ==
    mig # Idle /\ mig.pc = pc /\ UNCHANGED <<up, known, cmd, tasks, stops>>

\* KeyShard#reshard
Reshard ==
    LET n == mig.src
    IN  /\ MigAt("reshard")
        /\ \E S \in SUBSET slots[n] :
            LET K == {k \in keys[n] : SlotOf[k] \in S}
            IN  /\ Cardinality(S) = Min2(mig.num, Cardinality(slots[n]))
                /\ slots' = [slots EXCEPT ![n] = @ \ S]
                /\ keys' = [keys EXCEPT ![n] = @ \ K]
                /\ mig' = [mig EXCEPT !.slots = S, !.keys = K, !.pc = "save"]
                /\ Disturb({k \in Keys : SlotOf[k] \in S /\ (n = mig.dst \/ InUse(k))})
        /\ UNCHANGED <<shards, db, task>>

\* What is read back from the slots joined by colons: an empty string at the
\* end is dropped, one before another slot is kept.
Joined(S) == {S \ {Blank}} \cup (IF S \subseteq {Blank} THEN {} ELSE {S})

\* Mutant: the slots that are left are not written to the database.
SaveSlotsNot ==
    /\ MigAt("save")
    /\ mig' = [mig EXCEPT !.slots = @ \ {Blank}, !.pc = "add"]
    /\ UNCHANGED <<nodevars, task, history>>

SaveSlots ==
    /\ MigAt("save")
    /\ \E S \in Joined(slots[mig.src]) : shards' = [shards EXCEPT ![mig.src] = S]
    /\ mig' = [mig EXCEPT !.slots = @ \ {Blank}, !.pc = "add"]
    /\ UNCHANGED <<slots, keys, db, task, history>>

\* Mutant: the slots sent replace those of the destination.
AddSlotsOver ==
    /\ MigAt("add")
    /\ mig.dst \in known[mig.src] /\ Serves(mig.dst, mig.src)
    /\ slots' = [slots EXCEPT ![mig.dst] = mig.slots]
    /\ mig' = [mig EXCEPT !.pc = "added"]
    /\ UNCHANGED <<task, history, shards, keys, db>>

\* dst.add_slots: the destination must be known and must run.  At the
\* destination, Cluster#add_slots changes the shard and then the database.
AddSlots ==
    LET d == mig.dst
        moved == {k \in Keys : SlotOf[k] \in mig.slots}
    IN  /\ MigAt("add")
        /\ \/ /\ d \in known[mig.src] /\ Serves(d, mig.src)
              /\ slots' = [slots EXCEPT ![d] = @ \cup mig.slots]
              /\ mig' = [mig EXCEPT !.pc = "added"]
              /\ UNCHANGED <<task, history>>
           \/ /\ d \in known[mig.src] /\ d \in up /\ ~Serves(d, mig.src)
              /\ mig' = [mig EXCEPT !.pc = "keys"]
              /\ Disturb(moved)
              /\ UNCHANGED <<slots, task>>
           \/ /\ d \notin known[mig.src] \/ d \notin up
              /\ mig' = Idle /\ Failed
              /\ Disturb(moved)
              /\ UNCHANGED slots
        /\ UNCHANGED <<shards, keys, db>>

\* No slots put an empty string before the slots that are there.
SaveAdded ==
    LET d == mig.dst
    IN  /\ MigAt("added")
        /\ shards' = [shards EXCEPT ![d] =
                IF mig.slots = {} /\ @ # {} THEN @ \cup {Blank}
                ELSE @ \cup mig.slots]
        /\ mig' = [mig EXCEPT !.pc = "keys"]
        /\ UNCHANGED <<slots, keys, db, task, history>>

\* The queries that carry a value: one SET, or one SADD for each member.
Pieces(data) ==
    IF data = NoData THEN {}
    ELSE IF data[1] = "string" THEN {<<"SET", data[2]>>}
    ELSE {<<"SADD", v>> : v \in data[2]}

\* keys.each: val = db[key]
ReadKey ==
    /\ MigAt("keys")
    /\ \E k \in mig.keys :
        mig' = [mig EXCEPT !.key = k, !.pieces = Pieces(db[mig.src][k]),
                           !.keys = @ \ {k}, !.pc = "copy"]
    /\ UNCHANGED <<nodevars, task, history>>

\* dst.cluster_query: the command runs at the destination, if it is served
\* there and the slot is there; no answer is looked at.
CopyPiece ==
    LET d == mig.dst
        k == mig.key
    IN  /\ MigAt("copy")
        /\ \E p \in mig.pieces :
            /\ IF Serves(d, mig.src) /\ Includes(d, k)
               THEN /\ db' = [db EXCEPT ![d][k] = Effect(p[1], p[2], @)]
                    /\ keys' = [keys EXCEPT ![d] = @ \cup {k}]
               ELSE UNCHANGED <<db, keys>>
            /\ mig' = [mig EXCEPT !.pieces = @ \ {p}]
        /\ UNCHANGED <<slots, shards, task, history>>

\* Mutant: the source keeps its copy of a key it has sent.
DeleteMovedNot ==
    /\ MigAt("copy") /\ mig.pieces = {}
    /\ mig' = [mig EXCEPT !.key = NoData, !.pc = "keys"]
    /\ UNCHANGED <<nodevars, task, history>>

\* db.delete(key)
DeleteMoved ==
    /\ MigAt("copy") /\ mig.pieces = {}
    /\ db' = [db EXCEPT ![mig.src][mig.key] = NoData]
    /\ mig' = [mig EXCEPT !.key = NoData, !.pc = "keys"]
    /\ UNCHANGED <<slots, shards, keys, task, history>>

Migrated ==
    /\ MigAt("keys") /\ mig.keys = {}
    /\ mig' = Idle /\ Answered
    /\ UNCHANGED <<nodevars, history>>

MigrateStep ==
    \/ Reshard \/ SaveSlots \/ AddSlots \/ SaveAdded
    \/ ReadKey \/ CopyPiece \/ DeleteMoved \/ Migrated
-----------------------------------------------------------------------------
(* A node stops (its threads end, their callers see the connection close)  *)
(* and starts from its database.                                           *)

\* Mutant: the task of a node survives its stop.
StopTaskGoesOn(n) ==
    /\ n \in up /\ up' = up \ {n}
    /\ stops < MaxStops /\ stops' = stops + 1
    /\ mig' = IF mig # Idle /\ mig.src = n THEN Idle ELSE mig
    /\ UNCHANGED <<known, nodevars, history, tasks, cmd, task>>

\* The commands that node n forwarded wait no more.
Dropped(path, n) == [i \in DOMAIN path |-> IF path[i] = n THEN Idle ELSE path[i]]

Stop(n) ==
    /\ n \in up /\ up' = up \ {n}
    /\ stops < MaxStops /\ stops' = stops + 1
    /\ cmd' = [c \in Clients |->
                IF cmd[c] = Idle THEN Idle
                ELSE LET r == [cmd[c] EXCEPT !.path = Dropped(@, n)]
                     IN  IF r.node = n THEN Resume(r) ELSE r]
    /\ mig' = IF mig = Idle THEN Idle
              ELSE IF mig.src = n THEN Idle
              ELSE IF mig.dst = n /\ mig.pc = "added"
                   THEN [mig EXCEPT !.pc = "keys"] ELSE mig
    /\ task' = IF task = Idle THEN Idle
               ELSE IF task.at = n THEN Idle
               ELSE IF task.pc = "wait" /\ mig # Idle /\ mig.src = n
                    THEN Proceed(task) ELSE task
    /\ Disturb({k \in Keys : Moving(k) \/ InUse(k)})
    /\ UNCHANGED <<known, nodevars, tasks>>

Start(n) ==
    /\ n \notin up /\ up' = up \cup {n}
    /\ known' = [known EXCEPT ![n] = @ \cup {n}]
    /\ slots' = [slots EXCEPT ![n] = shards[n]]
    /\ keys' = [keys EXCEPT ![n] = {k \in Keys : db[n][k] # NoData}]
    /\ UNCHANGED <<shards, db, cmd, mig, task, history, tasks, stops>>

Next ==
    \/ \E c \in Clients :
        \/ CommandStep(c)
        \/ \E n \in Nodes, k \in Keys :
            \/ Request(c, n, "DELETE", k, NoData)
            \/ \E op \in {"SET", "SADD"}, v \in Values : Request(c, n, op, k, v)
    \/ Administer \/ TaskStep \/ Collected \/ MigrateStep
    \/ \E n \in Nodes : Stop(n) \/ Start(n)

Spec == Init /\ [][Next]_vars /\ WF_vars(TaskStep) /\ WF_vars(MigrateStep)
-----------------------------------------------------------------------------
TypeOK ==
    /\ up \subseteq Nodes /\ known \in [Nodes -> SUBSET Nodes]
    /\ slots \in [Nodes -> SUBSET (Slots \cup {Blank})]
    /\ shards \in [Nodes -> SUBSET (Slots \cup {Blank})]
    /\ keys \in [Nodes -> SUBSET Keys] /\ db \in [Nodes -> [Keys -> Data]]
    /\ cmd \in [Clients -> Command \cup {Idle}] /\ mig \in Migration \cup {Idle}
    /\ task \in Task \cup {Idle} /\ (task # Idle => task.at \in up)
    /\ truth \in [Keys -> Data] /\ disturbed \subseteq Keys /\ {tasks, stops} \subseteq Nat

\* The slots a node answers for, now or after a restart.
Holds(n) == Slots \cap (shards[n] \cup (IF n \in up THEN slots[n] ELSE {}))

\* No two nodes ever hold a slot, in memory or in the database they would start
\* from, whatever stops between the steps of a migration: LocalNode#migrate
\* gives slots away on disk before the destination gets them.
SlotsDisjoint ==
    \A n, m \in Nodes : n # m => Holds(n) \cap Holds(m) = {}

\* While no node was stopped every slot is on some node or in the hands of a
\* migration, if only newcomers are met: Cluster#reshard and forget lose none,
\* since then all nodes of a cluster know each other (ClusterNode#gossip).
NoSlotLost ==
    MeetNewcomers /\ stops = 0 => Slots \subseteq
        (UNION {slots[n] : n \in Nodes}) \cup (IF mig # Idle THEN mig.slots ELSE {})

\* A key that no command used while its slot was moving, that no two commands
\* used at once, and whose migrations were not cut by a stop, is where its slot is, with the value the commands
\* gave it, nowhere else, and known to the shard (LocalNode#migrate,
\* Command#forward, DELETE's second delete).
MigrationKeepsData ==
    \A k \in Keys \ disturbed : ~Moving(k) /\ ~InUse(k) =>
        /\ truth[k] # NoData => \E n \in Nodes : SlotOf[k] \in shards[n]
        /\ \A n \in Nodes :
            /\ db[n][k] = IF SlotOf[k] \in shards[n] THEN truth[k] ELSE NoData
            /\ n \in up => (k \in keys[n] <=> db[n][k] # NoData)

\* "All key shards of all cluster nodes combined contain every possible key"
\* (keyshard.rb), whenever no migration is in progress and though no node was
\* ever stopped.
SlotsCovered ==
    stops = 0 /\ mig = Idle => Slots \subseteq UNION {slots[n] : n \in Nodes}

\* A node that was told to forget itself has no slots left: forget counts down
\* all of them, the remainder of the division included.
ForgottenEmpty ==
    stops = 0 => \A n \in Nodes : n \notin known[n] => slots[n] \cap Slots = {}

\* MEET, RESHARD and FORGET end, unless a node was stopped: the loop of reshard
\* does not go on for ever though it never looks at the slots again.
TaskEnds == task # Idle ~> task = Idle \/ stops > 0
=============================================================================
