-------------------------- MODULE ClusterKeptProofs --------------------------
(***************************************************************************)
(* Two theorems about slots that move while no node is stopped, for any     *)
(* number of nodes, slots, keys and clients:                                *)
(*  - a node that was told to forget itself has no slots (ForgetInv: what a *)
(*    task has still to move is no less than what is there);                *)
(*  - no slot is lost (KeptInv: who knows whom, while news go round and     *)
(*    when they have, and hence that a destination takes what it is sent).  *)
(***************************************************************************)
EXTENDS ClusterProofs

\* Forgotten nodes.  A node that was stopped may miss the news, and a task that
\* is cut may leave slots behind: stops = 0.

\* The states of a task that gives or takes slots.
Shares == {"round", "next", "wait", "hung"}

\* The steps each kind of task takes.
Kinds ==
    task # Idle =>
        /\ task.pc \in Shares => task.kind # "meet"
        /\ task.pc = "round" => task.kind # "one"
        /\ task.pc = "met" => task.kind = "meet"
        /\ task.pc = "gossip" => task.kind \in {"meet", "forget"}

\* While no node was stopped, a migration runs for the task that waits for it,
\* and FORGET migrates away from the node to be forgotten only.
Calm ==
    stops = 0 =>
        /\ up = Nodes
        /\ mig # Idle => task # Idle /\ task.pc = "wait"
        /\ task # Idle /\ task.kind = "forget" =>
            /\ task.news = {task.node}
            /\ task.pc \in Shares => task.node \notin task.left
            /\ mig # Idle => mig.src = task.node /\ mig.dst # task.node

\* The slots a task still has to move, the request under way included.
Left == task.num + (IF mig # Idle /\ mig.pc = "reshard" THEN mig.num ELSE 0)

\* FORGET counts down no faster than slots leave, if the node answers.
Leaving ==
    stops = 0 /\ task # Idle /\ task.kind = "forget" /\ task.at \in known[task.node] =>
        /\ task.pc \in Shares =>
            /\ task.node \in known[task.node]
            /\ slots[task.node] = {} \/ Cardinality(slots[task.node]) <= Left
        /\ task.pc = "gossip" => slots[task.node] = {}

\* Types, and the steps of a task.
Shaped == Typed /\ Kinds

\* The invariant behind ForgottenEmpty.
ForgetInv == Shaped /\ Calm /\ Leaving /\ ForgottenEmpty

\* What ForgetInv is about.
nodestate == <<up, known, slots, mig, task, stops>>

\* Steps that leave nodes, slots, task and migration alone: the commands.
LEMMA ForgetUntouched == ForgetInv /\ Shaped' /\ UNCHANGED nodestate => ForgetInv'
BY DEF ForgetInv, Calm, Leaving, Left, ForgottenEmpty, nodestate

\* A task that goes on after a share, or ends.
LEMMA ProceedShape ==
    ASSUME NEW t \in Task, t.pc \in Shares
    PROVE  LET u == Proceed(t)
           IN  u # Idle => /\ u.pc \in {"round", "next"} /\ u.kind # "one"
                           /\ u.kind = t.kind /\ u.at = t.at /\ u.node = t.node
                           /\ u.num = t.num /\ u.left = t.left /\ u.news = t.news
                           /\ u.dist = t.dist
BY DEF Proceed, Task

\* A task never takes a step of a task of another kind: RESHARD from one node
\* ends after one share, and only FORGET and MEET gossip (cluster.rb).
LEMMA KindsNext == Shaped /\ Typed' /\ [Next]_vars => Kinds'
<1>1. SUFFICES ASSUME Typed, Kinds, [Next]_vars, task' # task, task' # Idle PROVE Kinds'
  BY DEF Shaped, Kinds
<1>2. CASE Administer
  <2>1. ASSUME NEW a, NEW m, Meet(a, m) PROVE Kinds'
    BY <2>1 DEF Meet, Kinds, Shares
  <2>2. ASSUME NEW a, NEW m, Forget(a, m) PROVE Kinds'
    BY <2>2 DEF Forget, Starts, Kinds, Shares
  <2>3. ASSUME NEW a, NEW m, NEW num, ReshardAll(a, num, m) PROVE Kinds'
    BY <2>3 DEF ReshardAll, Starts, Kinds, Shares
  <2>4. ASSUME NEW a, NEW m, NEW num, NEW src, ReshardOne(a, num, src, m) PROVE Kinds'
    BY <2>4 DEF ReshardOne, Starts, Kinds, Shares
  <2> QED
    BY <1>2, <2>1, <2>2, <2>3, <2>4, Zenon DEF Administer
<1>3. ASSUME task # Idle, task.pc \in Shares,
             task' = Proceed(task) \/ task' = [task EXCEPT !.pc = "hung"]
      PROVE  Kinds'
  BY <1>1, <1>3, ProceedShape DEF Kinds, Shares, Typed, TypeOK, Task
<1>4. CASE Round
  <2>1. /\ task # Idle /\ task.pc = "round"
        /\ \/ task.kind # "all" /\ task' = [task EXCEPT !.left = known[task.at], !.pc = "gossip"]
           \/ \E p : task' = [task EXCEPT !.per = p, !.left = Sources(task), !.pc = "next"]
    BY <1>1, <1>4, Zenon DEF Round, TaskAt
  <2>2. task \in Task
    BY <1>1, <2>1, Zenon DEF Typed, TypeOK
  <2> QED
    BY <1>1, <2>1, <2>2, Zenon DEF Kinds, Shares, Task
<1>5. CASE Migrate
  <2>1. PICK n, L : LET t == [task EXCEPT !.num = n, !.left = L]
                    IN  task' = [t EXCEPT !.pc = "wait"] \/ task' = [t EXCEPT !.pc = "hung"]
                        \/ task' = Proceed(t)
    BY <1>5, Zenon DEF Migrate
  <2> DEFINE t == [task EXCEPT !.num = n, !.left = L]
  <2>2. task # Idle /\ task.pc = "next"
    BY <1>5 DEF Migrate, TaskAt
  <2>3. task \in Task /\ task.kind # "meet"
    BY <1>1, <2>2 DEF Typed, TypeOK, Kinds, Shares
  <2>4. t.kind = task.kind /\ t.pc = "next" /\ DOMAIN t = DOMAIN task
        /\ t = [f \in DOMAIN t |-> t[f]]
    BY <2>2, <2>3, Zenon DEF Task
  <2>5. DOMAIN t = {"kind", "at", "node", "num", "dist", "per", "left", "news", "pc"}
    BY <2>3, <2>4 DEF Task
  <2>6. task' = [t EXCEPT !.pc = "wait"] \/ task' = [t EXCEPT !.pc = "hung"] \/ task' = Proceed(t)
    BY <2>1
  <2> HIDE DEF t
  <2> QED
    BY <1>1, <2>3, <2>4, <2>5, <2>6 DEF Kinds, Shares, Proceed
<1>6. CASE Met \/ Gossip \/ GossipSent
  <2>1. PICK N, L : task # Idle /\ (task.pc = "met" \/ task.pc = "gossip")
        /\ task' = [task EXCEPT !.news = N, !.left = L, !.pc = "gossip"]
    <3>1. CASE Met
      BY <3>1, Zenon DEF Met, TaskAt
    <3>2. CASE Gossip
      <4>1. task # Idle /\ task.pc = "gossip" /\ task \in Task
        BY <1>1, <3>2 DEF Gossip, TaskAt, Typed, TypeOK
      <4>2. PICK m \in task.left : task' = [task EXCEPT !.left = task.left \ {m}]
        BY <1>1, <3>2, Zenon DEF Gossip
      <4>3. task' = [task EXCEPT !.news = task.news, !.left = task.left \ {m}, !.pc = "gossip"]
        BY <4>1, <4>2, Zenon DEF Task
      <4> QED
        BY <4>1, <4>3, Zenon
    <3>3. CASE GossipSent
      BY <1>1, <3>3, Zenon DEF GossipSent
    <3> QED
      BY <1>6, <3>1, <3>2, <3>3, Zenon
  <2>2. task \in Task
    BY <1>1, <2>1 DEF Typed, TypeOK
  <2> QED
    BY <1>1, <2>1, <2>2 DEF Kinds, Shares, Task
<1>7. CASE Collected
  BY <1>3, <1>7 DEF Collected, TaskAt, Shares
<1>8. CASE MigrateStep
  <2>1. Answered \/ Failed
    BY <1>1, <1>8, Zenon
       DEF MigrateStep, Reshard, SaveSlots, AddSlots, SaveAdded, ReadKey,
           CopyPiece, DeleteMoved, Migrated
  <2> QED
    BY <1>1, <1>3, <2>1 DEF Answered, Failed, Shares
<1>9. ASSUME NEW n \in Nodes, Stop(n) PROVE Kinds'
  BY <1>1, <1>3, <1>9 DEF Stop, Shares
<1>10. UNCHANGED task => FALSE
  BY <1>1
<1> QED
  BY <1>1, <1>2, <1>4, <1>5, <1>6, <1>7, <1>8, <1>9, <1>10, Zenon
     DEF Next, vars, TaskStep, Start, CommandStep, CheckOwner, WhereIs,
         NotFound, Forward, StoreData, ShardKey, At, Request

\* The steps of a task move no slots themselves.
LEMMA TaskStepAt ==
    ASSUME TaskStep \/ Collected
    PROVE  task # Idle /\ UNCHANGED <<up, slots, stops>>
<1>1. ASSUME NEW pc, TaskAt(pc) PROVE task # Idle /\ UNCHANGED <<up, slots, stops>>
  BY <1>1 DEF TaskAt, nodevars
<1>2. CASE Round
  BY <1>1, <1>2, Zenon DEF Round
<1>3. CASE Migrate
  BY <1>1, <1>3, Zenon DEF Migrate
<1>4. CASE Met
  BY <1>1, <1>4, Zenon DEF Met
<1>5. CASE Gossip
  BY <1>1, <1>5, Zenon DEF Gossip
<1>6. CASE GossipSent
  BY <1>1, <1>6, Zenon DEF GossipSent
<1>7. CASE Collected
  BY <1>1, <1>7, Zenon DEF Collected
<1> QED
  BY <1>2, <1>3, <1>4, <1>5, <1>6, <1>7 DEF TaskStep

\* A MIGRATE request: the migration of a share of x slots begins if the source
\* serves the request.
LEMMA MigrateShape ==
    ASSUME Shaped, Migrate
    PROVE  \E m \in task.left, x \in Nat :
        LET src == IF task.kind = "forget" THEN task.node ELSE m
            dst == IF task.kind = "forget" THEN m ELSE task.node
        IN  /\ task # Idle /\ task.pc = "next" /\ mig = Idle /\ UNCHANGED known
            /\ task' # Idle =>
                /\ task'.at = task.at /\ task'.node = task.node /\ task'.kind = task.kind
                /\ task'.num = task.num - x /\ task'.left = task.left \ {m}
                /\ task'.news = task.news /\ task'.dist = task.dist
                /\ task'.pc \in Shares
            /\ IF Serves(src, task.at)
               THEN /\ task' # Idle /\ task'.pc = "wait" /\ mig' # Idle
                    /\ mig'.src = src /\ mig'.dst = dst /\ mig'.num = x
                    /\ mig'.slots = {} /\ mig'.pc = "reshard"
               ELSE mig' = Idle /\ (task' # Idle => task'.pc # "wait")
<1>1. task # Idle /\ task.pc = "next" /\ mig = Idle /\ UNCHANGED known
  BY DEF Migrate, TaskAt
<1>2. task \in Task
  BY <1>1 DEF Shaped, Typed, TypeOK
<1>3. PICK m \in task.left :
        LET x == IF task.kind = "all" THEN Min2(task.per, task.dist[m])
                 ELSE task.per
            src == IF task.kind = "forget" THEN task.node ELSE m
            dst == IF task.kind = "forget" THEN m ELSE task.node
            t == [task EXCEPT !.num = @ - x, !.left = @ \ {m}]
        IN  /\ IF Serves(src, task.at)
               THEN /\ task' = [t EXCEPT !.pc = "wait"]
                    /\ mig' = [src |-> src, dst |-> dst, num |-> x,
                               slots |-> {}, keys |-> {}, key |-> NoData,
                               pieces |-> {}, pc |-> "reshard"]
               ELSE /\ task' = IF Accepts(src, task.at)
                               THEN [t EXCEPT !.pc = "hung"] ELSE Proceed(t)
                    /\ UNCHANGED mig
  BY Zenon DEF Migrate
<1> DEFINE x == IF task.kind = "all" THEN Min2(task.per, task.dist[m]) ELSE task.per
           src == IF task.kind = "forget" THEN task.node ELSE m
           dst == IF task.kind = "forget" THEN m ELSE task.node
           num == task.num - x
           t == [task EXCEPT !.num = num, !.left = @ \ {m}]
           M == [src |-> src, dst |-> dst, num |-> x, slots |-> {}, keys |-> {},
                 key |-> NoData, pieces |-> {}, pc |-> "reshard"]
<1>4. x \in Nat /\ num \in Int /\ m \in Nodes /\ src \in Nodes /\ dst \in Nodes
  BY <1>2 DEF Task, Min2
<1>5. IF Serves(src, task.at) THEN task' = [t EXCEPT !.pc = "wait"] /\ mig' = M
      ELSE UNCHANGED mig /\ (task' = [t EXCEPT !.pc = "hung"] \/ task' = Proceed(t))
  BY <1>3
<1> HIDE DEF x, src, dst
<1>6. M \in Migration /\ M.src = src /\ M.dst = dst /\ M.num = x /\ M.slots = {} /\ M.pc = "reshard"
  BY <1>4 DEF Migration
<1> HIDE DEF M, num
<1>7. /\ t.at = task.at /\ t.node = task.node /\ t.kind = task.kind /\ t.num = num
      /\ t.left = task.left \ {m} /\ t.news = task.news /\ t.dist = task.dist
      /\ t.pc = "next" /\ t \in Task
  BY <1>1, <1>2, <1>4, Zenon DEF Task
<1> HIDE DEF t
<1>8. ASSUME NEW pc \in {"wait", "hung"}, NEW u, u = [t EXCEPT !.pc = pc]
      PROVE  /\ u \in Task /\ u.at = t.at /\ u.node = t.node /\ u.kind = t.kind /\ u.num = t.num
             /\ u.left = t.left /\ u.news = t.news /\ u.dist = t.dist /\ u.pc = pc
  BY <1>7, <1>8 DEF Task
<1>9. CASE Serves(src, task.at)
  <2>1. /\ task' \in Task /\ task'.at = t.at /\ task'.node = t.node /\ task'.kind = t.kind
        /\ task'.num = t.num /\ task'.left = t.left /\ task'.news = t.news
        /\ task'.dist = t.dist /\ task'.pc = "wait"
    BY <1>5, <1>8, <1>9
  <2>2. mig' = M
    BY <1>5, <1>9
  <2>3. task' # Idle /\ mig' # Idle
    BY <1>6, <2>1, <2>2, IdleAssumption
  <2> QED
    BY <1>1, <1>4, <1>6, <1>7, <1>9, <2>1, <2>2, <2>3 DEF Shares, src, dst, num
<1>10. CASE ~Serves(src, task.at)
  <2>1. UNCHANGED mig /\ (task' = [t EXCEPT !.pc = "hung"] \/ task' = Proceed(t))
    BY <1>5, <1>10
  <2>2. Proceed(t) # Idle =>
            /\ Proceed(t).pc \in {"round", "next"}
            /\ Proceed(t).kind = t.kind /\ Proceed(t).at = t.at /\ Proceed(t).node = t.node
            /\ Proceed(t).num = t.num /\ Proceed(t).left = t.left /\ Proceed(t).news = t.news
            /\ Proceed(t).dist = t.dist
    BY <1>7, ProceedShape DEF Shares
  <2>3. task' # Idle =>
            /\ task'.at = t.at /\ task'.node = t.node /\ task'.kind = t.kind
            /\ task'.num = t.num /\ task'.left = t.left /\ task'.news = t.news
            /\ task'.dist = t.dist /\ task'.pc \in {"hung", "round", "next"}
    BY <1>8, <2>1, <2>2
  <2> QED
    BY <1>1, <1>4, <1>7, <1>10, <2>1, <2>3 DEF Shares, src, dst, num
<1> QED
  BY <1>9, <1>10

\* A step of a migration leaves its ends and the nodes alone; the task hears of
\* its end.
LEMMA MigrateStepShape ==
    ASSUME Typed, MigrateStep
    PROVE  /\ mig # Idle /\ UNCHANGED <<up, known, stops>>
           /\ mig' # Idle => /\ mig'.src = mig.src /\ mig'.dst = mig.dst
                             /\ mig'.pc # "reshard" /\ UNCHANGED task
           /\ mig' = Idle => mig.pc # "reshard" /\ (Answered \/ Failed)
<1>1. ASSUME NEW pc, MigAt(pc)
      PROVE  mig # Idle /\ mig.pc = pc /\ mig \in Migration /\ UNCHANGED <<up, known, stops>>
  BY <1>1 DEF MigAt, Typed, TypeOK
<1>2. CASE Reshard
  <2>1. MigAt("reshard") /\ UNCHANGED task
    BY <1>2, Zenon DEF Reshard
  <2>2. PICK S, K : mig' = [mig EXCEPT !.slots = S, !.keys = K, !.pc = "save"]
    BY <1>2, Zenon DEF Reshard
  <2>3. mig \in Migration
    BY <1>1, <2>1
  <2>4. mig'.src = mig.src /\ mig'.dst = mig.dst /\ mig'.pc = "save" /\ mig'.slots = S
        /\ mig'.keys = K
    BY <2>2, <2>3 DEF Migration
  <2>5. S \subseteq slots[mig.src] /\ K \subseteq keys[mig.src]
    <3>1. mig'.slots \subseteq slots[mig.src] /\ mig'.keys \subseteq keys[mig.src]
      <4>1. PICK T \in SUBSET slots[mig.src] :
                mig' = [mig EXCEPT !.slots = T, !.keys = {k \in keys[mig.src] : SlotOf[k] \in T},
                                   !.pc = "save"]
        BY <1>2, Zenon DEF Reshard
      <4> QED
        BY <2>3, <4>1 DEF Migration
    <3> QED
      BY <2>4, <3>1
  <2>6. S \subseteq Slots \cup {Blank} /\ K \subseteq Keys
    BY <2>3, <2>5 DEF Typed, TypeOK, Migration
  <2>7. mig' \in Migration
    BY <2>2, <2>3, <2>6, Zenon DEF Migration
  <2> QED
    BY <1>1, <2>1, <2>4, <2>7, IdleAssumption
<1>3. CASE SaveSlots
  <2>1. /\ MigAt("save") /\ UNCHANGED task
        /\ mig' = [mig EXCEPT !.slots = mig.slots \ {Blank}, !.pc = "add"]
    BY <1>3 DEF SaveSlots
  <2>2. mig' \in Migration /\ mig'.src = mig.src /\ mig'.dst = mig.dst /\ mig'.pc = "add"
    BY <1>1, <2>1, Zenon DEF Migration
  <2> QED
    BY <1>1, <2>1, <2>2, IdleAssumption
<1>4. ASSUME NEW pc \in {"add", "added"}, NEW p \in {"added", "keys"}, MigAt(pc), UNCHANGED task,
             mig' = [mig EXCEPT !.pc = p]
      PROVE  /\ mig # Idle /\ UNCHANGED <<up, known, stops>> /\ mig' # Idle /\ UNCHANGED task
             /\ mig'.src = mig.src /\ mig'.dst = mig.dst /\ mig'.pc = p
  <2>1. mig' \in Migration /\ mig'.src = mig.src /\ mig'.dst = mig.dst /\ mig'.pc = p
    BY <1>1, <1>4 DEF Migration
  <2> QED
    BY <1>1, <1>4, <2>1, IdleAssumption
<1>5. CASE AddSlots
  <2>1. /\ MigAt("add")
        /\ \/ mig' = [mig EXCEPT !.pc = "added"] /\ UNCHANGED task
           \/ mig' = [mig EXCEPT !.pc = "keys"] /\ UNCHANGED task
           \/ mig' = Idle /\ Failed
    BY <1>5 DEF AddSlots
  <2> QED
    BY <1>1, <1>4, <2>1
<1>6. CASE SaveAdded
  BY <1>4, <1>6 DEF SaveAdded
<1>7. CASE ReadKey
  <2>1. MigAt("keys") /\ UNCHANGED task
    BY <1>7 DEF ReadKey
  <2>2. PICK k \in mig.keys :
            mig' = [mig EXCEPT !.key = k, !.pieces = Pieces(db[mig.src][k]),
                               !.keys = mig.keys \ {k}, !.pc = "copy"]
    BY <1>7, Zenon DEF ReadKey
  <2>3. mig \in Migration /\ k \in Keys /\ mig.src \in Nodes
    BY <1>1, <2>1 DEF Migration
  <2>4. Pieces(db[mig.src][k]) \in SUBSET ({"SET", "SADD"} \X Values)
    BY <2>3, PiecesTyped DEF Typed, TypeOK
  <2>5. mig' \in Migration /\ mig'.src = mig.src /\ mig'.dst = mig.dst /\ mig'.pc = "copy"
    BY <2>2, <2>3, <2>4, Zenon DEF Migration
  <2> QED
    BY <1>1, <2>1, <2>5, IdleAssumption
<1>8. CASE CopyPiece
  <2>1. MigAt("copy") /\ UNCHANGED task
    BY <1>8, Zenon DEF CopyPiece
  <2>2. PICK p : mig' = [mig EXCEPT !.pieces = mig.pieces \ {p}]
    BY <1>8, Zenon DEF CopyPiece
  <2>3. mig' \in Migration /\ mig'.src = mig.src /\ mig'.dst = mig.dst /\ mig'.pc = mig.pc
    BY <1>1, <2>1, <2>2 DEF Migration
  <2> QED
    BY <1>1, <2>1, <2>3, IdleAssumption
<1>9. CASE DeleteMoved
  <2>1. MigAt("copy") /\ UNCHANGED task /\ mig' = [mig EXCEPT !.key = NoData, !.pc = "keys"]
    BY <1>9 DEF DeleteMoved
  <2>2. mig' \in Migration /\ mig'.src = mig.src /\ mig'.dst = mig.dst /\ mig'.pc = "keys"
    BY <1>1, <2>1, Zenon DEF Migration
  <2> QED
    BY <1>1, <2>1, <2>2, IdleAssumption
<1>10. CASE Migrated
  <2>1. MigAt("keys") /\ mig' = Idle /\ Answered
    BY <1>10 DEF Migrated
  <2> QED
    BY <1>1, <2>1
<1> QED
  BY <1>2, <1>3, <1>5, <1>6, <1>7, <1>8, <1>9, <1>10 DEF MigrateStep

\* FORGET starts with all the slots to give away; a node counted as having none
\* because it does not answer has none (ForgottenEmpty).
LEMMA ForgetAdminister == ForgetInv /\ Shaped' /\ Administer => ForgetInv'
<1>1. SUFFICES ASSUME ForgetInv, Shaped', Administer PROVE ForgetInv'
  OBVIOUS
<1>2. SUFFICES ASSUME stops' = 0 PROVE ForgetInv'
  BY <1>1 DEF ForgetInv, Calm, Leaving, ForgottenEmpty
<1>3. ASSUME NEW a \in Nodes, Ready(a), UNCHANGED stops
      PROVE  /\ task = Idle /\ mig = Idle /\ stops = 0 /\ up = Nodes /\ a \in up
             /\ \A m \in known[a] : Accepts(m, a) => m \in known[m]
  BY <1>1, <1>2, <1>3 DEF Ready, ForgetInv, Calm
<1>5. ASSUME NEW a \in Nodes, NEW f \in Nodes, Forget(a, f) PROVE ForgetInv'
  <2> DEFINE t == [kind |-> "forget", at |-> a, node |-> f, num |-> SlotCount(f, a),
                   dist |-> [m \in Nodes |-> 0],
                   per |-> 0, left |-> {}, news |-> {f}, pc |-> "round"]
  <2>1. task' = t /\ UNCHANGED <<up, known, slots, mig, stops>> /\ Ready(a) /\ f \in known[a]
    BY <1>5 DEF Forget, Starts, nodevars
  <2>2. /\ mig = Idle /\ stops = 0 /\ up = Nodes
        /\ a \in known[f] => f \in known[f]
    BY <1>3, <2>1 DEF Accepts
  <2>3. a \in known[f] => SlotCount(f, a) = Cardinality(slots[f])
    BY <2>2 DEF SlotCount, Serves, Accepts
  <2>4. /\ t.kind = "forget" /\ t.at = a /\ t.node = f /\ t.num = SlotCount(f, a)
        /\ t.left = {} /\ t.news = {f} /\ t.pc = "round"
    OBVIOUS
  <2>5. SlotCount(f, a) \in Nat
    BY <1>1, SlotCountTyped DEF ForgetInv, Shaped, Typed
  <2> HIDE DEF t
  <2>6. Calm'
    BY <1>1, <2>1, <2>2, <2>4 DEF ForgetInv, Calm
  <2>7. Leaving'
    BY <2>1, <2>2, <2>3, <2>4, <2>5 DEF Leaving, Left
  <2> QED
    BY <1>1, <2>1, <2>6, <2>7 DEF ForgetInv, ForgottenEmpty
<1>6. ASSUME NEW a \in Nodes, NEW num \in Nat, NEW dst \in Nodes, ReshardAll(a, num, dst)
      PROVE  ForgetInv'
  <2>1. PICK d : Starts([kind |-> "all", at |-> a, node |-> dst, num |-> num, dist |-> d,
                    per |-> 0, left |-> {}, news |-> {}, pc |-> "round"])
    BY <1>6, Zenon DEF ReshardAll
  <2> QED
    BY <1>1, <1>3, <1>6, <2>1
       DEF ReshardAll, Starts, ForgetInv, Calm, Leaving, ForgottenEmpty, nodevars
<1>7. ASSUME NEW a \in Nodes, NEW num \in Nat, NEW src \in Nodes, NEW dst \in Nodes,
             ReshardOne(a, num, src, dst)
      PROVE  ForgetInv'
  <2>1. PICK d : Starts([kind |-> "one", at |-> a, node |-> dst, num |-> num, dist |-> d,
                    per |-> num, left |-> {src}, news |-> {}, pc |-> "next"])
    BY <1>7, Zenon DEF ReshardOne
  <2> QED
    BY <1>1, <1>3, <1>7, <2>1
       DEF ReshardOne, Starts, ForgetInv, Calm, Leaving, ForgottenEmpty, nodevars
<1>8. ASSUME NEW a \in Nodes, NEW m \in Nodes, Meet(a, m) PROVE ForgetInv'
  <2>1. PICK d : task' = [kind |-> "meet", at |-> a, node |-> m, num |-> 0,
                          dist |-> d, per |-> 0, left |-> {}, news |-> {}, pc |-> "met"]
    BY <1>8, Zenon DEF Meet
  <2>2. /\ known' = [known EXCEPT ![m] = @ \cup {a}] /\ Ready(a)
        /\ UNCHANGED <<up, slots, mig, stops>>
    BY <1>8 DEF Meet, auth_node, nodevars
  <2>3. \A n \in Nodes : n \notin known'[n] => n \notin known[n]
    BY <1>1, <2>2 DEF ForgetInv, Shaped, Typed, TypeOK
  <2> QED
    BY <1>1, <1>3, <2>1, <2>2, <2>3 DEF ForgetInv, Calm, Leaving, ForgottenEmpty
<1>9. \A num \in 0..MaxNum : num \in Nat
  BY ClusterAssumption
<1> QED
  BY <1>1, <1>5, <1>6, <1>7, <1>8, <1>9, Zenon DEF Administer


\* A step of the loops of reshard and forget, while the nodes and the slots stay
\* as they are: Left does not get less.
LEMMA ForgetShares ==
    ASSUME ForgetInv, Shaped', Calm', stops = 0, UNCHANGED <<known, slots, stops>>,
           task # Idle, task.pc \in Shares,
           task' # Idle =>
            /\ task'.at = task.at /\ task'.node = task.node /\ task'.kind = task.kind
            /\ task'.pc \in Shares => Left' = Left
            /\ task'.pc = "gossip" => Left <= 0
    PROVE  ForgetInv'
<1>1. CASE task' = Idle
  BY <1>1 DEF ForgetInv, Leaving, ForgottenEmpty
<1>2. CASE task' # Idle
  <2>1. task \in Task /\ task.node \in Nodes
    BY DEF ForgetInv, Shaped, Typed, TypeOK, Task
  <2>2. IsFiniteSet(slots[task.node]) /\ Cardinality(slots[task.node]) \in Nat
    BY <2>1, SlotsFinite DEF ForgetInv, Shaped, Typed
  <2>3. Left \in Int
    BY <2>1 DEF Left, ForgetInv, Shaped, Typed, TypeOK, Task, Migration
  <2>4. SUFFICES ASSUME task.kind = "forget", task.at \in known[task.node]
        PROVE /\ task'.pc \in Shares =>
                  /\ task.node \in known[task.node]
                  /\ slots[task.node] = {} \/ Cardinality(slots[task.node]) <= Left'
              /\ task'.pc = "gossip" => slots[task.node] = {}
    BY <1>2 DEF ForgetInv, Leaving, ForgottenEmpty
  <2>5. /\ task.node \in known[task.node]
        /\ slots[task.node] = {} \/ Cardinality(slots[task.node]) <= Left
    BY <2>4 DEF ForgetInv, Leaving
  <2>6. Left <= 0 => slots[task.node] = {}
    BY <2>5, <2>2, <2>3, FS_EmptySet
  <2> QED
    BY <1>2, <2>5, <2>6
<1> QED
  BY <1>1, <1>2

\* Every step of a task: a share is counted down as its request is sent, and the
\* news go out only when none is left to give.
LEMMA ForgetTaskStep == ForgetInv /\ Shaped' /\ (TaskStep \/ Collected) => ForgetInv'
<1>1. SUFFICES ASSUME ForgetInv, Shaped', TaskStep \/ Collected PROVE ForgetInv'
  OBVIOUS
<1>2. task # Idle /\ task \in Task /\ UNCHANGED <<up, slots, stops>>
  BY <1>1, TaskStepAt DEF ForgetInv, Shaped, Typed, TypeOK
<1>3. known \in [Nodes -> SUBSET Nodes] /\ task.at \in Nodes /\ task.node \in Nodes
      /\ task.num \in Int
  BY <1>1, <1>2 DEF ForgetInv, Shaped, Typed, TypeOK, Task
<1>4. CASE Round
  <2>1. /\ UNCHANGED <<known, mig>> /\ task.pc = "round"
        /\ \/ task' = Idle
           \/ /\ task.num <= 0 /\ task.kind # "all"
              /\ task' = [task EXCEPT !.left = known[task.at], !.pc = "gossip"]
           \/ \E p : task' = [task EXCEPT !.per = p, !.left = Sources(task), !.pc = "next"]
    BY <1>4, Zenon DEF Round, TaskAt
  <2>2. task' # Idle =>
            /\ task'.at = task.at /\ task'.node = task.node /\ task'.kind = task.kind
            /\ task'.num = task.num /\ task'.news = task.news
            /\ \/ task'.pc = "gossip" /\ task.num <= 0 /\ task.kind # "all"
               \/ task'.pc = "next" /\ (task.kind = "forget" => task.node \notin task'.left)
    <3>1. task.kind = "forget" => task.node \notin Sources(task)
      BY DEF Sources
    <3> QED
      BY <1>2, <2>1, <3>1, Zenon DEF Task
  <2>3. stops = 0 => mig = Idle
    BY <1>1, <1>2, <2>1, Zenon DEF ForgetInv, Calm
  <2>4. Calm'
    BY <1>1, <1>2, <2>1, <2>2, <2>3, Zenon DEF ForgetInv, Calm, Shares
  <2>5. ASSUME stops = 0, task' # Idle PROVE Left' = task.num /\ Left = task.num
    <3>1. mig = Idle /\ mig' = Idle /\ task'.num = task.num
      BY <2>1, <2>2, <2>3, <2>5, Zenon
    <3> QED
      BY <1>3, <3>1 DEF Left
  <2>6. CASE stops = 0
    BY <1>1, <1>2, <2>1, <2>2, <2>4, <2>5, <2>6, ForgetShares, Zenon DEF Shares
  <2>7. CASE stops # 0
    BY <1>1, <1>2, <2>4, <2>7 DEF ForgetInv, Leaving, ForgottenEmpty
  <2> QED
    BY <2>6, <2>7
<1>5. CASE Migrate
  <2>1. PICK m \in task.left, x \in Nat :
        LET src == IF task.kind = "forget" THEN task.node ELSE m
            dst == IF task.kind = "forget" THEN m ELSE task.node
        IN  /\ task # Idle /\ task.pc = "next" /\ mig = Idle /\ UNCHANGED known
            /\ task' # Idle =>
                /\ task'.at = task.at /\ task'.node = task.node /\ task'.kind = task.kind
                /\ task'.num = task.num - x /\ task'.left = task.left \ {m}
                /\ task'.news = task.news /\ task'.dist = task.dist
                /\ task'.pc \in Shares
            /\ IF Serves(src, task.at)
               THEN /\ task' # Idle /\ task'.pc = "wait" /\ mig' # Idle
                    /\ mig'.src = src /\ mig'.dst = dst /\ mig'.num = x
                    /\ mig'.slots = {} /\ mig'.pc = "reshard"
               ELSE mig' = Idle /\ (task' # Idle => task'.pc # "wait")
    BY <1>1, <1>5, MigrateShape DEF ForgetInv
  <2>2. Calm'
    BY <1>1, <1>2, <2>1 DEF ForgetInv, Calm, Shares
  <2>3. ASSUME stops = 0, task' # Idle, task.kind = "forget", task.at \in known[task.node]
        PROVE  Left' = Left
    <3>1. Serves(task.node, task.at)
      BY <1>1, <1>2, <1>3, <2>1, <2>3
         DEF ForgetInv, Calm, Leaving, Serves, Accepts, Shares
    <3>2. mig' # Idle /\ mig'.pc = "reshard" /\ mig'.num = x /\ task'.num = task.num - x
          /\ mig = Idle
      BY <2>1, <2>3, <3>1
    <3> QED
      BY <1>3, <3>2 DEF Left
  <2>4. CASE stops = 0 /\ task' # Idle /\ task.kind = "forget" /\ task.at \in known[task.node]
    BY <1>1, <1>2, <2>1, <2>2, <2>3, <2>4, ForgetShares DEF Shares
  <2>5. CASE ~(stops = 0 /\ task' # Idle /\ task.kind = "forget" /\ task.at \in known[task.node])
    BY <1>1, <1>2, <2>1, <2>2, <2>5 DEF ForgetInv, Leaving, ForgottenEmpty
  <2> QED
    BY <2>4, <2>5
<1>6. CASE Collected
  <2>1. task.pc = "hung" /\ task' = Proceed(task) /\ UNCHANGED <<known, mig>>
    BY <1>6 DEF Collected, TaskAt
  <2>2. task' # Idle =>
            /\ task'.at = task.at /\ task'.node = task.node /\ task'.kind = task.kind
            /\ task'.num = task.num /\ task'.left = task.left /\ task'.news = task.news
            /\ task'.pc \in {"round", "next"}
    BY <1>2, <2>1, ProceedShape DEF Shares
  <2>3. Calm'
    BY <1>1, <1>2, <2>1, <2>2 DEF ForgetInv, Calm, Shares
  <2>4. task' # Idle => Left' = Left
    BY <2>1, <2>2 DEF Left
  <2>5. CASE stops = 0
    BY <1>1, <1>2, <2>1, <2>2, <2>3, <2>4, <2>5, ForgetShares DEF Shares
  <2>6. CASE stops # 0
    BY <1>1, <1>2, <2>3, <2>6 DEF ForgetInv, Leaving, ForgottenEmpty
  <2> QED
    BY <2>5, <2>6
<1>7. CASE Met
  <2>1. task.pc = "met" /\ UNCHANGED mig /\ known' = [known EXCEPT ![task.at] = @ \cup {task.node}]
    BY <1>7 DEF Met, TaskAt
  <2>2. task.kind = "meet"
    BY <1>1, <1>2, <2>1 DEF ForgetInv, Shaped, Kinds
  <2>3. task' = [task EXCEPT !.news = known'[task.at], !.left = known'[task.at], !.pc = "gossip"]
    BY <1>7 DEF Met
  <2>4. task'.kind = "meet"
    BY <1>2, <2>2, <2>3 DEF Task
  <2>5. \A n \in Nodes : n \notin known'[n] => n \notin known[n]
    BY <1>3, <2>1
  <2>6. stops = 0 => mig = Idle
    BY <1>1, <1>2, <2>1 DEF ForgetInv, Calm
  <2> QED
    BY <1>1, <1>2, <2>1, <2>4, <2>5, <2>6 DEF ForgetInv, Calm, Leaving, ForgottenEmpty
<1>8. CASE Gossip \/ GossipSent
  <2>1. task.pc = "gossip" /\ UNCHANGED mig /\ (stops = 0 => mig = Idle /\ up = Nodes)
    BY <1>1, <1>2, <1>8 DEF Gossip, GossipSent, TaskAt, ForgetInv, Calm
  <2>2. task' # Idle =>
            /\ task'.at = task.at /\ task'.node = task.node /\ task'.kind = task.kind
            /\ task'.news = task.news /\ task'.pc = "gossip"
    BY <1>2, <1>8, <2>1 DEF Gossip, GossipSent, Task
  <2>3. Calm'
    BY <1>1, <1>2, <2>1, <2>2 DEF ForgetInv, Calm, Shares
  <2>4. CASE task.kind = "forget" /\ stops = 0
    <3>1. task.news = {task.node}
      BY <1>1, <1>2, <2>4 DEF ForgetInv, Calm
    <3>2. /\ \A n \in Nodes : known'[n] = known[n] \/ known'[n] = known[n] \ {task.node}
          /\ task.node \in known[task.node] /\ task.node \notin known'[task.node] =>
                task.at \in known[task.node]
      <4>1. CASE Gossip
        <5>1. PICK m \in task.left : known' = IF m # task.at /\ Accepts(m, task.at)
                    THEN [known EXCEPT ![m] = Gossiped(m)] ELSE known
          BY <4>1 DEF Gossip
        <5>2. m \in Nodes /\ Gossiped(m) = known[m] \ {task.node}
          BY <1>2, <2>4, <3>1 DEF Gossiped, Task
        <5> QED
          BY <1>3, <5>1, <5>2 DEF Accepts
      <4>2. CASE GossipSent
        BY <1>3, <2>4, <3>1, <4>2 DEF GossipSent
      <4> QED
        BY <1>8, <4>1, <4>2
    <3>3. task.at \in known[task.node] => slots[task.node] = {}
      BY <1>1, <1>2, <2>1, <2>4 DEF ForgetInv, Leaving
    <3>4. Leaving'
      BY <1>2, <1>3, <2>2, <3>2, <3>3 DEF Leaving, Shares
    <3>5. ForgottenEmpty'
      BY <1>1, <1>2, <1>3, <3>2, <3>3 DEF ForgetInv, ForgottenEmpty
    <3> QED
      BY <1>1, <2>3, <3>4, <3>5 DEF ForgetInv
  <2>5. CASE task.kind # "forget"
    <3>1. \A n \in Nodes : known[n] \subseteq known'[n]
      <4>1. task.kind = "meet"
        BY <1>1, <1>2, <2>1, <2>5 DEF ForgetInv, Shaped, Kinds
      <4>2. CASE Gossip
        <5>1. PICK m \in task.left : known' = known \/ known' = [known EXCEPT ![m] = Gossiped(m)]
          BY <4>2 DEF Gossip
        <5>2. known[m] \subseteq Gossiped(m)
          BY <4>1 DEF Gossiped
        <5> QED
          BY <1>3, <5>1, <5>2
      <4>3. CASE GossipSent
        BY <2>5, <4>3 DEF GossipSent
      <4> QED
        BY <1>8, <4>2, <4>3
    <3> QED
      BY <1>1, <1>2, <2>2, <2>3, <2>5, <3>1 DEF ForgetInv, Leaving, ForgottenEmpty
  <2>6. CASE stops # 0
    BY <1>1, <1>2, <2>3, <2>6 DEF ForgetInv, Leaving, ForgottenEmpty
  <2> QED
    BY <2>4, <2>5, <2>6
<1> QED
  BY <1>1, <1>4, <1>5, <1>6, <1>7, <1>8 DEF TaskStep

\* Every step of a migration: KeyShard#reshard takes as many slots as were asked
\* for, or all of them, and a node to be forgotten gets none.
LEMMA ForgetMigrateStep == ForgetInv /\ Shaped' /\ MigrateStep => ForgetInv'
<1>1. SUFFICES ASSUME ForgetInv, Shaped', MigrateStep PROVE ForgetInv'
  OBVIOUS
<1>2. /\ mig # Idle /\ mig \in Migration /\ UNCHANGED <<up, known, stops>>
      /\ mig' # Idle => /\ mig'.src = mig.src /\ mig'.dst = mig.dst
                        /\ mig'.pc # "reshard" /\ UNCHANGED task
      /\ mig' = Idle => mig.pc # "reshard" /\ (Answered \/ Failed)
  BY <1>1, MigrateStepShape DEF ForgetInv, Shaped, Typed, TypeOK
<1>3. CASE stops # 0
  BY <1>1, <1>2, <1>3 DEF ForgetInv, Calm, Leaving, ForgottenEmpty
<1>4. SUFFICES ASSUME stops = 0 PROVE ForgetInv'
  BY <1>3
<1>5. task # Idle /\ task \in Task /\ task.pc = "wait" /\ task.num \in Int /\ up = Nodes
      /\ task.node \in Nodes /\ task.at \in Nodes /\ mig.src \in Nodes /\ mig.dst \in Nodes
      /\ mig.num \in Nat
  BY <1>1, <1>2, <1>4, Zenon DEF ForgetInv, Shaped, Typed, TypeOK, Calm, Task, Migration
<1>6. CASE Reshard
  <2>1. PICK S \in SUBSET slots[mig.src] :
            /\ Cardinality(S) = Min2(mig.num, Cardinality(slots[mig.src]))
            /\ slots' = [slots EXCEPT ![mig.src] = @ \ S]
            /\ \E K : mig' = [mig EXCEPT !.slots = S, !.keys = K, !.pc = "save"]
    BY <1>6, Zenon DEF Reshard
  <2>2. UNCHANGED task /\ mig.pc = "reshard"
    BY <1>6 DEF Reshard, MigAt
  <2>3. mig'.pc = "save" /\ mig'.src = mig.src /\ mig'.dst = mig.dst
    BY <1>2, <2>1 DEF Migration
  <2>4. Calm'
    BY <1>1, <1>2, <1>5, <2>2, <2>3 DEF ForgetInv, Calm
  <2>5. \A n \in Nodes : slots'[n] \subseteq slots[n]
    BY <1>1, <2>1 DEF ForgetInv, Shaped, Typed, TypeOK
  <2>6. Leaving'
    <3>1. SUFFICES ASSUME task.kind = "forget", task.at \in known[task.node]
          PROVE  slots'[task.node] = {} \/ Cardinality(slots'[task.node]) <= task.num
      BY <1>1, <1>2, <1>4, <1>5, <2>2, <2>3 DEF ForgetInv, Leaving, Left, Shares
    <3>2. mig.src = task.node
      BY <1>1, <1>2, <1>4, <1>5, <3>1 DEF ForgetInv, Calm
    <3> DEFINE A == slots[task.node]
    <3>3. A = {} \/ Cardinality(A) <= task.num + mig.num
      BY <1>1, <1>2, <1>4, <1>5, <2>2, <3>1 DEF ForgetInv, Leaving, Left, Shares
    <3>4. slots'[task.node] = A \ S /\ IsFiniteSet(A) /\ Cardinality(A) \in Nat
      BY <1>1, <1>5, <2>1, <3>2, SlotsFinite DEF ForgetInv, Shaped, Typed, TypeOK
    <3> HIDE DEF A
    <3>5. S \subseteq A /\ Cardinality(S) = Min2(mig.num, Cardinality(A))
      BY <2>1, <3>2 DEF A
    <3>6. /\ Cardinality(A \ S) = Cardinality(A) - Cardinality(A \cap S)
          /\ IsFiniteSet(A \ S) /\ Cardinality(A \ S) \in Nat
      BY <3>4, FS_Difference, FS_CardinalityType, Zenon
    <3>7. A \cap S = S
      BY <3>5
    <3>8. CASE mig.num < Cardinality(A)
      <4>1. Cardinality(A \ S) = Cardinality(A) - mig.num
        BY <1>5, <3>5, <3>6, <3>7, <3>8 DEF Min2
      <4>2. A # {}
        BY <1>5, <3>8, FS_EmptySet
      <4> QED
        BY <1>5, <3>3, <3>4, <4>1, <4>2
    <3>9. CASE ~(mig.num < Cardinality(A))
      <4>1. Cardinality(A \ S) = 0
        <5>1. Cardinality(A \cap S) = Cardinality(A)
          BY <3>5, <3>7, <3>9 DEF Min2
        <5> QED
          BY <3>4, <3>6, <5>1
      <4> QED
        BY <3>4, <3>6, <4>1, FS_EmptySet
    <3> QED
      BY <3>8, <3>9
  <2> QED
    BY <1>1, <1>2, <1>4, <2>4, <2>5, <2>6, Zenon DEF ForgetInv, ForgottenEmpty
<1>7. CASE ~Reshard
  <2>1. /\ mig.pc # "reshard"
        /\ \A n \in Nodes : n \notin known[n] \/ n # mig.dst => slots'[n] = slots[n]
    <3>1. CASE AddSlots
      BY <1>1, <1>5, <3>1 DEF AddSlots, MigAt, Serves, ForgetInv, Shaped, Typed, TypeOK
    <3>2. CASE ~AddSlots
      BY <1>1, <1>7, <3>2, Zenon
         DEF MigrateStep, SaveSlots, SaveAdded, ReadKey, CopyPiece,
             DeleteMoved, Migrated, MigAt, nodevars
    <3> QED
      BY <3>1, <3>2
  <2>2. task' # Idle =>
            /\ task'.at = task.at /\ task'.node = task.node /\ task'.kind = task.kind
            /\ task'.num = task.num /\ task'.left = task.left /\ task'.news = task.news
            /\ task'.pc \in Shares /\ (mig' # Idle => task'.pc = "wait")
    <3>1. task' = task \/ task' = Proceed(task) \/ task' = [task EXCEPT !.pc = "hung"]
      BY <1>2 DEF Answered, Failed
    <3>2. \A u : u = [task EXCEPT !.pc = "hung"] =>
            /\ u.at = task.at /\ u.node = task.node /\ u.kind = task.kind
            /\ u.num = task.num /\ u.left = task.left /\ u.news = task.news
            /\ u.pc = "hung"
      BY <1>5 DEF Task
    <3> QED
      BY <1>2, <1>5, <3>1, <3>2, ProceedShape DEF Shares
  <2>3. Calm'
    BY <1>1, <1>2, <1>4, <1>5, <2>2 DEF ForgetInv, Calm, Shares
  <2>4. Leaving'
    <3>1. SUFFICES ASSUME task' # Idle, task.kind = "forget", task.at \in known[task.node]
          PROVE  /\ task.node \in known[task.node]
                 /\ slots'[task.node] = {} \/ Cardinality(slots'[task.node]) <= Left'
      BY <1>2, <1>4, <2>2 DEF Leaving, Shares
    <3>2. mig.dst # task.node
      BY <1>1, <1>2, <1>4, <1>5, <3>1 DEF ForgetInv, Calm
    <3>3. Left' = Left
      BY <1>2, <2>1, <2>2, <3>1 DEF Left
    <3>4. slots'[task.node] = slots[task.node]
      BY <1>5, <2>1, <3>2
    <3> QED
      BY <1>1, <1>4, <1>5, <3>1, <3>3, <3>4 DEF ForgetInv, Leaving, Shares
  <2>5. ForgottenEmpty'
    BY <1>1, <1>2, <1>4, <2>1 DEF ForgetInv, ForgottenEmpty
  <2> QED
    BY <1>1, <2>3, <2>4, <2>5 DEF ForgetInv
<1> QED
  BY <1>1, <1>6, <1>7

\* The invariant is inductive.
LEMMA ForgetNext == ForgetInv /\ [Next]_vars => ForgetInv'
<1>1. SUFFICES ASSUME ForgetInv, [Next]_vars PROVE ForgetInv'
  OBVIOUS
<1>2. Typed'
  BY <1>1, TypedNext DEF ForgetInv, Shaped
<1>3. Shaped'
  BY <1>1, <1>2, KindsNext DEF ForgetInv, Shaped
<1>4. CASE UNCHANGED nodestate
  BY <1>1, <1>3, <1>4, ForgetUntouched
<1>5. CASE UNCHANGED vars
  BY <1>4, <1>5 DEF vars, nodevars, nodestate
<1>6. ASSUME NEW c \in Clients, CommandStep(c) PROVE ForgetInv'
  BY <1>4, <1>6, Zenon
     DEF CommandStep, CheckOwner, WhereIs, NotFound, Forward, StoreData,
         ShardKey, At, nodestate
<1>7. ASSUME NEW c \in Clients, NEW n, NEW op, NEW k, NEW v, Request(c, n, op, k, v)
      PROVE  ForgetInv'
  BY <1>4, <1>7 DEF Request, nodevars, nodestate
<1>8. ASSUME NEW n \in Nodes, Stop(n) PROVE ForgetInv'
  <2>1. stops' # 0
    BY <1>1, <1>8 DEF Stop, ForgetInv, Shaped, Typed, TypeOK
  <2> QED
    BY <1>3, <2>1 DEF ForgetInv, Calm, Leaving, ForgottenEmpty
<1>9. ASSUME NEW n \in Nodes, Start(n) PROVE ForgetInv'
  <2>1. stops' # 0
    BY <1>1, <1>9 DEF Start, ForgetInv, Calm
  <2> QED
    BY <1>3, <2>1 DEF ForgetInv, Calm, Leaving, ForgottenEmpty
<1> QED
  BY <1>1, <1>3, <1>5, <1>6, <1>7, <1>8, <1>9, ForgetAdminister, ForgetTaskStep,
     ForgetMigrateStep
     DEF Next

\* Init: every node knows itself.
LEMMA ForgetInit == Init => ForgetInv
<1>1. SUFFICES ASSUME Init PROVE ForgetInv
  OBVIOUS
<1>2. Typed
  BY <1>1, TypedInit
<1>3. \A n \in Nodes : n \in known[n]
  BY <1>1 DEF Init
<1> QED
  BY <1>1, <1>2, <1>3 DEF Init, ForgetInv, Shaped, Kinds, Calm, Leaving, ForgottenEmpty

\* While no node was stopped, a node that was told to forget itself has no slots
\* left (Cluster#forget, the loop over `num_slots').
THEOREM ClusterForgottenEmpty == Spec => []ForgottenEmpty
<1>1. ForgetInv => ForgottenEmpty
  BY DEF ForgetInv
<1> QED
  BY <1>1, ForgetInit, ForgetNext, PTL DEF Spec

-----------------------------------------------------------------------------
\* Slots are not lost.

\* Those of X that have not forgotten themselves are known by whom they know, who
\* knows the same nodes.
Clique(k, X) == \A n \in X : n \in k[n] => \A m \in k[n] : k[m] = k[n]

\* No member outside N knows one of N.
Outside(k, N) == \A n \in Nodes \ N : n \in k[n] => k[n] \cap N = {}

\* All nodes of a cluster know each other, but while news go round.
Settled ==
    (task = Idle \/ task.pc \in Shares \/ (task.kind = "forget" /\ task.at \notin known[task.at]))
        => Clique(known, Nodes)

\* A task asks nodes its node knows.
Acquainted ==
    task # Idle /\ task.pc \in Shares =>
        /\ task.node \in known[task.at] /\ task.left \subseteq known[task.at]
        /\ \A m \in Nodes : task.dist[m] > 0 => m \in known[task.at]

\* The newcomer knows the inviting node, and nobody knows the newcomer.
InMet ==
    task # Idle /\ task.pc = "met" =>
        /\ task.at \in known[task.at] /\ task.at # task.node
        /\ task.at \in known[task.node] /\ known[task.node] \subseteq {task.at, task.node}
        /\ \A n \in Nodes \ {task.node} : n \in known[n] => task.node \notin known[n]
        /\ Clique(known, Nodes \ {task.node})

\* The news of MEET go round among the nodes that know each other and the newcomer.
InMeetGossip ==
    task # Idle /\ task.pc = "gossip" /\ task.kind = "meet" =>
        /\ task.at \in task.news /\ known[task.at] = task.news /\ task.left \subseteq task.news
        /\ \A x \in task.news :
            /\ known[x] \subseteq task.news /\ task.at \in known[x]
            /\ x \notin task.left => known[x] = task.news
        /\ Outside(known, task.news) /\ Clique(known, Nodes \ task.news)

\* The news of FORGET go round.
InForgetGossip ==
    task # Idle /\ task.pc = "gossip" /\ task.kind = "forget" /\ task.at \in known[task.at] =>
        LET C == known[task.at]
        IN  /\ task.node \in C /\ task.left \subseteq C
            /\ \A x \in C \ {task.at} :
                known[x] = IF x \in task.left THEN C ELSE C \ {task.node}
            /\ Outside(known, C) /\ Clique(known, Nodes \ C)

\* Who knows whom, at every step of a task.
Friends == Settled /\ Acquainted /\ InMet /\ InMeetGossip /\ InForgetGossip

\* The nodes that know each other are known by no other member.
LEMMA CliqueOutside ==
    ASSUME Typed, Clique(known, Nodes), NEW c \in Nodes, c \in known[c]
    PROVE  Outside(known, known[c])
<1>1. SUFFICES ASSUME NEW n \in Nodes \ known[c], n \in known[n], NEW y \in known[n] \cap known[c]
               PROVE FALSE
  BY DEF Outside
<1>2. known[y] = known[n] /\ known[y] = known[c]
  BY <1>1 DEF Clique
<1> QED
  BY <1>1, <1>2

\* Steps that change neither the task nor who knows whom.
LEMMA FriendsUntouched == Friends /\ UNCHANGED <<known, task>> => Friends'
BY DEF Friends, Settled, Acquainted, InMet, InMeetGossip, InForgetGossip,
       Clique, Outside

\* Between two requests to migrate nobody meets or forgets anybody.
LEMMA FriendsShares ==
    ASSUME Shaped, Friends, UNCHANGED known, task # Idle, task.pc \in Shares,
           task' # Idle => /\ task'.pc \in Shares /\ task'.at = task.at
                           /\ task'.node = task.node /\ task'.dist = task.dist
                           /\ task'.left \subseteq known[task.at]
    PROVE  Friends'
<1>1. Clique(known, Nodes) /\ Clique(known', Nodes)
  BY DEF Friends, Settled, Clique
<1>2. Settled'
  BY <1>1 DEF Settled
<1>3. Acquainted'
  BY DEF Friends, Acquainted
<1> QED
  BY <1>2, <1>3, Zenon DEF Friends, InMet, InMeetGossip, InForgetGossip, Shares

\* RESHARD and FORGET start when no news go round.
LEMMA FriendsBegin ==
    ASSUME Clique(known', Nodes), task'.pc \in Shares, Acquainted' PROVE Friends'
<1>1. task'.pc # "met" /\ task'.pc # "gossip"
  BY DEF Shares
<1>2. Settled'
  BY DEF Settled
<1> QED
  BY <1>1, <1>2 DEF Friends, InMet, InMeetGossip, InForgetGossip

\* An operation of the administrator begins when none goes on, and moves no slots.
LEMMA AdministerQuiet ==
    Administer => task = Idle /\ UNCHANGED <<slots, mig, stops>>
<1>1. SUFFICES ASSUME NEW a \in Nodes, NEW m \in Nodes,
                      \/ Meet(a, m) \/ Forget(a, m)
                      \/ \E num : ReshardAll(a, num, m)
                      \/ \E num, src : ReshardOne(a, num, src, m)
               PROVE  task = Idle /\ UNCHANGED <<slots, mig, stops>>
  BY Zenon DEF Administer
<1>2. ASSUME NEW t, Starts(t) PROVE UNCHANGED <<slots, mig, stops>>
  BY <1>2 DEF Starts, nodevars
<1>3. Ready(a) => task = Idle
  BY DEF Ready
<1>4. CASE Meet(a, m)
  BY <1>3, <1>4 DEF Meet, nodevars
<1>5. CASE ~Meet(a, m)
  BY <1>1, <1>2, <1>3, <1>5, Zenon DEF Forget, ReshardAll, ReshardOne
<1> QED
  BY <1>4, <1>5

\* RESHARD, FORGET and MEET start; MEET is met first by the newcomer
\* (LocalNode#auth and Cluster#cluster_meet).
LEMMA FriendsAdminister ==
    ASSUME Shaped, Friends, MeetNewcomers, Administer PROVE Friends'
<1>1. known \in [Nodes -> SUBSET Nodes]
  BY DEF Shaped, Typed, TypeOK
<1>2. ASSUME NEW a \in Nodes, Ready(a) PROVE task = Idle /\ Clique(known, Nodes)
  BY <1>2 DEF Ready, Friends, Settled
<1>3. ASSUME NEW a \in Nodes, NEW f \in Nodes, Forget(a, f) PROVE Friends'
  <2>1. PICK n : task' = [kind |-> "forget", at |-> a, node |-> f, num |-> n,
                          dist |-> [m \in Nodes |-> 0],
                          per |-> 0, left |-> {}, news |-> {f}, pc |-> "round"]
    BY <1>3, Zenon DEF Forget, Starts
  <2>2. UNCHANGED known /\ Ready(a) /\ f \in known[a]
    BY <1>3 DEF Forget, Starts
  <2>3. Clique(known', Nodes)
    BY <1>2, <2>2 DEF Clique
  <2>4. /\ task'.pc = "round" /\ task'.at = a /\ task'.node = f /\ task'.left = {}
        /\ \A m \in Nodes : task'.dist[m] = 0
    BY <2>1
  <2>5. Acquainted'
    BY <2>2, <2>4 DEF Acquainted
  <2> QED
    BY <2>3, <2>4, <2>5, FriendsBegin DEF Shares
<1>4. ASSUME NEW a \in Nodes, NEW num, NEW dst \in Nodes, ReshardAll(a, num, dst)
      PROVE  Friends'
  <2>1. task' = [kind |-> "all", at |-> a, node |-> dst, num |-> num,
                 dist |-> [m \in Nodes |-> IF m \in known[a] \ {dst}
                                           THEN SlotCount(m, a) ELSE 0],
                 per |-> 0, left |-> {}, news |-> {}, pc |-> "round"]
    BY <1>4 DEF ReshardAll, Starts
  <2>2. UNCHANGED known /\ Ready(a) /\ dst \in known[a]
    BY <1>4 DEF ReshardAll, Starts
  <2>3. Clique(known', Nodes)
    BY <1>2, <2>2 DEF Clique
  <2>4. /\ task'.pc = "round" /\ task'.at = a /\ task'.node = dst /\ task'.left = {}
        /\ \A m \in Nodes : m \notin known[a] => task'.dist[m] = 0
    BY <2>1
  <2>5. Acquainted'
    BY <2>2, <2>4 DEF Acquainted
  <2> QED
    BY <2>3, <2>4, <2>5, FriendsBegin DEF Shares
<1>5. ASSUME NEW a \in Nodes, NEW num, NEW src \in Nodes, NEW dst \in Nodes,
             ReshardOne(a, num, src, dst)
      PROVE  Friends'
  <2>1. task' = [kind |-> "one", at |-> a, node |-> dst, num |-> num,
                 dist |-> [m \in Nodes |-> 0],
                 per |-> num, left |-> {src}, news |-> {}, pc |-> "next"]
    BY <1>5 DEF ReshardOne, Starts
  <2>2. UNCHANGED known /\ Ready(a) /\ {src, dst} \subseteq known[a]
    BY <1>5 DEF ReshardOne, Starts
  <2>3. Clique(known', Nodes)
    BY <1>2, <2>2 DEF Clique
  <2>4. /\ task'.pc = "next" /\ task'.at = a /\ task'.node = dst /\ task'.left = {src}
        /\ \A m \in Nodes : task'.dist[m] = 0
    BY <2>1
  <2>5. Acquainted'
    BY <2>2, <2>4 DEF Acquainted
  <2> QED
    BY <2>3, <2>4, <2>5, FriendsBegin DEF Shares
<1>6. ASSUME NEW a \in Nodes, NEW m \in Nodes, known[m] \subseteq {m}, Meet(a, m)
      PROVE  Friends'
  <2>1. task' = [kind |-> "meet", at |-> a, node |-> m, num |-> 0,
                 dist |-> [x \in Nodes |-> 0], per |-> 0, left |-> {},
                 news |-> {}, pc |-> "met"]
    BY <1>6 DEF Meet
  <2>2. task'.pc = "met" /\ task'.at = a /\ task'.node = m /\ task'.kind = "meet"
    BY <2>1
  <2>3. Ready(a) /\ a \in known[a] /\ a \notin known[m] /\ known' = [known EXCEPT ![m] = @ \cup {a}]
    BY <1>6 DEF Meet, auth_node
  <2>4. a # m /\ known'[a] = known[a] /\ known'[m] = known[m] \cup {a}
        /\ \A n \in Nodes \ {m} : known'[n] = known[n]
    BY <1>1, <2>3
  <2>5. \A n \in Nodes \ {m} : n \in known[n] => m \notin known[n]
    <3>1. SUFFICES ASSUME NEW n \in Nodes \ {m}, n \in known[n], m \in known[n] PROVE FALSE
      OBVIOUS
    <3>2. known[m] = known[n]
      BY <1>2, <2>3, <3>1 DEF Clique
    <3> QED
      BY <1>6, <3>1, <3>2
  <2>6. Clique(known', Nodes \ {m})
    <3>1. SUFFICES ASSUME NEW n \in Nodes \ {m}, n \in known'[n], NEW x \in known'[n]
                   PROVE known'[x] = known'[n]
      BY DEF Clique
    <3>2. x # m /\ x \in Nodes /\ known[x] = known[n]
      BY <1>1, <1>2, <2>3, <2>4, <2>5, <3>1 DEF Clique
    <3> QED
      BY <2>4, <3>1, <3>2
  <2>7. InMet'
    BY <1>6, <2>2, <2>3, <2>4, <2>5, <2>6 DEF InMet
  <2>8. task' # Idle
    <3>1. task' \in Task
      BY <2>1 DEF Task
    <3> QED
      BY <3>1, IdleAssumption
  <2> QED
    BY <2>2, <2>7, <2>8, Zenon
       DEF Friends, Settled, Acquainted, InMeetGossip, InForgetGossip, Shares
<1> QED
  BY <1>3, <1>4, <1>5, <1>6, Zenon DEF Administer

\* The inviting node remembers the newcomer, and has all nodes it knows to tell.
LEMMA FriendsMet == ASSUME Shaped, Shaped', Friends, Met PROVE Friends'
<1> DEFINE a == task.at
           m == task.node
           N == known[a] \cup {m}
<1>1. task # Idle /\ task.pc = "met" /\ task \in Task
  BY DEF Met, TaskAt, Shaped, Typed, TypeOK
<1>2. a \in Nodes /\ m \in Nodes /\ known \in [Nodes -> SUBSET Nodes] /\ task.kind = "meet"
  BY <1>1, Zenon DEF Task, Shaped, Typed, TypeOK, Kinds
<1>3. known' = [known EXCEPT ![a] = @ \cup {m}]
  BY DEF Met
<1>4. known'[a] = N /\ \A n \in Nodes \ {a} : known'[n] = known[n]
  BY <1>2, <1>3
<1>5. task' = [task EXCEPT !.news = known'[a], !.left = known'[a], !.pc = "gossip"]
  BY DEF Met
<1>6. /\ task'.at = a /\ task'.news = N /\ task'.left = N /\ task'.pc = "gossip"
      /\ task'.kind = "meet"
  BY <1>1, <1>2, <1>4, <1>5 DEF Task
<1>7. task' # Idle
  <2>1. task' \in Task
    BY <1>1, <1>2, <1>4, <1>5, Zenon DEF Task
  <2> QED
    BY <2>1, IdleAssumption
<1>8. /\ a \in known[a] /\ a # m /\ a \in known[m] /\ known[m] \subseteq {a, m}
      /\ \A n \in Nodes \ {m} : n \in known[n] => m \notin known[n]
      /\ Clique(known, Nodes \ {m})
  BY <1>1 DEF Friends, InMet
<1>9. \A x \in known[a] \ {a} : known'[x] = known[a]
  BY <1>2, <1>4, <1>8 DEF Clique
<1>10. \A x \in N : known'[x] \subseteq N /\ a \in known'[x]
  BY <1>2, <1>4, <1>8, <1>9
<1>11. Outside(known', N)
  <2>1. SUFFICES ASSUME NEW n \in Nodes \ N, n \in known'[n], NEW y \in known'[n] \cap N PROVE FALSE
    BY DEF Outside
  <2>2. n # a /\ n # m /\ known'[n] = known[n] /\ y \in known[a]
    BY <1>4, <1>8, <2>1
  <2>3. known[y] = known[n] /\ known[y] = known[a]
    BY <1>2, <1>8, <2>1, <2>2 DEF Clique
  <2> QED
    BY <2>1, <2>2, <2>3
<1>12. Clique(known', Nodes \ N)
  <2>1. SUFFICES ASSUME NEW n \in Nodes \ N, n \in known'[n], NEW x \in known'[n]
                 PROVE known'[x] = known'[n]
    BY DEF Clique
  <2>2. x \notin N
    BY <1>11, <2>1 DEF Outside
  <2>3. x \in Nodes /\ known'[x] = known[x] /\ known'[n] = known[n]
    BY <1>2, <1>4, <1>8, <2>1, <2>2
  <2> QED
    BY <1>8, <2>1, <2>3 DEF Clique
<1> HIDE DEF N
<1>13. InMeetGossip'
  BY <1>4, <1>6, <1>8, <1>10, <1>11, <1>12 DEF InMeetGossip, N
<1> QED
  BY <1>6, <1>7, <1>13, Zenon
     DEF Friends, Settled, Acquainted, InMet, InForgetGossip, Shares

\* What a node that forgot itself remembers is no matter to the members: none of
\* them knows it.
LEMMA StrangerStep ==
    ASSUME NEW k \in [Nodes -> SUBSET Nodes], Clique(k, Nodes),
           NEW a \in Nodes, a \notin k[a], NEW S \in SUBSET k[a]
    PROVE  Clique([k EXCEPT ![a] = S], Nodes)
<1> DEFINE j == [k EXCEPT ![a] = S]
<1>1. j[a] = S /\ \A n \in Nodes \ {a} : j[n] = k[n]
  OBVIOUS
<1> HIDE DEF j
<1>2. SUFFICES ASSUME NEW n \in Nodes, n \in j[n], NEW x \in j[n] PROVE j[x] = j[n]
  BY DEF Clique, j
<1>3. n # a /\ k[x] = k[n]
  BY <1>1, <1>2 DEF Clique
<1>4. x # a
  BY <1>1, <1>2, <1>3
<1> QED
  BY <1>1, <1>2, <1>3, <1>4

\* What happens among the nodes N is no matter to the others.
LEMMA InsideStep ==
    ASSUME NEW k \in [Nodes -> SUBSET Nodes], NEW N, Outside(k, N), Clique(k, Nodes \ N),
           NEW j, \A n \in Nodes \ N : j[n] = k[n]
    PROVE  Outside(j, N) /\ Clique(j, Nodes \ N)
<1>1. Outside(j, N)
  BY DEF Outside
<1>2. SUFFICES ASSUME NEW n \in Nodes \ N, n \in j[n], NEW x \in j[n] PROVE j[x] = j[n]
  BY <1>1 DEF Clique
<1>3. x \in Nodes \ N /\ k[x] = k[n]
  BY <1>2 DEF Outside, Clique
<1> QED
  BY <1>2, <1>3

\* ClusterNode#gossip: one more node knows what the sender knows.
LEMMA FriendsGossip ==
    ASSUME ForgetInv, Friends, stops = 0, Gossip PROVE Friends'
<1> DEFINE a == task.at
<1>1. task # Idle /\ task.pc = "gossip" /\ task \in Task /\ up = Nodes
  BY DEF Gossip, TaskAt, ForgetInv, Calm, Shaped, Typed, TypeOK
<1>2. /\ a \in Nodes /\ task.node \in Nodes /\ task.left \subseteq Nodes
      /\ known \in [Nodes -> SUBSET Nodes] /\ task.kind \in {"meet", "forget"}
      /\ task.kind = "forget" => task.news = {task.node}
  BY <1>1 DEF Task, ForgetInv, Calm, Shaped, Typed, TypeOK, Kinds
<1>3. PICK m \in task.left :
        /\ task' = IF m \in up THEN [task EXCEPT !.left = @ \ {m}] ELSE Idle
        /\ known' = IF m # task.at /\ Accepts(m, task.at)
                    THEN [known EXCEPT ![m] = Gossiped(m)] ELSE known
  BY Zenon DEF Gossip
<1>4. task' = [task EXCEPT !.left = @ \ {m}] /\ m \in Nodes
  BY <1>1, <1>2, <1>3
<1>5. /\ task'.at = a /\ task'.node = task.node /\ task'.kind = task.kind
      /\ task'.news = task.news /\ task'.left = task.left \ {m} /\ task'.pc = "gossip"
  BY <1>1, <1>4 DEF Task
<1>6. known'[a] = known[a] /\ \A n \in Nodes \ {m} : known'[n] = known[n]
  BY <1>2, <1>3, <1>4
<1>7. m # a /\ a \in known[m] => known'[m] = Gossiped(m)
  BY <1>1, <1>2, <1>3, <1>4 DEF Accepts
<1>8. CASE task.kind = "meet"
  <2>1. /\ a \in task.news /\ known[a] = task.news /\ task.left \subseteq task.news
        /\ \A x \in task.news :
            /\ known[x] \subseteq task.news /\ a \in known[x]
            /\ x \notin task.left => known[x] = task.news
        /\ Outside(known, task.news) /\ Clique(known, Nodes \ task.news)
    BY <1>1, <1>8 DEF Friends, InMeetGossip
  <2>2. known'[m] = task.news
    BY <1>6, <1>7, <1>8, <2>1, Zenon DEF Gossiped
  <2>3. \A x \in task.news :
            /\ known'[x] \subseteq task.news /\ a \in known'[x]
            /\ x \notin task.left \ {m} => known'[x] = task.news
    BY <1>2, <1>6, <2>1, <2>2
  <2>4. Outside(known', task.news) /\ Clique(known', Nodes \ task.news)
    BY <1>2, <1>6, <2>1, InsideStep
  <2>5. InMeetGossip'
    BY <1>5, <1>6, <2>1, <2>3, <2>4 DEF InMeetGossip
  <2>6. task' # Idle
    BY <1>1, <1>4, <1>2, IdleAssumption DEF Task
  <2> QED
    BY <1>5, <1>8, <2>5, <2>6, Zenon
       DEF Friends, Settled, Acquainted, InMet, InForgetGossip, Shares
<1>9. CASE task.kind = "forget"
  <2>1. CASE a \in known[a]
    <3>1. /\ task.node \in known[a] /\ task.left \subseteq known[a]
          /\ \A x \in known[a] \ {a} :
                known[x] = IF x \in task.left THEN known[a] ELSE known[a] \ {task.node}
          /\ Outside(known, known[a]) /\ Clique(known, Nodes \ known[a])
      BY <1>1, <1>9, <2>1 DEF Friends, InForgetGossip
    <3>2. m # a => known'[m] = known[a] \ {task.node}
      BY <1>2, <1>7, <1>9, <2>1, <3>1 DEF Gossiped
    <3>3. \A x \in known[a] \ {a} :
            known'[x] = IF x \in task.left \ {m} THEN known[a] ELSE known[a] \ {task.node}
      BY <1>2, <1>6, <3>1, <3>2, Zenon
    <3>4. Outside(known', known[a]) /\ Clique(known', Nodes \ known[a])
      BY <1>2, <1>6, <3>1, InsideStep
    <3>5. InForgetGossip'
      BY <1>5, <1>6, <3>1, <3>3, <3>4 DEF InForgetGossip
    <3>6. task' # Idle
      BY <1>1, <1>4, <1>2, IdleAssumption DEF Task
    <3> QED
      BY <1>5, <1>6, <1>9, <2>1, <3>5, <3>6, Zenon
      DEF Friends, Settled, Acquainted, InMet, InMeetGossip, Shares
  <2>2. CASE a \notin known[a]
    <3>1. Clique(known, Nodes)
      BY <1>9, <2>2, Zenon DEF Friends, Settled
    <3>2. Clique(known', Nodes)
      <4>1. CASE m # a /\ a \in known[m]
        <5>1. m \notin known[m]
          BY <1>2, <1>4, <2>2, <3>1, <4>1 DEF Clique
        <5>2. known' = [known EXCEPT ![m] = known[m] \ task.news]
          BY <1>1, <1>3, <1>4, <1>9, <4>1 DEF Accepts, Gossiped
        <5> QED
          BY <1>2, <1>4, <3>1, <5>1, <5>2, StrangerStep, Zenon
      <4>2. CASE ~(m # a /\ a \in known[m])
        BY <1>3, <3>1, <4>2 DEF Accepts
      <4> QED
        BY <4>1, <4>2
    <3>3. task' # Idle
      BY <1>1, <1>4, <1>2, IdleAssumption DEF Task
    <3> QED
      BY <1>5, <1>6, <1>9, <2>2, <3>2, <3>3, Zenon
      DEF Friends, Settled, Acquainted, InMet, InMeetGossip, InForgetGossip, Shares
  <2> QED
    BY <2>1, <2>2
<1> QED
  BY <1>2, <1>8, <1>9

\* All nodes were told: those that know each other know the same nodes again.
LEMMA FriendsGossipSent ==
    ASSUME ForgetInv, Friends, stops = 0, GossipSent PROVE Friends'
<1> DEFINE a == task.at
<1>1. task # Idle /\ task.pc = "gossip" /\ task \in Task /\ task.left = {}
  BY DEF GossipSent, TaskAt, ForgetInv, Shaped, Typed, TypeOK
<1>2. /\ a \in Nodes /\ task.node \in Nodes
      /\ known \in [Nodes -> SUBSET Nodes] /\ task.kind \in {"meet", "forget"}
      /\ task.kind = "forget" => task.news = {task.node}
  BY <1>1, Zenon DEF Task, ForgetInv, Calm, Shaped, Typed, TypeOK, Kinds
<1>3. SUFFICES Clique(known', Nodes)
  BY Zenon DEF GossipSent, Friends, Settled, Acquainted, InMet, InMeetGossip,
         InForgetGossip
<1>4. CASE task.kind = "meet"
  <2>1. /\ \A x \in task.news : known[x] = task.news
        /\ Outside(known, task.news) /\ Clique(known, Nodes \ task.news)
    BY <1>1, <1>4, Zenon DEF Friends, InMeetGossip
  <2>2. known' = known
    BY <1>4, Zenon DEF GossipSent
  <2> QED
    BY <2>1, <2>2 DEF Clique
<1>5. CASE task.kind = "forget"
  <2>1. known' = [known EXCEPT ![a] = known[a] \ {task.node}]
    BY <1>2, <1>5, Zenon DEF GossipSent
  <2>2. known'[a] = known[a] \ {task.node} /\ \A n \in Nodes \ {a} : known'[n] = known[n]
    BY <1>2, <2>1
  <2>3. CASE a \in known[a]
    <3>1. /\ \A x \in known[a] \ {a} : known[x] = known[a] \ {task.node}
          /\ Outside(known, known[a]) /\ Clique(known, Nodes \ known[a])
      BY <1>1, <1>5, <2>3, Zenon DEF Friends, InForgetGossip
    <3>2. \A x \in known[a] : known'[x] = known[a] \ {task.node}
      BY <1>2, <2>2, <3>1
    <3>3. Clique(known', Nodes \ known[a])
      BY <1>2, <2>2, <2>3, <3>1, InsideStep
    <3> QED
      BY <3>2, <3>3, Zenon DEF Clique
  <2>4. CASE a \notin known[a]
    <3>1. Clique(known, Nodes)
      BY <1>5, <2>4 DEF Friends, Settled
    <3> QED
      BY <1>2, <2>1, <2>4, <3>1, StrangerStep, Zenon
  <2> QED
    BY <2>3, <2>4
<1> QED
  BY <1>2, <1>4, <1>5

\* The head of the loops of reshard and forget: the nodes asked are nodes known.
LEMMA FriendsRound == ASSUME ForgetInv, Friends, Round PROVE Friends'
<1> DEFINE a == task.at
<1>1. /\ UNCHANGED known /\ task.pc = "round" /\ task # Idle /\ task \in Task
      /\ \/ task' = Idle
         \/ /\ task.num <= 0 /\ task.kind # "all"
            /\ task' = [task EXCEPT !.left = known[task.at], !.pc = "gossip"]
         \/ \E p : task' = [task EXCEPT !.per = p, !.left = Sources(task), !.pc = "next"]
  BY Zenon DEF Round, TaskAt, ForgetInv, Shaped, Typed, TypeOK
<1>2. /\ a \in Nodes /\ task.node \in Nodes /\ known \in [Nodes -> SUBSET Nodes]
      /\ task.kind \in {"all", "forget"}
  BY <1>1, Zenon DEF Task, ForgetInv, Shaped, Typed, TypeOK, Kinds, Shares
<1>3. /\ Clique(known, Nodes) /\ task.node \in known[a]
      /\ \A m \in Nodes : task.dist[m] > 0 => m \in known[a]
  BY <1>1, Zenon DEF Friends, Settled, Acquainted, Shares
<1>4. CASE task' = Idle
  BY <1>1, <1>4, FriendsShares DEF ForgetInv, Shares
<1>5. CASE task.kind # "all" /\ task' = [task EXCEPT !.left = known[task.at], !.pc = "gossip"]
  <2>1. /\ task'.at = a /\ task'.node = task.node /\ task'.left = known[a]
        /\ task'.pc = "gossip" /\ task'.kind = "forget"
    BY <1>1, <1>2, <1>5, Zenon DEF Task
  <2>2. a \in known[a] =>
            /\ \A x \in known[a] \ {a} : known[x] = known[a]
            /\ Outside(known, known[a]) /\ Clique(known, Nodes \ known[a])
    BY <1>2, <1>3, CliqueOutside DEF Clique, ForgetInv, Shaped
  <2>3. InForgetGossip'
    BY <1>1, <1>2, <1>3, <2>1, <2>2, Zenon DEF InForgetGossip
  <2> QED
    BY <1>1, <1>3, <2>1, <2>3, Zenon
       DEF Friends, Settled, Acquainted, InMet, InMeetGossip, Shares
<1>6. ASSUME NEW p, task' = [task EXCEPT !.per = p, !.left = Sources(task), !.pc = "next"]
      PROVE  Friends'
  <2>1. Sources(task) \subseteq known[a]
    BY <1>2, <1>3 DEF Sources
  <2>2. /\ task'.at = a /\ task'.node = task.node /\ task'.left = Sources(task)
        /\ task'.pc = "next" /\ task'.dist = task.dist
    BY <1>1, <1>6, Zenon DEF Task
  <2> QED
    BY <1>1, <2>1, <2>2, FriendsShares, Zenon DEF ForgetInv, Shares
<1> QED
  BY <1>1, <1>4, <1>5, <1>6, Zenon

\* A MIGRATE request is sent.
LEMMA FriendsMigrate == ASSUME ForgetInv, Friends, Migrate PROVE Friends'
<1>1. PICK m \in task.left :
        /\ task # Idle /\ task.pc = "next" /\ UNCHANGED known
        /\ task' # Idle =>
            /\ task'.at = task.at /\ task'.node = task.node
            /\ task'.left = task.left \ {m} /\ task'.dist = task.dist /\ task'.pc \in Shares
  BY MigrateShape DEF ForgetInv
<1>2. task.left \subseteq known[task.at]
  BY <1>1 DEF Friends, Acquainted, Shares
<1> QED
  BY <1>1, <1>2, FriendsShares DEF ForgetInv, Shares

\* The task goes on after an answer, or waits for ever.
LEMMA FriendsProceed ==
    ASSUME ForgetInv, Friends, UNCHANGED known, task # Idle, task.pc \in Shares,
           task' \in {Proceed(task), [task EXCEPT !.pc = "hung"]}
    PROVE  Friends'
<1>1. task \in Task
  BY DEF ForgetInv, Shaped, Typed, TypeOK
<1>2. task' # Idle =>
        /\ task'.at = task.at /\ task'.node = task.node
        /\ task'.left = task.left /\ task'.dist = task.dist /\ task'.pc \in Shares
  <2>1. CASE task' = Proceed(task)
    BY <1>1, <2>1, ProceedShape DEF Shares
  <2>2. CASE task' = [task EXCEPT !.pc = "hung"]
    BY <1>1, <2>2 DEF Task, Shares
  <2> QED
    BY <2>1, <2>2
<1>3. task.left \subseteq known[task.at]
  BY DEF Friends, Acquainted
<1> QED
  BY <1>2, <1>3, FriendsShares DEF ForgetInv

\* No step of a migration makes or ends an acquaintance.
LEMMA FriendsMigrateStep == ASSUME ForgetInv, Friends, MigrateStep PROVE Friends'
<1>1. /\ UNCHANGED known
      /\ mig' # Idle => UNCHANGED task
      /\ mig' = Idle => Answered \/ Failed
  BY MigrateStepShape DEF ForgetInv, Shaped
<1>2. CASE UNCHANGED task
  BY <1>1, <1>2, FriendsUntouched
<1>3. CASE ~UNCHANGED task
  <2>1. task # Idle /\ task.pc = "wait"
        /\ task' \in {Proceed(task), [task EXCEPT !.pc = "hung"]}
    BY <1>1, <1>3 DEF Answered, Failed
  <2> QED
    BY <1>1, <2>1, FriendsProceed DEF Shares
<1> QED
  BY <1>2, <1>3

\* The destination of a migration is known and serves the source; the slots are
\* where they were before Reshard, and at the destination after AddSlots.
Route ==
    mig # Idle =>
        /\ mig.dst \in known[mig.src] /\ Serves(mig.dst, mig.src)
        /\ mig.pc = "reshard" => mig.slots = {}
        /\ mig.pc \in {"added", "keys", "copy"} => mig.slots \subseteq slots[mig.dst]

\* No slot is lost, slot by slot.
Kept == \A s \in Slots : (\E n \in Nodes : s \in slots[n]) \/ (mig # Idle /\ s \in mig.slots)

\* The invariant behind NoSlotLost.
KeptInv == ForgetInv /\ (MeetNewcomers /\ stops = 0 => Friends /\ Route /\ Kept)

\* Nobody starts a task while slots are moving.
LEMMA KeptAdminister ==
    ASSUME KeptInv, MeetNewcomers, stops = 0, Administer PROVE Friends' /\ Route' /\ Kept'
<1>1. Friends'
  BY FriendsAdminister DEF KeptInv, ForgetInv
<1>2. task = Idle /\ UNCHANGED <<slots, mig>>
  BY AdministerQuiet
<1>3. mig = Idle
  BY <1>2 DEF KeptInv, ForgetInv, Calm
<1> QED
  BY <1>1, <1>2, <1>3 DEF KeptInv, Route, Kept

\* Every step of a task; a MIGRATE request goes to a node that knows the
\* destination and is known by it.
LEMMA KeptTaskStep ==
    ASSUME KeptInv, Shaped', MeetNewcomers, stops = 0, TaskStep \/ Collected
    PROVE  Friends' /\ Route' /\ Kept'
<1>1. task # Idle /\ UNCHANGED <<up, slots, stops>>
  BY TaskStepAt
<1>2. Friends /\ Route /\ Kept /\ ForgetInv /\ Shaped
  BY DEF KeptInv, ForgetInv
<1>3. CASE Migrate
  <2>1. PICK m \in task.left, x \in Nat :
        LET src == IF task.kind = "forget" THEN task.node ELSE m
            dst == IF task.kind = "forget" THEN m ELSE task.node
        IN  /\ task # Idle /\ task.pc = "next" /\ mig = Idle /\ UNCHANGED known
            /\ task' # Idle =>
                /\ task'.at = task.at /\ task'.node = task.node /\ task'.kind = task.kind
                /\ task'.num = task.num - x /\ task'.left = task.left \ {m}
                /\ task'.news = task.news /\ task'.dist = task.dist
                /\ task'.pc \in Shares
            /\ IF Serves(src, task.at)
               THEN /\ task' # Idle /\ task'.pc = "wait" /\ mig' # Idle
                    /\ mig'.src = src /\ mig'.dst = dst /\ mig'.num = x
                    /\ mig'.slots = {} /\ mig'.pc = "reshard"
               ELSE mig' = Idle /\ (task' # Idle => task'.pc # "wait")
    BY <1>2, <1>3, MigrateShape, Zenon
  <2> DEFINE src == IF task.kind = "forget" THEN task.node ELSE m
             dst == IF task.kind = "forget" THEN m ELSE task.node
  <2>2. /\ up = Nodes /\ known \in [Nodes -> SUBSET Nodes] /\ Clique(known, Nodes)
        /\ task.at \in Nodes /\ {task.node, m} \subseteq known[task.at]
    <3>1. task \in Task /\ up = Nodes /\ known \in [Nodes -> SUBSET Nodes]
      BY <1>1, <1>2, Zenon DEF ForgetInv, Calm, Shaped, Typed, TypeOK
    <3>2. Clique(known, Nodes) /\ task.node \in known[task.at] /\ task.left \subseteq known[task.at]
      BY <1>2, <2>1, Zenon DEF Friends, Settled, Acquainted, Shares
    <3> QED
      BY <3>1, <3>2 DEF Task
  <2>3. {src, dst} \subseteq known[task.at]
    BY <2>2
  <2>4. Serves(src, task.at) =>
            /\ mig' # Idle /\ mig'.src = src /\ mig'.dst = dst
            /\ mig'.slots = {} /\ mig'.pc = "reshard"
    BY <2>1
  <2>5. ~Serves(src, task.at) => mig' = Idle
    BY <2>1
  <2> HIDE DEF src, dst
  <2>6. Serves(src, task.at) => dst \in known[src] /\ Serves(dst, src)
    <3>1. SUFFICES ASSUME Serves(src, task.at) PROVE dst \in known[src] /\ Serves(dst, src)
      OBVIOUS
    <3>2. src \in Nodes /\ dst \in Nodes /\ src \in known[src] /\ task.at \in known[src]
      BY <2>2, <2>3, <3>1 DEF Serves, Accepts
    <3>3. known[task.at] = known[src]
      BY <2>2, <3>2 DEF Clique
    <3>4. known[dst] = known[src]
      BY <2>2, <2>3, <3>2, <3>3 DEF Clique
    <3> QED
      BY <2>2, <2>3, <3>2, <3>3, <3>4 DEF Serves, Accepts
  <2>7. Route'
    BY <1>1, <2>1, <2>4, <2>5, <2>6 DEF Route, Serves, Accepts
  <2>8. Kept'
    BY <1>1, <1>2, <2>1, Zenon DEF Kept
  <2> QED
    BY <1>2, <1>3, <2>7, <2>8, FriendsMigrate
<1>4. CASE Round \/ Met \/ Gossip \/ GossipSent \/ Collected
  <2>1. task.pc # "wait" /\ UNCHANGED mig
    BY <1>4 DEF Round, Met, Gossip, GossipSent, Collected, TaskAt
  <2>2. mig = Idle /\ mig' = Idle
    BY <1>1, <1>2, <2>1 DEF ForgetInv, Calm
  <2>3. Friends'
    <3>1. Collected => UNCHANGED known /\ task.pc = "hung" /\ task' = Proceed(task)
      BY DEF Collected, TaskAt
    <3>2. Collected => Friends'
      BY <1>1, <1>2, <3>1, FriendsProceed DEF Shares
    <3> QED
      BY <1>2, <1>4, <3>2, FriendsRound, FriendsMet, FriendsGossip,
         FriendsGossipSent
  <2> QED
    BY <1>1, <1>2, <2>2, <2>3, Zenon DEF Route, Kept
<1> QED
  BY <1>3, <1>4 DEF TaskStep

\* Every step of a migration: the destination is known and serves the source, so
\* Cluster#add_slots takes what KeyShard#reshard gave.
LEMMA KeptMigrateStep ==
    ASSUME KeptInv, MeetNewcomers, stops = 0, MigrateStep
    PROVE  Friends' /\ Route' /\ Kept'
<1>1. Friends /\ Route /\ Kept /\ ForgetInv
  BY DEF KeptInv
<1>2. Friends'
  BY <1>1, FriendsMigrateStep
<1>3. /\ mig # Idle /\ mig \in Migration /\ UNCHANGED <<up, known>>
      /\ mig' # Idle => /\ mig'.src = mig.src /\ mig'.dst = mig.dst /\ mig'.pc # "reshard"
      /\ slots \in [Nodes -> SUBSET (Slots \cup {Blank})]
      /\ mig.src \in Nodes /\ mig.dst \in Nodes /\ keys \in [Nodes -> SUBSET Keys]
      /\ Blank \notin Slots
  BY <1>1, ClusterAssumption, MigrateStepShape, Zenon
     DEF ForgetInv, Shaped, Typed, TypeOK, Migration
<1>4. mig.dst \in known[mig.src] /\ Serves(mig.dst, mig.src) /\ mig.dst \in up
  BY <1>1, <1>3 DEF Route, Serves, Accepts
<1>5. mig' # Idle => mig'.dst \in known'[mig'.src] /\ Serves(mig.dst, mig.src)'
  BY <1>3, <1>4 DEF Serves, Accepts
<1>6. CASE Reshard
  <2>1. PICK S \in SUBSET slots[mig.src] :
            /\ slots' = [slots EXCEPT ![mig.src] = @ \ S]
            /\ \E K \in SUBSET keys[mig.src] :
                mig' = [mig EXCEPT !.slots = S, !.keys = K, !.pc = "save"]
    BY <1>6, Zenon DEF Reshard
  <2>2. mig.slots = {}
    BY <1>1, <1>3, <1>6 DEF Reshard, MigAt, Route
  <2>3. mig'.pc = "save" /\ mig'.slots = S
    BY <1>3, <2>1 DEF Migration
  <2>4. mig' # Idle
    <3>1. PICK K \in SUBSET keys[mig.src] :
            mig' = [mig EXCEPT !.slots = S, !.keys = K, !.pc = "save"]
      BY <2>1, Zenon
    <3>2. S \subseteq Slots \cup {Blank} /\ K \subseteq Keys
      BY <1>3
    <3>3. mig' \in Migration
      BY <1>3, <3>1, <3>2, Zenon DEF Migration
    <3> QED
      BY <3>3, IdleAssumption
  <2> QED
    BY <1>1, <1>2, <1>3, <1>5, <2>1, <2>2, <2>3, <2>4 DEF Route, Kept
<1>7. CASE SaveSlots
  <2>1. mig' = [mig EXCEPT !.slots = @ \ {Blank}, !.pc = "add"] /\ UNCHANGED slots
    BY <1>7 DEF SaveSlots
  <2>2. mig'.pc = "add" /\ mig'.slots = mig.slots \ {Blank}
    BY <1>3, <2>1 DEF Migration
  <2>3. mig' # Idle
    <3>1. mig' \in Migration
      BY <1>3, <2>1, Zenon DEF Migration
    <3> QED
      BY <3>1, IdleAssumption
  <2> QED
    BY <1>1, <1>2, <1>3, <1>5, <2>1, <2>2, <2>3 DEF Route, Kept
<1>8. CASE AddSlots
  <2>1. /\ slots' = [slots EXCEPT ![mig.dst] = @ \cup mig.slots]
        /\ mig' = [mig EXCEPT !.pc = "added"]
    BY <1>4, <1>8 DEF AddSlots
  <2>2. mig'.pc = "added" /\ mig'.slots = mig.slots
    BY <1>3, <2>1 DEF Migration
  <2>3. \A n \in Nodes : slots[n] \subseteq slots'[n]
    BY <1>3, <2>1
  <2> QED
    BY <1>1, <1>2, <1>3, <1>5, <2>1, <2>2, <2>3 DEF Route, Kept
<1>9. ASSUME mig.pc \in {"added", "keys", "copy"}, UNCHANGED slots,
             mig' # Idle => mig'.slots = mig.slots
      PROVE  Friends' /\ Route' /\ Kept'
  BY <1>1, <1>2, <1>3, <1>5, <1>9, Zenon DEF Route, Kept
<1>10. CASE SaveAdded \/ ReadKey \/ CopyPiece \/ DeleteMoved \/ Migrated
  <2>1. mig.pc \in {"added", "keys", "copy"} /\ UNCHANGED slots
    BY <1>10, Zenon
       DEF SaveAdded, ReadKey, CopyPiece, DeleteMoved, Migrated, MigAt,
           nodevars
  <2>2. mig' # Idle => mig'.slots = mig.slots
    BY <1>3, <1>10, Zenon
       DEF SaveAdded, ReadKey, CopyPiece, DeleteMoved, Migrated, Migration
  <2> QED
    BY <1>9, <2>1, <2>2
<1> QED
  BY <1>6, <1>7, <1>8, <1>10 DEF MigrateStep

\* The invariant is inductive.
LEMMA KeptNext == KeptInv /\ [Next]_vars => KeptInv'
<1>1. SUFFICES ASSUME KeptInv, [Next]_vars, MeetNewcomers, stops' = 0
               PROVE  Friends' /\ Route' /\ Kept'
  BY ForgetNext DEF KeptInv
<1>2. ForgetInv /\ ForgetInv' /\ Shaped'
  BY <1>1, ForgetNext DEF KeptInv, ForgetInv
<1>3. CASE UNCHANGED nodestate
  <2>1. Friends /\ Route /\ Kept
    BY <1>1, <1>3 DEF KeptInv, nodestate
  <2> QED
    BY <1>3, <2>1, FriendsUntouched DEF Route, Kept, Serves, Accepts, nodestate
<1>4. CASE UNCHANGED vars
  BY <1>3, <1>4 DEF vars, nodevars, nodestate
<1>5. ASSUME NEW c \in Clients, CommandStep(c) PROVE UNCHANGED nodestate
  BY <1>5, Zenon
     DEF CommandStep, CheckOwner, WhereIs, NotFound, Forward, StoreData,
         ShardKey, At, nodestate
<1>6. ASSUME NEW c \in Clients, NEW n, NEW op, NEW k, NEW v, Request(c, n, op, k, v)
      PROVE  UNCHANGED nodestate
  BY <1>6 DEF Request, nodevars, nodestate
<1>7. ASSUME NEW n \in Nodes, Stop(n) PROVE FALSE
  BY <1>1, <1>2, <1>7 DEF Stop, ForgetInv, Shaped, Typed, TypeOK
<1>8. ASSUME NEW n \in Nodes, Start(n) PROVE FALSE
  BY <1>1, <1>2, <1>8 DEF Start, ForgetInv, Calm
<1>9. CASE Administer
  <2>1. stops = 0
    BY <1>1, <1>9, AdministerQuiet
  <2> QED
    BY <1>1, <1>9, <2>1, KeptAdminister
<1>10. CASE TaskStep \/ Collected
  <2>1. stops = 0
    BY <1>1, <1>10, TaskStepAt
  <2> QED
    BY <1>1, <1>2, <1>10, <2>1, KeptTaskStep
<1>11. CASE MigrateStep
  <2>1. stops = 0
    BY <1>1, <1>2, <1>11, MigrateStepShape DEF ForgetInv, Shaped
  <2> QED
    BY <1>1, <1>11, <2>1, KeptMigrateStep
<1> QED
  BY <1>1, <1>3, <1>4, <1>5, <1>6, <1>7, <1>8, <1>9, <1>10, <1>11 DEF Next

\* Init: the members know each other, the root has all slots.
LEMMA KeptInit == Init => KeptInv
<1>1. SUFFICES ASSUME Init PROVE Friends /\ Route /\ Kept
  BY ForgetInit DEF KeptInv
<1>2. task = Idle /\ mig = Idle
      /\ known = [n \in Nodes |-> IF n \in Members THEN Members ELSE {n}]
      /\ slots = [n \in Nodes |-> IF n = Root THEN Slots ELSE {}]
  BY <1>1 DEF Init
<1>3. Members \subseteq Nodes /\ Root \in Nodes
  BY ClusterAssumption
<1>4. Clique(known, Nodes)
  BY <1>2, <1>3 DEF Clique
<1>5. Kept
  BY <1>2, <1>3 DEF Kept
<1> QED
  BY <1>2, <1>4, <1>5, Zenon
  DEF Friends, Settled, Acquainted, InMet, InMeetGossip, InForgetGossip, Route

\* While no node was stopped, and if only newcomers are met, no slot is lost:
\* every slot is on a node or in the hands of a migration (LocalNode#migrate,
\* Cluster#reshard, Cluster#forget, ClusterNode#gossip).
THEOREM ClusterNoSlotLost == Spec => []NoSlotLost
<1>1. KeptInv => NoSlotLost
  BY DEF KeptInv, Kept, NoSlotLost
<1> QED
  BY <1>1, KeptInit, KeptNext, PTL DEF Spec
=============================================================================
