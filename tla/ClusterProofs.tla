---------------------------- MODULE ClusterProofs ----------------------------
(***************************************************************************)
(* Two theorems about the cluster, for any number of nodes, slots, keys and *)
(* clients, whatever stops and starts: no slot is held by two nodes         *)
(* (SlotsInv adds to SlotsDisjoint who holds the slots of a migration at    *)
(* each of its steps), and every state is well typed (Typed).               *)
(***************************************************************************)
EXTENDS Cluster, WellFoundedInduction, FiniteSetTheorems, TLAPS

\* The shape of a migration, as far as slots are concerned.
MigrationOK(m) ==
    /\ DOMAIN m = {"src", "dst", "num", "slots", "keys", "key", "pieces", "pc"}
    /\ m = [f \in DOMAIN m |-> m[f]]
    /\ m.src \in Nodes /\ m.slots \subseteq Slots \cup {Blank}

SlotTypes ==
    /\ up \subseteq Nodes
    /\ slots \in [Nodes -> SUBSET (Slots \cup {Blank})]
    /\ shards \in [Nodes -> SUBSET (Slots \cup {Blank})]
    /\ mig # Idle => MigrationOK(mig)

\* Before the database of the source is written: no other node holds the slots,
\* and the memory of the source does not.
InSave ==
    mig # Idle /\ mig.pc = "save" =>
        /\ mig.src \in up
        /\ slots[mig.src] \cap mig.slots = {}
        /\ \A n \in Nodes \ {mig.src} : Holds(n) \cap mig.slots = {}

\* Before the destination has the slots: no node holds them.
InAdd ==
    mig # Idle /\ mig.pc = "add" => \A n \in Nodes : Holds(n) \cap mig.slots = {}

\* Before the database of the destination is written: its memory has them.
InAdded ==
    mig # Idle /\ mig.pc = "added" =>
        mig.dst \in up /\ mig.slots \subseteq slots[mig.dst]

InReshard == mig # Idle /\ mig.pc = "reshard" => mig.src \in up

SlotsInv ==
    /\ SlotTypes /\ SlotsDisjoint
    /\ InReshard /\ InSave /\ InAdd /\ InAdded

slotvars == <<up, slots, shards, mig>>

\* Steps that leave slots and migration alone: commands, and most of the tasks.
LEMMA SlotsUntouched == SlotsInv /\ UNCHANGED slotvars => SlotsInv'
BY DEF SlotsInv, SlotTypes, SlotsDisjoint, Holds, InReshard, InSave, InAdd, InAdded,
       slotvars, MigrationOK

\* A later step of a migration, past the moves of its slots.
LEMMA SlotsMoved ==
    ASSUME SlotsInv, UNCHANGED <<up, slots, shards>>,
           mig' # Idle => MigrationOK(mig') /\ mig'.pc \in {"keys", "copy"}
    PROVE  SlotsInv'
BY DEF SlotsInv, SlotTypes, SlotsDisjoint, Holds, InReshard, InSave, InAdd, InAdded

\* Init: the root has all the slots.
LEMMA SlotsInit == Init => SlotsInv
<1>1. SUFFICES ASSUME Init PROVE SlotsInv
  OBVIOUS
<1>2. SlotTypes
  BY <1>1, ClusterAssumption DEF Init, SlotTypes
<1>3. SlotsDisjoint
  BY <1>1, ClusterAssumption DEF Init, SlotsDisjoint, Holds
<1> QED
  BY <1>1, <1>2, <1>3 DEF Init, SlotsInv, InReshard, InSave, InAdd, InAdded

\* No step of a command moves slots (Cluster#cluster_query, LocalNode).
LEMMA CommandSlots ==
    ASSUME NEW c, SlotsInv, CommandStep(c) PROVE SlotsInv'
<1>1. UNCHANGED slotvars
  BY Zenon
     DEF CommandStep, CheckOwner, WhereIs, NotFound, Forward, StoreData,
         ShardKey, At, slotvars
<1> QED
  BY <1>1, SlotsUntouched

\* A request to migrate begins a migration at a node that runs.
LEMMA TaskSlots == SlotsInv /\ (TaskStep \/ Collected) => SlotsInv'
<1>1. SUFFICES ASSUME SlotsInv, TaskStep \/ Collected PROVE SlotsInv'
  OBVIOUS
<1>2. CASE UNCHANGED slotvars
  BY <1>1, <1>2, SlotsUntouched
<1>3. CASE Round \/ Met \/ Gossip \/ GossipSent \/ Collected
  BY <1>2, <1>3
     DEF Round, Met, Gossip, GossipSent, Collected, TaskAt, nodevars, slotvars
<1>4. CASE Migrate
  <2>1. UNCHANGED <<up, slots, shards>>
    BY <1>4 DEF Migrate, TaskAt, nodevars
  <2>2. PICK m \in task.left :
            LET src == IF task.kind = "forget" THEN task.node ELSE m
            IN  \/ UNCHANGED mig
                \/ /\ src \in up
                   /\ \E dst, x : mig' = [src |-> src, dst |-> dst, num |-> x,
                                         slots |-> {}, keys |-> {}, key |-> NoData,
                                         pieces |-> {}, pc |-> "reshard"]
    BY <1>4, Zenon DEF Migrate, Serves, Accepts
  <2> DEFINE src == IF task.kind = "forget" THEN task.node ELSE m
  <2>3. CASE UNCHANGED mig
    BY <1>2, <2>1, <2>3 DEF slotvars
  <2>4. CASE /\ src \in up
             /\ \E dst, x : mig' = [src |-> src, dst |-> dst, num |-> x,
                                   slots |-> {}, keys |-> {}, key |-> NoData,
                                   pieces |-> {}, pc |-> "reshard"]
    <3>1. MigrationOK(mig') /\ mig'.pc = "reshard" /\ mig'.src \in up
      BY <1>1, <2>4 DEF MigrationOK, SlotsInv, SlotTypes
    <3> QED
      BY <1>1, <2>1, <3>1 DEF SlotsInv, SlotTypes, SlotsDisjoint, Holds, InReshard,
                              InSave, InAdd, InAdded
  <2> QED
    BY <2>2, <2>3, <2>4
<1> QED
  BY <1>1, <1>3, <1>4 DEF TaskStep

\* KeyShard#reshard takes the slots out of the source's memory.
LEMMA ReshardSlots == SlotsInv /\ Reshard => SlotsInv'
<1>1. SUFFICES ASSUME SlotsInv, Reshard PROVE SlotsInv'
  OBVIOUS
<1> DEFINE n == mig.src
<1>2. n \in up /\ n \in Nodes /\ UNCHANGED <<up, shards>> /\ mig # Idle /\ MigrationOK(mig)
  BY <1>1 DEF Reshard, MigAt, SlotsInv, InReshard, SlotTypes
<1>3. PICK S \in SUBSET slots[n] :
        /\ slots' = [slots EXCEPT ![n] = @ \ S]
        /\ mig' = [mig EXCEPT !.slots = S, !.pc = "save",
                              !.keys = {k \in keys[n] : SlotOf[k] \in S}]
  BY <1>1, Zenon DEF Reshard
<1>4. S \subseteq Slots \cup {Blank} /\ slots'[n] = slots[n] \ S
      /\ \A m \in Nodes \ {n} : slots'[m] = slots[m]
  BY <1>1, <1>2, <1>3 DEF SlotsInv, SlotTypes
<1>5. MigrationOK(mig') /\ mig'.src = n /\ mig'.slots = S /\ mig'.pc = "save"
  BY <1>2, <1>3, <1>4, Zenon DEF MigrationOK
<1>6. SlotTypes'
  BY <1>1, <1>2, <1>3, <1>5 DEF SlotsInv, SlotTypes
<1>7. \A m \in Nodes : Holds(m)' \subseteq Holds(m)
  BY <1>2, <1>4 DEF Holds
<1>8. S \cap Slots \subseteq Holds(n)
  BY <1>2 DEF Holds
<1>9. SlotsDisjoint'
  BY <1>1, <1>7 DEF SlotsInv, SlotsDisjoint
<1>10. \A m \in Nodes \ {n} : Holds(m)' \cap S = {}
  <2>1. SUFFICES ASSUME NEW m \in Nodes \ {n} PROVE Holds(m)' \cap S = {}
    OBVIOUS
  <2>2. Holds(m) \cap Holds(n) = {} /\ Holds(m) \subseteq Slots
    BY <1>1, <1>2, <2>1 DEF SlotsInv, SlotsDisjoint, Holds
  <2> QED
    BY <1>7, <1>8, <2>1, <2>2
<1>11. InSave'
  BY <1>2, <1>4, <1>5, <1>10 DEF InSave
<1> QED
  BY <1>5, <1>6, <1>9, <1>11 DEF SlotsInv, InReshard, InAdd, InAdded

\* The database of the source is written: nobody holds the slots any more.
LEMMA SaveSlotsSlots == SlotsInv /\ SaveSlots => SlotsInv'
<1>1. SUFFICES ASSUME SlotsInv, SaveSlots PROVE SlotsInv'
  OBVIOUS
<1>2. PICK n \in up :
      /\ n = mig.src /\ n \in Nodes /\ UNCHANGED <<up, slots>> /\ mig # Idle
      /\ MigrationOK(mig) /\ mig.pc = "save"
  BY <1>1 DEF SaveSlots, MigAt, SlotsInv, InSave, SlotTypes
<1>3. PICK S \in Joined(slots[n]) : shards' = [shards EXCEPT ![n] = S]
  BY <1>1, <1>2, Zenon DEF SaveSlots
<1>4. S \subseteq slots[n]
  BY <1>3 DEF Joined
<1>5. mig' = [mig EXCEPT !.slots = @ \ {Blank}, !.pc = "add"]
  BY <1>1 DEF SaveSlots
<1>6. MigrationOK(mig') /\ mig'.slots = mig.slots \ {Blank} /\ mig'.pc = "add"
  BY <1>2, <1>5, Zenon DEF MigrationOK
<1>7. SlotTypes'
  BY <1>1, <1>2, <1>3, <1>4, <1>6 DEF SlotsInv, SlotTypes
<1>8. shards'[n] = S /\ \A m \in Nodes \ {n} : shards'[m] = shards[m]
  BY <1>1, <1>2, <1>3 DEF SlotsInv, SlotTypes
<1>9. Holds(n)' \subseteq slots[n] /\ \A m \in Nodes : Holds(m)' \subseteq Holds(m)
  BY <1>2, <1>4, <1>8 DEF Holds
<1>10. SlotsDisjoint'
  BY <1>1, <1>9 DEF SlotsInv, SlotsDisjoint
<1>11. /\ slots[n] \cap mig.slots = {}
       /\ \A m \in Nodes \ {n} : Holds(m) \cap mig.slots = {}
  BY <1>1, <1>2 DEF SlotsInv, InSave
<1>12. \A m \in Nodes : Holds(m)' \cap mig.slots = {}
  BY <1>9, <1>11
<1>13. \A m \in Nodes : Holds(m)' \cap mig'.slots = {}
  BY <1>6, <1>12
<1> QED
  BY <1>6, <1>7, <1>10, <1>13 DEF SlotsInv, InReshard, InSave, InAdd, InAdded

\* The destination gets the slots nobody holds, or the migration ends.
LEMMA AddSlotsSlots == SlotsInv /\ AddSlots => SlotsInv'
<1>1. SUFFICES ASSUME SlotsInv, AddSlots PROVE SlotsInv'
  OBVIOUS
<1>2. /\ UNCHANGED <<up, shards>> /\ mig # Idle /\ MigrationOK(mig)
      /\ \A n \in Nodes : Holds(n) \cap mig.slots = {}
  BY <1>1 DEF AddSlots, MigAt, SlotsInv, InAdd, SlotTypes
<1>3. CASE /\ Serves(mig.dst, mig.src)
           /\ slots' = [slots EXCEPT ![mig.dst] = @ \cup mig.slots]
           /\ mig' = [mig EXCEPT !.pc = "added"]
  <2>1. PICK d \in up : d = mig.dst /\ d \in Nodes
    BY <1>1, <1>3 DEF Serves, Accepts, SlotsInv, SlotTypes
  <2>2. /\ MigrationOK(mig') /\ mig'.slots = mig.slots /\ mig'.dst = d
        /\ mig'.pc = "added"
    BY <1>2, <1>3, <2>1 DEF MigrationOK
  <2>3. SlotTypes'
    BY <1>1, <1>2, <1>3, <2>2 DEF SlotsInv, SlotTypes, MigrationOK
  <2>4. slots'[d] = slots[d] \cup mig.slots /\ \A n \in Nodes \ {d} : slots'[n] = slots[n]
    BY <1>1, <1>3, <2>1 DEF SlotsInv, SlotTypes
  <2>5. Holds(d)' \subseteq Holds(d) \cup mig.slots
        /\ \A n \in Nodes \ {d} : Holds(n)' = Holds(n)
    BY <1>2, <2>4 DEF Holds
  <2>6. \A n \in Nodes \ {d} : Holds(n) \cap Holds(d) = {}
    BY <1>1, <2>1 DEF SlotsInv, SlotsDisjoint
  <2>7. \A n \in Nodes \ {d} : Holds(n)' \cap Holds(d)' = {}
    BY <1>2, <2>5, <2>6
  <2>8. SlotsDisjoint'
    <3>1. SUFFICES ASSUME NEW n \in Nodes, NEW m \in Nodes, n # m
                   PROVE Holds(n)' \cap Holds(m)' = {}
      BY DEF SlotsDisjoint
    <3>2. CASE n = d
      BY <2>7, <3>1, <3>2
    <3>3. CASE m = d
      BY <2>7, <3>1, <3>3
    <3>4. CASE n # d /\ m # d
      BY <1>1, <2>5, <3>1, <3>4 DEF SlotsInv, SlotsDisjoint
    <3> QED
      BY <3>2, <3>3, <3>4
  <2>9. InAdded'
    BY <1>2, <2>1, <2>2, <2>4 DEF InAdded
  <2> QED
    BY <2>2, <2>3, <2>8, <2>9 DEF SlotsInv, InReshard, InSave, InAdd
<1>4. CASE UNCHANGED slots /\ mig' = [mig EXCEPT !.pc = "keys"]
  <2>1. MigrationOK(mig') /\ mig'.pc = "keys"
    BY <1>2, <1>4 DEF MigrationOK
  <2> QED
    BY <1>1, <1>2, <1>4, <2>1, SlotsMoved
<1>5. CASE UNCHANGED slots /\ mig' = Idle
  BY <1>1, <1>2, <1>5, SlotsMoved
<1> QED
  BY <1>1, <1>3, <1>4, <1>5 DEF AddSlots

\* The database of the destination catches up with its memory.
LEMMA SaveAddedSlots == SlotsInv /\ SaveAdded => SlotsInv'
<1>1. SUFFICES ASSUME SlotsInv, SaveAdded PROVE SlotsInv'
  OBVIOUS
<1>2. PICK d \in up :
      /\ d = mig.dst /\ d \in Nodes /\ mig.slots \subseteq slots[d]
      /\ UNCHANGED <<up, slots>> /\ mig # Idle /\ MigrationOK(mig)
  BY <1>1 DEF SaveAdded, MigAt, SlotsInv, InAdded, SlotTypes
<1>3. PICK B \in SUBSET (slots[d] \cup {Blank}) :
        shards' = [shards EXCEPT ![d] = @ \cup B]
  <2>1. CASE mig.slots = {} /\ shards[d] # {}
    <3>1. shards' = [shards EXCEPT ![d] = @ \cup {Blank}]
      BY <1>1, <1>2, <2>1 DEF SaveAdded
    <3> QED
      BY <3>1, Zenon
  <2>2. CASE ~(mig.slots = {} /\ shards[d] # {})
    <3>1. shards' = [shards EXCEPT ![d] = @ \cup mig.slots]
      BY <1>1, <1>2, <2>2, Zenon DEF SaveAdded
    <3> QED
      BY <1>2, <3>1, Zenon
  <2> QED
    BY <2>1, <2>2
<1>4. mig' = [mig EXCEPT !.pc = "keys"]
  BY <1>1 DEF SaveAdded
<1>5. MigrationOK(mig') /\ mig'.pc = "keys"
  BY <1>2, <1>4 DEF MigrationOK
<1>6. B \subseteq Slots \cup {Blank}
  BY <1>1, <1>2, <1>3 DEF SlotsInv, SlotTypes
<1>7. SlotTypes'
  BY <1>1, <1>2, <1>3, <1>5, <1>6 DEF SlotsInv, SlotTypes
<1>8. shards'[d] = shards[d] \cup B /\ \A n \in Nodes \ {d} : shards'[n] = shards[n]
  BY <1>1, <1>2, <1>3 DEF SlotsInv, SlotTypes
<1>9. Holds(d)' \subseteq Holds(d) /\ \A n \in Nodes \ {d} : Holds(n)' = Holds(n)
  BY <1>2, <1>3, <1>8, ClusterAssumption DEF Holds
<1>10. SlotsDisjoint'
  BY <1>1, <1>9 DEF SlotsInv, SlotsDisjoint
<1> QED
  BY <1>5, <1>7, <1>10 DEF SlotsInv, InReshard, InSave, InAdd, InAdded

\* Copying the keys moves no slots.
LEMMA CopySlots ==
    SlotsInv /\ (ReadKey \/ CopyPiece \/ DeleteMoved \/ Migrated) => SlotsInv'
<1>1. SUFFICES ASSUME SlotsInv, ReadKey \/ CopyPiece \/ DeleteMoved \/ Migrated
               PROVE SlotsInv'
  OBVIOUS
<1>2. UNCHANGED <<up, slots, shards>> /\ mig # Idle /\ MigrationOK(mig)
  BY <1>1, Zenon
     DEF ReadKey, CopyPiece, DeleteMoved, Migrated, MigAt, nodevars, SlotsInv,
         SlotTypes
<1>3. CASE ReadKey
  <2>1. PICK k, P, K : mig' = [mig EXCEPT !.key = k, !.pieces = P, !.keys = K,
                                         !.pc = "copy"]
    BY <1>3, Zenon DEF ReadKey
  <2>2. MigrationOK(mig') /\ mig'.pc = "copy"
    BY <1>2, <2>1, Zenon DEF MigrationOK
  <2> QED
    BY <1>1, <1>2, <2>2, SlotsMoved
<1>4. CASE CopyPiece
  <2>1. mig.pc = "copy" /\ \E P : mig' = [mig EXCEPT !.pieces = P]
    BY <1>4, Zenon DEF CopyPiece, MigAt
  <2>2. MigrationOK(mig') /\ mig'.pc = "copy"
    BY <1>2, <2>1 DEF MigrationOK
  <2> QED
    BY <1>1, <1>2, <2>2, SlotsMoved
<1>5. CASE DeleteMoved
  <2>1. mig' = [mig EXCEPT !.key = NoData, !.pc = "keys"]
    BY <1>5 DEF DeleteMoved
  <2>2. MigrationOK(mig') /\ mig'.pc = "keys"
    BY <1>2, <2>1, Zenon DEF MigrationOK
  <2> QED
    BY <1>1, <1>2, <2>2, SlotsMoved
<1>6. CASE Migrated
  BY <1>1, <1>2, <1>6, SlotsMoved DEF Migrated
<1> QED
  BY <1>1, <1>3, <1>4, <1>5, <1>6

\* A node that stops holds no more than before; a migration it takes part in
\* ends, or goes on without it.
LEMMA StopSlots == ASSUME NEW n \in Nodes, SlotsInv, Stop(n) PROVE SlotsInv'
<1>1. n \in up /\ up' = up \ {n} /\ UNCHANGED <<slots, shards>>
  BY DEF Stop, nodevars
<1>2. \A m \in Nodes : Holds(m)' \subseteq Holds(m)
  BY <1>1 DEF Holds
<1>3. SlotsDisjoint'
  BY <1>2 DEF SlotsInv, SlotsDisjoint
<1>4. CASE mig' = Idle
  BY <1>1, <1>3, <1>4 DEF SlotsInv, SlotTypes, InReshard, InSave, InAdd, InAdded
<1>5. CASE /\ mig # Idle /\ mig.src # n /\ mig' = mig
           /\ ~(mig.dst = n /\ mig.pc = "added")
  <2>1. SlotTypes' /\ InReshard' /\ InAdded'
    BY <1>1, <1>5 DEF SlotsInv, SlotTypes, InReshard, InAdded, MigrationOK
  <2>2. InAdd'
    BY <1>2, <1>5 DEF SlotsInv, InAdd
  <2>3. InSave'
    BY <1>1, <1>2, <1>5 DEF SlotsInv, InSave
  <2> QED
    BY <1>3, <2>1, <2>2, <2>3 DEF SlotsInv
<1>6. CASE mig # Idle /\ mig' = [mig EXCEPT !.pc = "keys"]
  <2>1. MigrationOK(mig') /\ mig'.pc = "keys"
    BY <1>6 DEF SlotsInv, SlotTypes, MigrationOK
  <2> QED
    BY <1>1, <1>3, <2>1 DEF SlotsInv, SlotTypes, InReshard, InSave, InAdd, InAdded
<1> QED
  BY <1>4, <1>5, <1>6 DEF Stop

\* A node that starts holds what its database said.
LEMMA StartSlots == ASSUME NEW n \in Nodes, SlotsInv, Start(n) PROVE SlotsInv'
<1>1. /\ n \notin up /\ up' = up \cup {n} /\ slots' = [slots EXCEPT ![n] = shards[n]]
      /\ UNCHANGED <<shards, mig>>
  BY DEF Start
<1>2. slots'[n] = shards[n] /\ \A m \in Nodes \ {n} : slots'[m] = slots[m]
  BY <1>1 DEF SlotsInv, SlotTypes
<1>3. \A m \in Nodes : Holds(m)' = Holds(m)
  BY <1>1, <1>2 DEF Holds
<1>4. SlotTypes'
  BY <1>1 DEF SlotsInv, SlotTypes, MigrationOK
<1>5. SlotsDisjoint'
  BY <1>3 DEF SlotsInv, SlotsDisjoint
<1>6. InReshard' /\ InAdd'
  BY <1>1, <1>3 DEF SlotsInv, InReshard, InAdd
<1>7. InAdded'
  BY <1>1, <1>2 DEF SlotsInv, SlotTypes, InAdded
<1>8. InSave'
  <2>1. SUFFICES ASSUME mig # Idle, mig.pc = "save" PROVE InSave'
    BY <1>1 DEF InSave
  <2>2. /\ mig.src \in up /\ mig.src \in Nodes \ {n}
        /\ slots[mig.src] \cap mig.slots = {}
        /\ \A m \in Nodes \ {mig.src} : Holds(m) \cap mig.slots = {}
    BY <1>1, <2>1 DEF SlotsInv, InSave, SlotTypes
  <2> QED
    BY <1>1, <1>2, <1>3, <2>2 DEF InSave
<1> QED
  BY <1>4, <1>5, <1>6, <1>7, <1>8 DEF SlotsInv

\* The invariant is inductive: one case for each action of the nodes.
LEMMA SlotsNext == SlotsInv /\ [Next]_vars => SlotsInv'
<1>1. SUFFICES ASSUME SlotsInv, [Next]_vars PROVE SlotsInv'
  OBVIOUS
<1>2. CASE UNCHANGED vars
  BY <1>1, <1>2, SlotsUntouched DEF vars, nodevars, slotvars
<1>3. ASSUME NEW c \in Clients, NEW n, NEW op, NEW k, NEW v, Request(c, n, op, k, v)
      PROVE  SlotsInv'
  BY <1>1, <1>3, SlotsUntouched DEF Request, nodevars, slotvars
<1>4. CASE Administer
  <2>1. UNCHANGED slotvars
    <3>1. ASSUME NEW t, Starts(t) PROVE UNCHANGED slotvars
      BY <3>1 DEF Starts, nodevars, slotvars
    <3>2. ASSUME NEW a, NEW m, Meet(a, m) PROVE UNCHANGED slotvars
      BY <3>2 DEF Meet, auth_node, nodevars, slotvars
    <3>3. ASSUME NEW a, NEW m, Forget(a, m) PROVE UNCHANGED slotvars
      BY <3>1, <3>3, Zenon DEF Forget
    <3>4. ASSUME NEW a, NEW num, NEW m, ReshardAll(a, num, m) PROVE UNCHANGED slotvars
      BY <3>1, <3>4, Zenon DEF ReshardAll
    <3>5. ASSUME NEW a, NEW num, NEW src, NEW m, ReshardOne(a, num, src, m)
          PROVE  UNCHANGED slotvars
      BY <3>1, <3>5, Zenon DEF ReshardOne
    <3> QED
      BY <1>4, <3>2, <3>3, <3>4, <3>5, Zenon DEF Administer
  <2> QED
    BY <1>1, <2>1, SlotsUntouched
<1>5. CASE MigrateStep
  BY <1>1, <1>5, ReshardSlots, SaveSlotsSlots, AddSlotsSlots, SaveAddedSlots,
     CopySlots
     DEF MigrateStep
<1> QED
  BY <1>1, <1>2, <1>3, <1>4, <1>5, CommandSlots, TaskSlots, StopSlots,
     StartSlots
     DEF Next

\* No two nodes ever hold a slot, in memory or on disk, at any moment of a
\* migration by LocalNode#migrate and whatever nodes stop and start.
THEOREM ClusterSlotsDisjoint == Spec => []SlotsDisjoint
<1>1. SlotsInv => SlotsDisjoint
  BY DEF SlotsInv
<1> QED
  BY <1>1, SlotsInit, SlotsNext, PTL DEF Spec
-----------------------------------------------------------------------------
\* Types.

\* What the type invariant needs besides: SET and SADD carry a value, and a key
\* is being copied.
Typed ==
    /\ TypeOK
    /\ \A c \in Clients : cmd[c] # Idle /\ cmd[c].op # "DELETE" => cmd[c].val \in Values
    /\ mig # Idle /\ mig.pc = "copy" => mig.key \in Keys

\* A finite set of numbers has a greatest element: Resume's last waiting caller.
LEMMA HasGreatest ==
    ASSUME NEW n \in Nat, NEW W \in SUBSET (1..n), W # {}
    PROVE  \E i \in W : \A j \in W : j <= i
<1> DEFINE T == {n - i : i \in W}
<1>1. T \subseteq Nat /\ T # {}
  <2>1. \A i \in W : n - i \in Nat
    OBVIOUS
  <2> QED
    BY <2>1, Zenon
<1>2. PICK x \in T : \A y \in T : <<y, x>> \notin OpToRel(<, Nat)
  BY <1>1, WFMin, NatLessThanWellFounded, Zenon
<1>3. \A y \in T : ~(y < x)
  BY <1>1, <1>2, Zenon DEF OpToRel
<1>4. PICK i \in W : x = n - i
  OBVIOUS
<1>5. \A j \in W : n - j \in T
  OBVIOUS
<1>6. \A j \in W : j <= i
  BY <1>3, <1>4, <1>5
<1> QED
  BY <1>6

\* Resume (DELETE goes on at the node that forwarded it, Cluster#cluster_query)
\* yields a command or the end of it.
LEMMA ResumeTyped ==
    ASSUME NEW r \in Command
    PROVE  /\ Resume(r) \in Command \cup {Idle}
           /\ Resume(r) # Idle => Resume(r).op = "DELETE"
<1>1. CASE r.op # "DELETE" \/ Waiting(r.path) = {}
  BY <1>1 DEF Resume
<1>2. CASE r.op = "DELETE" /\ Waiting(r.path) # {}
  <2> DEFINE W == Waiting(r.path)
             i == CHOOSE i \in W : \A j \in W : j <= i
  <2>1. r.path \in Seq(Nodes \cup {Idle}) /\ Len(r.path) \in Nat /\ W \in SUBSET (1..Len(r.path))
    BY DEF Command, Waiting
  <2>2. \E k \in W : \A j \in W : j <= k
    BY <1>2, <2>1, HasGreatest, Zenon
  <2>3. i \in W
    BY <2>2
  <2> HIDE DEF i
  <2>4. i \in 1..Len(r.path) /\ r.path[i] \in Nodes
    BY <2>1, <2>3 DEF Waiting
  <2>5. SubSeq(r.path, 1, i - 1) \in Seq(Nodes \cup {Idle})
    BY <2>1, <2>4
  <2>6. Resume(r) = [r EXCEPT !.node = r.path[i], !.own = FALSE, !.pc = "store",
                              !.path = SubSeq(r.path, 1, i - 1)]
    BY <1>2 DEF Resume, i
  <2> QED
    BY <1>2, <2>4, <2>5, <2>6, Zenon DEF Command
<1> QED
  BY <1>1, <1>2 DEF Command

\* A stop of node n leaves a command a command.
LEMMA DroppedTyped ==
    ASSUME NEW r \in Command, NEW n
    PROVE  [r EXCEPT !.path = Dropped(r.path, n)] \in Command
<1>1. r.path \in Seq(Nodes \cup {Idle})
  BY DEF Command
<1>2. Dropped(r.path, n) \in Seq(Nodes \cup {Idle})
  BY <1>1 DEF Dropped
<1> QED
  BY <1>2 DEF Command

\* SET, SADD and DELETE make data of data.
LEMMA EffectTyped ==
    ASSUME NEW op \in {"SET", "SADD", "DELETE"}, NEW v, op # "DELETE" => v \in Values,
           NEW data \in Data
    PROVE  Effect(op, v, data) \in Data
<1>1. CASE op = "SET"
  BY <1>1 DEF Effect, Data
<1>2. CASE op = "DELETE"
  BY <1>2 DEF Effect, Data
<1>3. CASE op = "SADD"
  <2> DEFINE S == IF data # NoData /\ data[1] = "set" THEN data[2] ELSE {}
  <2>1. S \subseteq Values
    BY DEF Data, String, SetOf
  <2>2. Effect(op, v, data) = SetOf({v} \cup S)
    BY <1>3 DEF Effect
  <2>3. {v} \cup S \in SUBSET Values
    BY <1>3, <2>1
  <2> QED
    BY <2>2, <2>3 DEF Data
<1> QED
  BY <1>1, <1>2, <1>3

\* LocalNode#migrate copies a value by SETs and SADDs of values.
LEMMA PiecesTyped ==
    ASSUME NEW data \in Data
    PROVE  Pieces(data) \subseteq {"SET", "SADD"} \X Values
<1>1. CASE data = NoData
  BY <1>1 DEF Pieces
<1>2. ASSUME NEW v \in Values, data = String(v), data # NoData
      PROVE  Pieces(data) \subseteq {"SET", "SADD"} \X Values
  BY <1>2 DEF Pieces, String
<1>3. ASSUME NEW S \in SUBSET Values, data = SetOf(S), data # NoData
      PROVE  Pieces(data) \subseteq {"SET", "SADD"} \X Values
  <2>1. data[1] = "set" /\ data[2] = S
    BY <1>3 DEF SetOf
  <2>2. Pieces(data) = {<<"SADD", v>> : v \in S}
    BY <1>3, <2>1 DEF Pieces
  <2> QED
    BY <2>2
<1> QED
  BY <1>1, <1>2, <1>3 DEF Data

\* A task that goes on after an answer to MIGRATE is a task of the same node.
LEMMA ProceedTyped ==
    ASSUME NEW t \in Task
    PROVE  /\ Proceed(t) \in Task \cup {Idle}
           /\ Proceed(t) # Idle => Proceed(t).at = t.at
BY DEF Proceed, Task

\* KeyShard#size is a number.
LEMMA SlotsFinite ==
    ASSUME TypeOK, NEW m \in Nodes
    PROVE  IsFiniteSet(slots[m]) /\ Cardinality(slots[m]) \in Nat
<1>1. slots[m] \subseteq Slots \cup {Blank}
  BY DEF TypeOK
<1>2. IsFiniteSet(slots[m])
  BY <1>1, ClusterAssumption, FS_AddElement, FS_Subset, Zenon
<1> QED
  BY <1>2, FS_CardinalityType

\* The answer to SIZE is a number.
LEMMA SlotCountTyped ==
    ASSUME TypeOK, NEW m \in Nodes, NEW n PROVE SlotCount(m, n) \in Nat
BY SlotsFinite DEF SlotCount

\* The history variables after a disturbance.
LEMMA DisturbTyped ==
    ASSUME TypeOK, NEW K \in SUBSET Keys, Disturb(K)
    PROVE  truth' \in [Keys -> Data] /\ disturbed' \subseteq Keys
BY DEF TypeOK, Disturb, Data

\* A client sends a command.
LEMMA RequestTyped ==
    ASSUME NEW c \in Clients, NEW n \in Nodes, NEW k \in Keys,
           NEW op \in {"SET", "SADD", "DELETE"}, NEW v \in Values \cup {NoData},
           op # "DELETE" => v \in Values, Typed, Request(c, n, op, k, v)
    PROVE  Typed'
<1> DEFINE r == [op |-> op, key |-> k, val |-> v, node |-> n, pc |-> "check",
                 own |-> TRUE, asked |-> {}, path |-> <<>>]
<1>1. r \in Command /\ r.op = op /\ r.val = v
  BY DEF Command
<1>2. cmd' = [cmd EXCEPT ![c] = r] /\ UNCHANGED <<up, known, nodevars, mig, task, tasks, stops>>
  BY DEF Request
<1>3. truth' \in [Keys -> Data] /\ disturbed' \subseteq Keys
  BY DisturbTyped DEF Request, Typed
<1> HIDE DEF r
<1> QED
  BY <1>1, <1>2, <1>3 DEF Typed, TypeOK, nodevars

\* A command that goes on as a command, or ends.
LEMMA BecomesTyped ==
    ASSUME NEW c \in Clients, NEW r \in Command \cup {Idle}, Typed, Becomes(c, r),
           r # Idle /\ r.op # "DELETE" => r.val \in Values,
           UNCHANGED <<up, known, slots, shards, mig, task, tasks, stops>>,
           keys' \in [Nodes -> SUBSET Keys], db' \in [Nodes -> [Keys -> Data]],
           truth' \in [Keys -> Data], disturbed' \subseteq Keys
    PROVE  Typed'
BY DEF Typed, TypeOK, Becomes

\* Every step of a command: the look at the shard, WHEREIS, the forwarding, the
\* access to the data and to the keys of the shard.
LEMMA CommandTyped ==
    ASSUME NEW c \in Clients, Typed, CommandStep(c) PROVE Typed'
<1> DEFINE r == cmd[c]
<1>1. r \in Command /\ r # Idle /\ (r.op # "DELETE" => r.val \in Values)
      /\ UNCHANGED <<up, known, slots, shards, mig, task, tasks, stops>>
  BY Zenon
     DEF CommandStep, CheckOwner, WhereIs, NotFound, Forward, StoreData,
         ShardKey, At, Typed, TypeOK
<1>2. keys \in [Nodes -> SUBSET Keys] /\ db \in [Nodes -> [Keys -> Data]]
      /\ truth \in [Keys -> Data] /\ disturbed \subseteq Keys
  BY DEF Typed, TypeOK
<1>3. /\ Resume(r) \in Command \cup {Idle}
      /\ Resume(r) # Idle => Resume(r).op = "DELETE"
  BY <1>1, ResumeTyped
<1>4. CASE CheckOwner(c)
  <2>1. UNCHANGED <<keys, db, history>>
    BY <1>4 DEF CheckOwner
  <2>2. Becomes(c, Resume(r)) \/ Becomes(c, [r EXCEPT !.pc = "store"])
        \/ Becomes(c, [r EXCEPT !.pc = "where"])
    BY <1>4 DEF CheckOwner
  <2>3. \A pc \in {"store", "where"} :
            /\ [r EXCEPT !.pc = pc] \in Command
            /\ [r EXCEPT !.pc = pc].op = r.op /\ [r EXCEPT !.pc = pc].val = r.val
    BY <1>1 DEF Command
  <2> QED
    BY <1>1, <1>2, <1>3, <2>1, <2>2, <2>3, BecomesTyped, Zenon DEF history
<1>5. CASE WhereIs(c)
  <2>1. UNCHANGED <<keys, db, history>>
    BY <1>5 DEF WhereIs
  <2>2. PICK m \in known[r.node] : Becomes(c, [r EXCEPT !.asked = r.asked \cup {m}])
        \/ Becomes(c, [r EXCEPT !.asked = {m}, !.pc = "forward"])
    BY <1>5, Zenon DEF WhereIs
  <2>3. m \in Nodes
    BY <1>1 DEF Typed, TypeOK, Command
  <2>4. \A r1 \in {[r EXCEPT !.asked = r.asked \cup {m}],
                   [r EXCEPT !.asked = {m}, !.pc = "forward"]} :
            r1 \in Command /\ r1.op = r.op /\ r1.val = r.val
    <3>1. r.asked \cup {m} \in SUBSET Nodes /\ {m} \in SUBSET Nodes
      BY <1>1, <2>3 DEF Command
    <3>2. ASSUME NEW A \in SUBSET Nodes
          PROVE  LET r1 == [r EXCEPT !.asked = A]
                 IN  r1 \in Command /\ r1.op = r.op /\ r1.val = r.val
      BY <1>1 DEF Command
    <3>3. ASSUME NEW A \in SUBSET Nodes
          PROVE  LET r1 == [r EXCEPT !.asked = A, !.pc = "forward"]
                 IN  r1 \in Command /\ r1.op = r.op /\ r1.val = r.val
      BY <1>1, Zenon DEF Command
    <3> QED
      BY <3>1, <3>2, <3>3, Zenon
  <2> QED
    BY <1>1, <1>2, <2>1, <2>2, <2>4, BecomesTyped, Zenon DEF history
<1>6. CASE NotFound(c)
  BY <1>1, <1>2, <1>3, <1>6, BecomesTyped DEF NotFound, history
<1>7. CASE Forward(c)
  <2>1. UNCHANGED <<keys, db, history>>
    BY <1>7 DEF Forward
  <2> DEFINE f == [r EXCEPT !.asked = {}, !.path = Append(r.path, r.node)]
  <2>2. PICK m \in r.asked : Becomes(c, Resume(r)) \/ Becomes(c, Resume(f))
            \/ Becomes(c, [f EXCEPT !.node = m, !.pc = "check"])
    BY <1>7, Zenon DEF Forward
  <2>3. f \in Command /\ f.op = r.op /\ f.val = r.val /\ m \in Nodes
    <3>1. Append(r.path, r.node) \in Seq(Nodes \cup {Idle}) /\ m \in Nodes
      BY <1>1 DEF Command
    <3> QED
      BY <1>1, <3>1, Zenon DEF Command
  <2>4. /\ Resume(f) \in Command \cup {Idle}
        /\ Resume(f) # Idle => Resume(f).op = "DELETE"
    BY <2>3, ResumeTyped
  <2>5. /\ [f EXCEPT !.node = m, !.pc = "check"] \in Command
        /\ [f EXCEPT !.node = m, !.pc = "check"].op = r.op
        /\ [f EXCEPT !.node = m, !.pc = "check"].val = r.val
    BY <2>3, Zenon DEF Command
  <2> HIDE DEF f
  <2> QED
    BY <1>1, <1>2, <1>3, <2>1, <2>2, <2>4, <2>5, BecomesTyped, Zenon DEF history
<1>8. CASE StoreData(c)
  <2>1. UNCHANGED <<keys, disturbed>> /\ Becomes(c, [r EXCEPT !.pc = "keys"])
    BY <1>8 DEF StoreData
  <2>2. r.node \in Nodes /\ r.key \in Keys /\ r.op \in {"SET", "SADD", "DELETE"}
    BY <1>1 DEF Command
  <2>3. \A data \in Data : Effect(r.op, r.val, data) \in Data
    BY <1>1, <2>2, EffectTyped
  <2>4. db' = [db EXCEPT ![r.node][r.key] = Effect(r.op, r.val, db[r.node][r.key])]
    BY <1>8 DEF StoreData
  <2>5. db[r.node][r.key] \in Data /\ truth[r.key] \in Data
    BY <1>2, <2>2
  <2>6. db' \in [Nodes -> [Keys -> Data]]
    BY <1>2, <2>2, <2>3, <2>4, <2>5
  <2>7. truth' = truth \/ truth' = [truth EXCEPT ![r.key] = Effect(r.op, r.val, truth[r.key])]
    BY <1>8 DEF StoreData
  <2>8. truth' \in [Keys -> Data]
    BY <1>2, <2>2, <2>3, <2>5, <2>7
  <2>9. /\ [r EXCEPT !.pc = "keys"] \in Command
        /\ [r EXCEPT !.pc = "keys"].op = r.op /\ [r EXCEPT !.pc = "keys"].val = r.val
    BY <1>1 DEF Command
  <2> QED
    BY <1>1, <1>2, <2>1, <2>6, <2>8, <2>9, BecomesTyped, Zenon
<1>9. CASE ShardKey(c)
  <2>1. Becomes(c, Resume(r)) /\ UNCHANGED db
    BY <1>9 DEF ShardKey
  <2>2. r.node \in Nodes /\ r.key \in Keys
    BY <1>1 DEF Command
  <2>3. keys' \in [Nodes -> SUBSET Keys]
    BY <1>2, <1>9, <2>2 DEF ShardKey
  <2>4. PICK K \in SUBSET Keys : Disturb(K)
    BY <1>9, <2>2 DEF ShardKey
  <2>5. truth' \in [Keys -> Data] /\ disturbed' \subseteq Keys
    BY <2>4, DisturbTyped DEF Typed
  <2> QED
    BY <1>1, <1>2, <1>3, <2>1, <2>3, <2>5, BecomesTyped
<1> QED
  BY <1>4, <1>5, <1>6, <1>7, <1>8, <1>9 DEF CommandStep

\* A step of a task or a migration that leaves commands and history alone.
LEMMA TaskTyped ==
    ASSUME Typed, task' \in Task \cup {Idle}, task' # Idle => task'.at \in up,
           known' \in [Nodes -> SUBSET Nodes], tasks' \in Nat,
           mig' \in Migration \cup {Idle},
           mig' # Idle /\ mig'.pc = "copy" => mig'.key \in Keys,
           UNCHANGED <<up, nodevars, cmd, history, stops>>
    PROVE  Typed'
BY DEF Typed, TypeOK, nodevars, history

\* RESHARD, FORGET and MEET start a task.
LEMMA AdministerTyped == Typed /\ Administer => Typed'
<1>1. SUFFICES ASSUME Typed, Administer PROVE Typed'
  OBVIOUS
<1>2. ASSUME NEW t \in Task, t.at \in up, Starts(t) PROVE Typed'
  BY <1>1, <1>2, TaskTyped DEF Starts, Typed, TypeOK
<1>3. \A a, m \in Nodes : SlotCount(m, a) \in Nat
  BY <1>1, SlotCountTyped DEF Typed
<1>4. ASSUME NEW a \in Nodes, NEW f \in Nodes, Forget(a, f) PROVE Typed'
  <2> DEFINE t == [kind |-> "forget", at |-> a, node |-> f, num |-> SlotCount(f, a),
                   dist |-> [m \in Nodes |-> 0],
                   per |-> 0, left |-> {}, news |-> {f}, pc |-> "round"]
  <2>1. t \in Task /\ t.at = a
    BY <1>3 DEF Task
  <2>2. Starts(t) /\ a \in up
    BY <1>4 DEF Forget, Ready
  <2> QED
    BY <1>2, <2>1, <2>2
<1>5. ASSUME NEW a \in Nodes, NEW num \in Nat, NEW dst \in Nodes, ReshardAll(a, num, dst)
      PROVE  Typed'
  <2> DEFINE d == [m \in Nodes |-> IF m \in known[a] \ {dst} THEN SlotCount(m, a) ELSE 0]
             t == [kind |-> "all", at |-> a, node |-> dst, num |-> num, dist |-> d,
                   per |-> 0, left |-> {}, news |-> {}, pc |-> "round"]
  <2>1. d \in [Nodes -> Nat]
    BY <1>3
  <2>2. Starts(t) /\ a \in up
    BY <1>5 DEF ReshardAll, Ready
  <2> HIDE DEF d
  <2>3. t \in Task /\ t.at = a
    BY <2>1 DEF Task
  <2> QED
    BY <1>2, <2>2, <2>3
<1>6. ASSUME NEW a \in Nodes, NEW num \in Nat, NEW src \in Nodes, NEW dst \in Nodes,
             ReshardOne(a, num, src, dst)
      PROVE  Typed'
  <2> DEFINE t == [kind |-> "one", at |-> a, node |-> dst, num |-> num,
                   dist |-> [m \in Nodes |-> 0],
                   per |-> num, left |-> {src}, news |-> {}, pc |-> "next"]
  <2>1. t \in Task /\ t.at = a
    BY DEF Task
  <2>2. Starts(t) /\ a \in up
    BY <1>6 DEF ReshardOne, Ready
  <2> QED
    BY <1>2, <2>1, <2>2
<1>7. ASSUME NEW a \in Nodes, NEW m \in Nodes, Meet(a, m) PROVE Typed'
  <2> DEFINE t == [kind |-> "meet", at |-> a, node |-> m, num |-> 0,
                   dist |-> [x \in Nodes |-> 0], per |-> 0, left |-> {},
                   news |-> {}, pc |-> "met"]
  <2>1. t \in Task /\ t.at = a
    BY DEF Task
  <2>2. task' = t /\ a \in up /\ tasks' = tasks + 1 /\ known' = [known EXCEPT ![m] = @ \cup {a}]
        /\ UNCHANGED <<up, nodevars, cmd, mig, history, stops>>
    BY <1>7 DEF Meet, Ready, auth_node
  <2> HIDE DEF t
  <2>3. known' \in [Nodes -> SUBSET Nodes] /\ tasks' \in Nat /\ mig \in Migration \cup {Idle}
    BY <1>1, <2>2 DEF Typed, TypeOK
  <2> QED
    BY <1>1, <2>1, <2>2, <2>3, TaskTyped DEF Typed
<1>8. \A num \in 0..MaxNum : num \in Nat
  BY ClusterAssumption
<1> QED
  BY <1>1, <1>4, <1>5, <1>6, <1>7, <1>8, Zenon DEF Administer

\* Every step of a task.
LEMMA TaskStepTyped == Typed /\ (TaskStep \/ Collected) => Typed'
<1>1. SUFFICES ASSUME Typed, TaskStep \/ Collected PROVE Typed'
  OBVIOUS
<1>2. task \in Task /\ task # Idle /\ task.at \in up
      /\ UNCHANGED <<up, nodevars, cmd, history, tasks, stops>>
  BY <1>1, Zenon
     DEF TaskStep, Collected, Round, Migrate, Met, Gossip, GossipSent, TaskAt,
         Typed, TypeOK
<1>3. known \in [Nodes -> SUBSET Nodes] /\ tasks \in Nat /\ mig \in Migration \cup {Idle}
      /\ (mig # Idle /\ mig.pc = "copy" => mig.key \in Keys)
  BY <1>1 DEF Typed, TypeOK
<1>4. CASE Round
  <2> DEFINE sources == Sources(task)
             share == task.num \div Cardinality(sources)
             per == IF share = 0 THEN task.num ELSE share
  <2>1. sources \in SUBSET Nodes
    BY <1>2, <1>3 DEF Sources, Task
  <2>2. IsFiniteSet(sources)
    BY <2>1, ClusterAssumption, FS_Subset
  <2>3. ASSUME task.num > 0, sources # {} PROVE per \in Nat
    <3>1. Cardinality(sources) \in Nat \ {0}
      BY <2>2, <2>3, FS_CardinalityType, FS_EmptySet
    <3>2. task.num \in Nat
      BY <1>2, <2>3 DEF Task
    <3> QED
      BY <3>1, <3>2
  <2>4. UNCHANGED <<known, mig>>
        /\ \/ task' = Idle
           \/ task' = [task EXCEPT !.left = known[task.at], !.pc = "gossip"]
           \/ task.num > 0 /\ sources # {}
              /\ task' = [task EXCEPT !.per = per, !.left = sources, !.pc = "next"]
    BY <1>2, <1>4 DEF Round, Task
  <2> HIDE DEF sources, per
  <2>5. task' \in Task \cup {Idle} /\ (task' # Idle => task'.at = task.at)
    BY <1>2, <1>3, <2>1, <2>3, <2>4, Zenon DEF Task
  <2> QED
    BY <1>1, <1>2, <1>3, <2>4, <2>5, TaskTyped
<1>5. CASE Migrate
  <2>1. PICK m \in task.left :
        LET x == IF task.kind = "all" THEN Min2(task.per, task.dist[m])
                 ELSE task.per
            src == IF task.kind = "forget" THEN task.node ELSE m
            dst == IF task.kind = "forget" THEN m ELSE task.node
            t == [task EXCEPT !.num = @ - x, !.left = @ \ {m}]
        IN  /\ IF Serves(src, task.at)
               THEN /\ task' = [t EXCEPT !.pc = "wait"]
                    /\ mig' = [src |-> src, dst |-> dst, num |-> x,
                               slots |-> {}, keys |-> {}, key |-> NoData,
                               pieces |-> {}, pc |-> "reshard"]
               ELSE /\ task' = IF Accepts(src, task.at)
                               THEN [t EXCEPT !.pc = "hung"] ELSE Proceed(t)
                    /\ UNCHANGED mig
    BY <1>5, Zenon DEF Migrate
  <2> DEFINE x == IF task.kind = "all" THEN Min2(task.per, task.dist[m]) ELSE task.per
             src == IF task.kind = "forget" THEN task.node ELSE m
             dst == IF task.kind = "forget" THEN m ELSE task.node
             num == task.num - x
             t == [task EXCEPT !.num = num, !.left = @ \ {m}]
  <2>2. \/ /\ task' = [t EXCEPT !.pc = "wait"]
           /\ mig' = [src |-> src, dst |-> dst, num |-> x,
                      slots |-> {}, keys |-> {}, key |-> NoData,
                      pieces |-> {}, pc |-> "reshard"]
        \/ (task' = [t EXCEPT !.pc = "hung"] \/ task' = Proceed(t)) /\ UNCHANGED mig
    BY <2>1
  <2>3. m \in Nodes /\ src \in Nodes /\ dst \in Nodes /\ x \in Nat
    BY <1>2 DEF Task, Min2
  <2>4. t \in Task /\ t.at = task.at
    <3>1. num \in Int
      BY <1>2, <2>3 DEF Task
    <3> HIDE DEF num
    <3> QED
      BY <1>2, <3>1, Zenon DEF Task
  <2>5. task' = [t EXCEPT !.pc = "wait"] \/ task' = [t EXCEPT !.pc = "hung"] \/ task' = Proceed(t)
    BY <2>2
  <2> HIDE DEF t, x, src, dst
  <2>6. task' \in Task \cup {Idle} /\ (task' # Idle => task'.at = t.at)
    BY <2>4, <2>5, ProceedTyped DEF Task
  <2>7. mig' \in Migration \cup {Idle}
        /\ (mig' # Idle /\ mig'.pc = "copy" => mig'.key \in Keys)
    BY <1>3, <2>2, <2>3 DEF Migration
  <2>8. UNCHANGED known
    BY <1>5 DEF Migrate
  <2> QED
    BY <1>1, <1>2, <1>3, <2>4, <2>6, <2>7, <2>8, TaskTyped
<1>6. CASE Met
  <2>1. task.at \in Nodes /\ task.node \in Nodes
    BY <1>2 DEF Task
  <2>2. UNCHANGED mig /\ known' = [known EXCEPT ![task.at] = @ \cup {task.node}]
    BY <1>6 DEF Met
  <2>3. known' \in [Nodes -> SUBSET Nodes]
    BY <1>3, <2>1, <2>2
  <2>4. task' = [task EXCEPT !.news = known'[task.at], !.left = known'[task.at], !.pc = "gossip"]
    BY <1>6 DEF Met
  <2>5. task' \in Task /\ task'.at = task.at
    BY <1>2, <2>1, <2>3, <2>4, Zenon DEF Task
  <2> QED
    BY <1>1, <1>2, <1>3, <2>2, <2>3, <2>5, TaskTyped
<1>7. CASE Gossip
  <2>1. PICK m \in task.left :
            /\ task' = IF m \in up THEN [task EXCEPT !.left = @ \ {m}] ELSE Idle
            /\ (known' = known \/ known' = [known EXCEPT ![m] = Gossiped(m)])
    BY <1>7, Zenon DEF Gossip
  <2>2. m \in Nodes /\ Gossiped(m) \subseteq Nodes
    BY <1>2, <1>3 DEF Gossiped, Task
  <2>3. known' \in [Nodes -> SUBSET Nodes] /\ UNCHANGED mig
    <3>1. UNCHANGED mig
      BY <1>7 DEF Gossip
    <3> QED
      BY <1>3, <2>1, <2>2, <3>1
  <2>4. task' \in Task \cup {Idle} /\ (task' # Idle => task'.at = task.at)
    BY <1>2, <2>1 DEF Task
  <2> QED
    BY <1>1, <1>2, <1>3, <2>3, <2>4, TaskTyped
<1>8. CASE GossipSent
  <2>1. known' \in [Nodes -> SUBSET Nodes] /\ UNCHANGED mig /\ task' = Idle
    BY <1>3, <1>8, Zenon DEF GossipSent
  <2> QED
    BY <1>1, <1>2, <1>3, <2>1, TaskTyped
<1>9. CASE Collected
  <2>1. UNCHANGED <<known, mig>> /\ task' = Proceed(task)
    BY <1>9 DEF Collected
  <2>2. task' \in Task \cup {Idle} /\ (task' # Idle => task'.at = task.at)
    BY <1>2, <2>1, ProceedTyped
  <2> QED
    BY <1>1, <1>2, <1>3, <2>1, <2>2, TaskTyped
<1> QED
  BY <1>1, <1>4, <1>5, <1>6, <1>7, <1>8, <1>9 DEF TaskStep

\* A step of a migration: the task goes on, waits for ever or does not notice.
LEMMA MigTyped ==
    ASSUME Typed, task' \in Task \cup {Idle}, task' # Idle => task'.at \in up,
           mig' \in Migration \cup {Idle},
           mig' # Idle /\ mig'.pc = "copy" => mig'.key \in Keys,
           UNCHANGED <<up, known, cmd, tasks, stops>>,
           slots' \in [Nodes -> SUBSET (Slots \cup {Blank})],
           shards' \in [Nodes -> SUBSET (Slots \cup {Blank})],
           keys' \in [Nodes -> SUBSET Keys], db' \in [Nodes -> [Keys -> Data]],
           truth' \in [Keys -> Data], disturbed' \subseteq Keys
    PROVE  Typed'
BY DEF Typed, TypeOK

\* Every step of LocalNode#migrate and of Cluster#add_slots.
LEMMA MigrateStepTyped == Typed /\ MigrateStep => Typed'
<1>1. SUFFICES ASSUME Typed, MigrateStep PROVE Typed'
  OBVIOUS
<1>2. mig \in Migration /\ mig # Idle /\ UNCHANGED <<up, known, cmd, tasks, stops>>
  BY <1>1, Zenon
     DEF MigrateStep, Reshard, SaveSlots, AddSlots, SaveAdded, ReadKey,
         CopyPiece, DeleteMoved, Migrated, MigAt, Typed, TypeOK
<1>3. /\ slots \in [Nodes -> SUBSET (Slots \cup {Blank})]
      /\ shards \in [Nodes -> SUBSET (Slots \cup {Blank})]
      /\ keys \in [Nodes -> SUBSET Keys] /\ db \in [Nodes -> [Keys -> Data]]
      /\ truth \in [Keys -> Data] /\ disturbed \subseteq Keys
      /\ task \in Task \cup {Idle} /\ (task # Idle => task.at \in up)
      /\ NoData \in Data
  BY <1>1 DEF Typed, TypeOK, Data
<1>4. mig.src \in Nodes /\ mig.dst \in Nodes /\ mig.slots \subseteq Slots \cup {Blank}
      /\ mig.keys \subseteq Keys
      /\ mig.pieces \subseteq {"SET", "SADD"} \X Values
  BY <1>2 DEF Migration
<1>5. /\ Answered => task' \in Task \cup {Idle} /\ (task' # Idle => task'.at \in up)
      /\ Failed => task' \in Task \cup {Idle} /\ (task' # Idle => task'.at \in up)
  <2>1. CASE task # Idle
    <3>1. Proceed(task) \in Task \cup {Idle} /\ (Proceed(task) # Idle => Proceed(task).at = task.at)
      BY <1>3, <2>1, ProceedTyped
    <3>2. [task EXCEPT !.pc = "hung"] \in Task /\ [task EXCEPT !.pc = "hung"].at = task.at
      BY <1>3, <2>1, Zenon DEF Task
    <3> QED
      BY <1>3, <2>1, <3>1, <3>2, Zenon DEF Answered, Failed
  <2>2. CASE task = Idle
    BY <2>2 DEF Answered, Failed
  <2> QED
    BY <2>1, <2>2
<1>6. ASSUME NEW pc \in {"add", "added", "keys"}, mig' = [mig EXCEPT !.pc = pc]
      PROVE  mig' \in Migration /\ mig'.pc # "copy"
  BY <1>2, <1>6 DEF Migration
<1>7. CASE Reshard
  <2>1. PICK S \in SUBSET slots[mig.src] :
            LET K == {k \in keys[mig.src] : SlotOf[k] \in S}
            IN  /\ slots' = [slots EXCEPT ![mig.src] = @ \ S]
                /\ keys' = [keys EXCEPT ![mig.src] = @ \ K]
                /\ mig' = [mig EXCEPT !.slots = S, !.keys = K, !.pc = "save"]
                /\ Disturb({k \in Keys : SlotOf[k] \in S /\ (mig.src = mig.dst \/ InUse(k))})
    BY <1>7, Zenon DEF Reshard
  <2> DEFINE K == {k \in keys[mig.src] : SlotOf[k] \in S}
  <2>2. S \in SUBSET (Slots \cup {Blank}) /\ K \in SUBSET Keys /\ UNCHANGED <<shards, db, task>>
    BY <1>3, <1>4, <1>7 DEF Reshard
  <2>3. /\ slots' = [slots EXCEPT ![mig.src] = @ \ S]
        /\ keys' = [keys EXCEPT ![mig.src] = @ \ K]
        /\ mig' = [mig EXCEPT !.slots = S, !.keys = K, !.pc = "save"]
    BY <2>1
  <2> HIDE DEF K
  <2>4. truth' \in [Keys -> Data] /\ disturbed' \subseteq Keys
    <3> DEFINE D == {k \in Keys : SlotOf[k] \in S /\ (mig.src = mig.dst \/ InUse(k))}
    <3>1. D \in SUBSET Keys /\ Disturb(D)
      BY <2>1
    <3> HIDE DEF D
    <3> QED
      BY <1>1, <3>1, DisturbTyped DEF Typed
  <2>5. mig' \in Migration /\ mig'.pc = "save"
    BY <1>2, <2>2, <2>3, Zenon DEF Migration
  <2>6. /\ slots' \in [Nodes -> SUBSET (Slots \cup {Blank})]
        /\ keys' \in [Nodes -> SUBSET Keys]
    BY <1>3, <1>4, <2>3
  <2> QED
    BY <1>1, <1>2, <1>3, <2>2, <2>4, <2>5, <2>6, MigTyped
<1>8. CASE SaveSlots
  <2>1. PICK S \in Joined(slots[mig.src]) : shards' = [shards EXCEPT ![mig.src] = S]
    BY <1>8, Zenon DEF SaveSlots
  <2>2. S \subseteq slots[mig.src]
    BY <2>1 DEF Joined
  <2>3. shards' \in [Nodes -> SUBSET (Slots \cup {Blank})]
    BY <1>3, <1>4, <2>1, <2>2
  <2>4. mig' = [mig EXCEPT !.slots = @ \ {Blank}, !.pc = "add"]
        /\ UNCHANGED <<slots, keys, db, task, history>>
    BY <1>8 DEF SaveSlots
  <2>5. mig' \in Migration /\ mig'.pc = "add"
    BY <1>2, <2>4, Zenon DEF Migration
  <2> QED
    BY <1>1, <1>2, <1>3, <2>3, <2>4, <2>5, MigTyped DEF history
<1>9. CASE AddSlots
  <2> DEFINE moved == {k \in Keys : SlotOf[k] \in mig.slots}
  <2>1. moved \in SUBSET Keys
    OBVIOUS
  <2>2. UNCHANGED <<shards, keys, db>>
    BY <1>9 DEF AddSlots
  <2>3. CASE /\ slots' = [slots EXCEPT ![mig.dst] = @ \cup mig.slots]
             /\ mig' = [mig EXCEPT !.pc = "added"] /\ UNCHANGED <<task, history>>
    <3>1. slots' \in [Nodes -> SUBSET (Slots \cup {Blank})]
      BY <1>3, <1>4, <2>3
    <3> QED
      BY <1>1, <1>2, <1>3, <1>6, <2>2, <2>3, <3>1, MigTyped DEF history
  <2>4. CASE mig' = [mig EXCEPT !.pc = "keys"] /\ Disturb(moved) /\ UNCHANGED <<slots, task>>
    <3>1. truth' \in [Keys -> Data] /\ disturbed' \subseteq Keys
      BY <1>1, <2>1, <2>4, DisturbTyped DEF Typed
    <3> QED
      BY <1>1, <1>2, <1>3, <1>6, <2>2, <2>4, <3>1, MigTyped
  <2>5. CASE mig' = Idle /\ Failed /\ Disturb(moved) /\ UNCHANGED slots
    <3>1. truth' \in [Keys -> Data] /\ disturbed' \subseteq Keys
      BY <1>1, <2>1, <2>5, DisturbTyped DEF Typed
    <3> QED
      BY <1>1, <1>2, <1>3, <1>5, <2>2, <2>5, <3>1, MigTyped
  <2> QED
    BY <1>9, <2>3, <2>4, <2>5 DEF AddSlots
<1>10. CASE SaveAdded
  <2>1. mig' = [mig EXCEPT !.pc = "keys"] /\ UNCHANGED <<slots, keys, db, task, history>>
    BY <1>10 DEF SaveAdded
  <2>2. shards' \in [Nodes -> SUBSET (Slots \cup {Blank})]
    BY <1>3, <1>4, <1>10 DEF SaveAdded
  <2> QED
    BY <1>1, <1>2, <1>3, <1>6, <2>1, <2>2, MigTyped DEF history
<1>11. CASE ReadKey
  <2>1. PICK k \in mig.keys :
            mig' = [mig EXCEPT !.key = k, !.pieces = Pieces(db[mig.src][k]),
                               !.keys = @ \ {k}, !.pc = "copy"]
    BY <1>11, Zenon DEF ReadKey
  <2>2. k \in Keys /\ Pieces(db[mig.src][k]) \in SUBSET ({"SET", "SADD"} \X Values)
    BY <1>3, <1>4, PiecesTyped
  <2>3. mig' \in Migration /\ mig'.key \in Keys
    BY <1>2, <2>1, <2>2, Zenon DEF Migration
  <2> QED
    BY <1>1, <1>2, <1>3, <1>11, <2>3, MigTyped DEF ReadKey, nodevars, history
<1>12. CASE CopyPiece
  <2>1. PICK p \in mig.pieces :
            /\ \/ /\ db' = [db EXCEPT ![mig.dst][mig.key] = Effect(p[1], p[2], @)]
                  /\ keys' = [keys EXCEPT ![mig.dst] = @ \cup {mig.key}]
               \/ UNCHANGED <<db, keys>>
            /\ mig' = [mig EXCEPT !.pieces = @ \ {p}]
    BY <1>12, Zenon DEF CopyPiece
  <2>2. mig.key \in Keys /\ p[1] \in {"SET", "SADD"} /\ p[2] \in Values /\ mig.pc = "copy"
    BY <1>1, <1>2, <1>4, <1>12 DEF CopyPiece, MigAt, Typed
  <2>3. Effect(p[1], p[2], db[mig.dst][mig.key]) \in Data
    BY <1>3, <1>4, <2>2, EffectTyped
  <2>4. db' \in [Nodes -> [Keys -> Data]] /\ keys' \in [Nodes -> SUBSET Keys]
    <3> DEFINE e == Effect(p[1], p[2], db[mig.dst][mig.key])
    <3>1. \/ /\ db' = [db EXCEPT ![mig.dst][mig.key] = e]
             /\ keys' = [keys EXCEPT ![mig.dst] = @ \cup {mig.key}]
          \/ UNCHANGED <<db, keys>>
      BY <2>1
    <3>2. e \in Data
      BY <2>3
    <3> HIDE DEF e
    <3>3. CASE UNCHANGED <<db, keys>>
      BY <1>3, <3>3
    <3>4. CASE /\ db' = [db EXCEPT ![mig.dst][mig.key] = e]
               /\ keys' = [keys EXCEPT ![mig.dst] = @ \cup {mig.key}]
      BY <1>3, <1>4, <2>2, <3>2, <3>4
    <3> QED
      BY <3>1, <3>3, <3>4
  <2>5. mig' \in Migration /\ mig'.key = mig.key
    BY <1>2, <2>1 DEF Migration
  <2>6. UNCHANGED <<slots, shards, task, history>>
    BY <1>12 DEF CopyPiece
  <2> QED
    BY <1>1, <1>2, <1>3, <2>2, <2>4, <2>5, <2>6, MigTyped DEF history
<1>13. CASE DeleteMoved
  <2>1. db' = [db EXCEPT ![mig.src][mig.key] = NoData] /\ mig.key \in Keys
        /\ UNCHANGED <<slots, shards, keys, task, history>>
    BY <1>1, <1>13 DEF DeleteMoved, MigAt, Typed
  <2>2. mig' = [mig EXCEPT !.key = NoData, !.pc = "keys"]
    BY <1>13 DEF DeleteMoved
  <2>3. mig' \in Migration /\ mig'.pc = "keys"
    BY <1>2, <2>2, Zenon DEF Migration
  <2>4. db' \in [Nodes -> [Keys -> Data]]
    BY <1>3, <1>4, <2>1
  <2> QED
    BY <1>1, <1>2, <1>3, <2>1, <2>3, <2>4, MigTyped DEF history
<1>14. CASE Migrated
  BY <1>1, <1>2, <1>3, <1>5, <1>14, MigTyped DEF Migrated, nodevars, history
<1> QED
  BY <1>1, <1>7, <1>8, <1>9, <1>10, <1>11, <1>12, <1>13, <1>14 DEF MigrateStep

\* A node stops: its commands, its task and its migration end.
LEMMA StopTyped == ASSUME NEW n \in Nodes, Typed, Stop(n) PROVE Typed'
<1>1. up' = up \ {n} /\ stops' = stops + 1 /\ UNCHANGED <<known, nodevars, tasks>>
  BY DEF Stop
<1>2. truth' \in [Keys -> Data] /\ disturbed' \subseteq Keys
  <2> DEFINE D == {k \in Keys : Moving(k) \/ InUse(k)}
  <2>1. D \in SUBSET Keys /\ Disturb(D)
    BY DEF Stop
  <2> HIDE DEF D
  <2> QED
    BY <2>1, DisturbTyped DEF Typed
<1>3. mig' \in Migration \cup {Idle} /\ (mig' # Idle /\ mig'.pc = "copy" => mig'.key \in Keys)
  <2>1. mig' = Idle \/ mig' = mig \/ (mig # Idle /\ mig' = [mig EXCEPT !.pc = "keys"])
    BY DEF Stop
  <2> QED
    BY <2>1, Zenon DEF Typed, TypeOK, Migration
<1>4. task' \in Task \cup {Idle} /\ (task' # Idle => task'.at \in up')
  <2>1. \/ task' = Idle
        \/ task # Idle /\ task.at # n /\ (task' = task \/ task' = Proceed(task))
    BY DEF Stop
  <2> QED
    BY <1>1, <2>1, ProceedTyped DEF Typed, TypeOK
<1>5. \A c \in Clients : cmd'[c] \in Command \cup {Idle}
            /\ (cmd'[c] # Idle /\ cmd'[c].op # "DELETE" => cmd'[c].val \in Values)
  <2>1. SUFFICES ASSUME NEW c \in Clients
        PROVE cmd'[c] \in Command \cup {Idle}
            /\ (cmd'[c] # Idle /\ cmd'[c].op # "DELETE" => cmd'[c].val \in Values)
    OBVIOUS
  <2> DEFINE r == [cmd[c] EXCEPT !.path = Dropped(cmd[c].path, n)]
  <2>2. \/ cmd'[c] = Idle
        \/ cmd[c] # Idle /\ (cmd'[c] = r \/ cmd'[c] = Resume(r))
    BY DEF Stop
  <2>3. ASSUME cmd[c] # Idle
        PROVE  r \in Command /\ r.op = cmd[c].op /\ r.val = cmd[c].val
    <3>1. cmd[c] \in Command
      BY <2>3 DEF Typed, TypeOK
    <3>2. r \in Command
      BY <3>1, DroppedTyped
    <3> QED
      BY <3>1, <3>2 DEF Command
  <2> HIDE DEF r
  <2> QED
    BY <2>2, <2>3, ResumeTyped DEF Typed
<1>6. cmd' \in [Clients -> Command \cup {Idle}]
  <2>1. cmd' = [c \in Clients |-> cmd'[c]]
    BY DEF Stop
  <2> QED
    BY <1>5, <2>1
<1> QED
  BY <1>1, <1>2, <1>3, <1>4, <1>5, <1>6 DEF Typed, TypeOK, nodevars

\* A node starts from its database.
LEMMA StartTyped == ASSUME NEW n \in Nodes, Typed, Start(n) PROVE Typed'
<1>1. /\ known' \in [Nodes -> SUBSET Nodes]
      /\ slots' \in [Nodes -> SUBSET (Slots \cup {Blank})]
      /\ keys' \in [Nodes -> SUBSET Keys]
  BY DEF Start, Typed, TypeOK
<1> QED
  BY <1>1 DEF Start, Typed, TypeOK, history

\* No step leaves the types.
LEMMA TypedNext == Typed /\ [Next]_vars => Typed'
<1>1. SUFFICES ASSUME Typed, [Next]_vars PROVE Typed'
  OBVIOUS
<1>2. CASE UNCHANGED vars
  BY <1>1, <1>2 DEF Typed, TypeOK, vars, nodevars, history
<1>3. ASSUME NEW c \in Clients, NEW n \in Nodes, NEW k \in Keys,
             \/ Request(c, n, "DELETE", k, NoData)
             \/ \E op \in {"SET", "SADD"}, v \in Values : Request(c, n, op, k, v)
      PROVE  Typed'
  BY <1>1, <1>3, RequestTyped
<1> QED
  BY <1>1, <1>2, <1>3, CommandTyped, AdministerTyped, TaskStepTyped,
     MigrateStepTyped, StopTyped, StartTyped
     DEF Next

\* Init: the root alone has slots.
LEMMA TypedInit == Init => Typed
<1>1. NoData \in Data
  BY DEF Data
<1> QED
  BY <1>1, ClusterAssumption DEF Init, Typed, TypeOK

\* Every reachable state is well typed: the commands on their way through the
\* nodes, the migration and the task (ClusterNode, LocalNode#migrate, Cluster).
THEOREM ClusterTypeCorrect == Spec => []TypeOK
<1>1. Typed => TypeOK
  BY DEF Typed
<1> QED
  BY <1>1, TypedInit, TypedNext, PTL DEF Spec
=============================================================================
