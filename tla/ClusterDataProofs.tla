---------------------------- MODULE ClusterDataProofs ----------------------------
(***************************************************************************)
(* Migration keeps the data, for any number of nodes, slots, keys and       *)
(* clients.  The argument is one key at a time.  A key that no migration    *)
(* carries is where its slot is (Settled), but for the node a command is    *)
(* about to tell its shard; a command under way knows that the slot is not  *)
(* at the nodes that forwarded it (RunOK).  A key that is carried is with   *)
(* the source until it was copied, and the destination has the pieces that  *)
(* were sent (Carried).                                                     *)
(***************************************************************************)
EXTENDS ClusterProofs

\* What the destination has of data when the pieces P are still to be sent.
Copied(d, P) ==
    IF P = Pieces(d) THEN NoData
    ELSE IF d[1] = "string" THEN d
    ELSE SetOf({v \in d[2] : <<"SADD", v>> \notin P})

\* LocalNode#migrate is sending k; what is left to send; the source has it.
Copying(k) == mig.pc = "copy" /\ mig.key = k
Unsent(k) ==
    IF k \in mig.keys THEN Pieces(truth[k])
    ELSE IF Copying(k) THEN mig.pieces ELSE {}
AtSource(k) == k \in mig.keys \/ Copying(k)

Uses(c, k) == cmd[c] # Idle /\ cmd[c].key = k

\* A command under way on a key that nothing disturbs: the nodes that wait for
\* it run and do not have the slot, the node that is to change the data has it.
PathOK(r) ==
    \A i \in DOMAIN r.path :
        r.path[i] \in up /\ SlotOf[r.key] \notin slots[r.path[i]]

RunOK(r) ==
    /\ r.node \in up /\ PathOK(r)
    /\ r.pc \in {"check", "where", "forward"} => r.own
    /\ r.pc \in {"where", "forward"} \/ ~r.own => SlotOf[r.key] \notin slots[r.node]
    /\ r.pc \in {"store", "keys"} /\ r.own => SlotOf[r.key] \in slots[r.node]
    /\ ~r.own => r.op = "DELETE"
    /\ r.pc = "keys" /\ r.own => (r.op = "DELETE" <=> truth[r.key] = NoData)

CommandsOK(k) ==
    /\ \A c \in Clients : Uses(c, k) => RunOK(cmd[c])
    /\ \A c, d \in Clients : Uses(c, k) /\ Uses(d, k) => c = d

\* Between the change of the data and that of the shard's keys (Command#exec).
Adding(n, k) ==
    \E c \in Clients :
        Uses(c, k) /\ cmd[c].node = n /\ cmd[c].pc = "keys" /\ cmd[c].own

\* A key that no migration carries.
Settled(k) ==
    /\ \A n \in up : SlotOf[k] \in slots[n] <=> SlotOf[k] \in shards[n]
    /\ truth[k] # NoData => \E n \in Nodes : SlotOf[k] \in shards[n]
    /\ \A n \in Nodes : db[n][k] = IF SlotOf[k] \in shards[n] THEN truth[k] ELSE NoData
    /\ \A n \in up : Adding(n, k) \/ (k \in keys[n] <=> db[n][k] # NoData)

\* A key that is carried: where its slot is,
Underway(k) ==
    /\ mig.pc # "reshard" /\ mig.src # mig.dst
    /\ \A n \in Nodes : SlotOf[k] \in shards[n] <=>
            \/ mig.pc = "save" /\ n = mig.src
            \/ mig.pc \in {"keys", "copy"} /\ n = mig.dst
    /\ \A n \in up : SlotOf[k] \in slots[n] <=>
            mig.pc \in {"added", "keys", "copy"} /\ n = mig.dst
    /\ mig.pc \in {"added", "keys", "copy"} => Serves(mig.dst, mig.src)

\* and where its value is.
Carried(k) ==
    /\ ~(k \in mig.keys /\ Copying(k)) /\ Unsent(k) \subseteq Pieces(truth[k])
    /\ AtSource(k) => truth[k] # NoData
    /\ truth[k] = NoData \/ AtSource(k) \/ mig.pc \in {"keys", "copy"}
    /\ \A n \in Nodes : db[n][k] =
            IF n = mig.src /\ AtSource(k) THEN truth[k]
            ELSE IF n = mig.dst THEN Copied(truth[k], Unsent(k)) ELSE NoData
    /\ \A n \in up : k \in keys[n] <=> n = mig.dst /\ db[n][k] # NoData

KeyOK(k) ==
    /\ truth[k] # SetOf({}) /\ CommandsOK(k)
    /\ Moving(k) => ~InUse(k) /\ Underway(k) /\ Carried(k)
    /\ ~Moving(k) => Settled(k)

\* The migration in progress: its task waits for it, and it carries keys of the
\* slots it moves.
MigrationRuns ==
    mig # Idle =>
        /\ mig.src \in up /\ (task = Idle \/ task.pc = "wait")
        /\ mig.pc = "reshard" => mig.slots = {} /\ mig.keys = {}
        /\ \A k \in mig.keys : SlotOf[k] \in mig.slots
        /\ mig.pc = "copy" => SlotOf[mig.key] \in mig.slots

DataInv ==
    /\ Typed /\ SlotsInv /\ MigrationRuns
    /\ \A k \in Keys \ disturbed : KeyOK(k)
-----------------------------------------------------------------------------
(* What SET, SADD and DELETE and the pieces of a value make of data.       *)

\* Data is absent, a string or a set; the three differ.
LEMMA DataCases ==
    ASSUME NEW d \in Data
    PROVE  \/ d = NoData /\ Pieces(d) = {}
           \/ /\ \E v \in Values : d = String(v) /\ Pieces(d) = {<<"SET", v>>}
              /\ d # NoData /\ d[1] = "string"
           \/ /\ \E S \in SUBSET Values :
                    d = SetOf(S) /\ Pieces(d) = {<<"SADD", v>> : v \in S} /\ d[2] = S
              /\ d # NoData /\ d[1] = "set"
<1>1. CASE d = NoData
  BY <1>1 DEF Pieces
<1>2. ASSUME NEW v \in Values, d = String(v)
      PROVE  d # NoData /\ d[1] = "string" /\ Pieces(d) = {<<"SET", v>>}
  <2>1. d # NoData
    BY <1>2, DataAssumption
  <2>2. d[1] = "string" /\ d[2] = v
    BY <1>2 DEF String
  <2> QED
    BY <2>1, <2>2 DEF Pieces
<1>3. ASSUME NEW S \in SUBSET Values, d = SetOf(S)
      PROVE  /\ d # NoData /\ d[1] = "set" /\ d[2] = S
             /\ Pieces(d) = {<<"SADD", v>> : v \in S}
  <2>1. d # NoData
    BY <1>3, DataAssumption
  <2>2. d[1] = "set" /\ d[2] = S
    BY <1>3 DEF SetOf
  <2> QED
    BY <2>1, <2>2 DEF Pieces
<1>4. \/ d = NoData \/ \E v \in Values : d = String(v)
      \/ \E S \in SUBSET Values : d = SetOf(S)
  BY DEF Data
<1> QED
  BY <1>1, <1>2, <1>3, <1>4, Zenon

\* No command leaves an empty set, and only DELETE leaves nothing.
LEMMA EffectValue ==
    ASSUME NEW op \in {"SET", "SADD", "DELETE"}, NEW v, op # "DELETE" => v \in Values,
           NEW d \in Data
    PROVE  /\ Effect(op, v, d) # SetOf({})
           /\ op = "DELETE" <=> Effect(op, v, d) = NoData
<1>1. CASE op = "SET"
  <2>1. Effect(op, v, d) = String(v)
    BY <1>1 DEF Effect
  <2>2. String(v) # NoData /\ String(v) # SetOf({})
    BY <1>1, DataAssumption DEF String, SetOf
  <2> QED
    BY <1>1, <2>1, <2>2
<1>2. CASE op = "DELETE"
  <2>1. SetOf({}) # NoData
    BY DataAssumption
  <2> QED
    BY <1>2, <2>1 DEF Effect
<1>3. CASE op = "SADD"
  <2> DEFINE S == {v} \cup (IF d # NoData /\ d[1] = "set" THEN d[2] ELSE {})
  <2>1. Effect(op, v, d) = SetOf(S)
    BY <1>3 DEF Effect
  <2>2. S \in SUBSET Values
    BY <1>3, DataCases
  <2>3. v \in S
    OBVIOUS
  <2> HIDE DEF S
  <2>4. SetOf(S) # NoData
    BY <2>2, DataAssumption
  <2>5. SetOf(S) # SetOf({})
    BY <2>3 DEF SetOf
  <2> QED
    BY <1>3, <2>1, <2>4, <2>5
<1> QED
  BY <1>1, <1>2, <1>3

\* Nothing is at the destination before the first piece, all after the last.
LEMMA CopiedEnds ==
    ASSUME NEW d \in Data, d # SetOf({})
    PROVE  Copied(d, Pieces(d)) = NoData /\ Copied(d, {}) = d
<1>1. Copied(d, Pieces(d)) = NoData
  BY DEF Copied
<1>2. CASE d = NoData
  BY <1>2, <1>1, DataCases
<1>3. CASE \E v \in Values : d = String(v) /\ Pieces(d) = {<<"SET", v>>}
                             /\ d[1] = "string"
  BY <1>1, <1>3, Zenon DEF Copied
<1>4. ASSUME NEW S \in SUBSET Values, d = SetOf(S), d[1] = "set", d[2] = S,
             Pieces(d) = {<<"SADD", v>> : v \in S}
      PROVE  Copied(d, {}) = d
  <2>1. S # {}
    BY <1>4
  <2>2. Pieces(d) # {}
    BY <1>4, <2>1, Zenon
  <2>3. {v \in d[2] : <<"SADD", v>> \notin {}} = S
    BY <1>4
  <2> QED
    BY <1>4, <2>2, <2>3 DEF Copied
<1> QED
  BY <1>1, <1>2, <1>3, <1>4, DataCases, Zenon

\* One more piece: a SET of the string, or a SADD of one more member.
LEMMA CopiedMore ==
    ASSUME NEW d \in Data, NEW P \in SUBSET Pieces(d), NEW p \in P
    PROVE  /\ Effect(p[1], p[2], Copied(d, P)) = Copied(d, P \ {p})
           /\ Copied(d, P \ {p}) # NoData
<1>1. p \in Pieces(d) /\ P \ {p} # Pieces(d)
  OBVIOUS
<1>2. ASSUME NEW v \in Values, d = String(v), Pieces(d) = {<<"SET", v>>},
             d # NoData, d[1] = "string"
      PROVE  /\ Effect(p[1], p[2], Copied(d, P)) = Copied(d, P \ {p})
             /\ Copied(d, P \ {p}) # NoData
  <2>1. p = <<"SET", v>>
    BY <1>1, <1>2
  <2>2. Effect(p[1], p[2], Copied(d, P)) = d
    BY <1>2, <2>1 DEF Effect
  <2>3. Copied(d, P \ {p}) = d
    BY <1>1, <1>2 DEF Copied
  <2> QED
    BY <1>2, <2>2, <2>3
<1>3. ASSUME NEW S \in SUBSET Values, d = SetOf(S), d[1] = "set", d[2] = S,
             Pieces(d) = {<<"SADD", v>> : v \in S}, d # NoData
      PROVE  /\ Effect(p[1], p[2], Copied(d, P)) = Copied(d, P \ {p})
             /\ Copied(d, P \ {p}) # NoData
  <2>1. PICK w \in S : p = <<"SADD", w>>
    BY <1>1, <1>3
  <2> DEFINE Sent(Q) == {v \in S : <<"SADD", v>> \notin Q}
  <2>2. Copied(d, P \ {p}) = SetOf(Sent(P \ {p}))
    BY <1>1, <1>3 DEF Copied
  <2>3. Sent(P \ {p}) = {w} \cup Sent(P)
    BY <2>1
  <2>4. Copied(d, P) = IF P = Pieces(d) THEN NoData ELSE SetOf(Sent(P))
    BY <1>3 DEF Copied
  <2>5. P = Pieces(d) => Sent(P) = {}
    BY <1>3
  <2>6. Sent(P) \in SUBSET Values /\ Sent(P \ {p}) \in SUBSET Values
    OBVIOUS
  <2>7. p[1] = "SADD" /\ p[2] = w
    BY <2>1
  <2> HIDE DEF Sent
  <2>8. \A T \in SUBSET Values : SetOf(T) # NoData /\ SetOf(T)[1] = "set" /\ SetOf(T)[2] = T
    BY DataAssumption DEF SetOf
  <2>9. Effect(p[1], p[2], Copied(d, P)) = SetOf({w} \cup Sent(P))
    <3>1. Effect(p[1], p[2], Copied(d, P)) =
            SetOf({w} \cup (IF Copied(d, P) # NoData /\ Copied(d, P)[1] = "set"
                            THEN Copied(d, P)[2] ELSE {}))
      BY <2>7 DEF Effect
    <3>2. (IF Copied(d, P) # NoData /\ Copied(d, P)[1] = "set"
           THEN Copied(d, P)[2] ELSE {}) = Sent(P)
      BY <2>4, <2>5, <2>6, <2>8
    <3> QED
      BY <3>1, <3>2, Zenon
  <2> QED
    BY <2>2, <2>3, <2>6, <2>8, <2>9, Zenon
<1>4. Pieces(d) # {}
  BY <1>1
<1> QED
  BY <1>2, <1>3, <1>4, DataCases, Zenon
-----------------------------------------------------------------------------
(* Steps that do not concern a key.                                        *)

KeySame(k) ==
    /\ truth'[k] = truth[k]
    /\ \A n \in Nodes : db'[n][k] = db[n][k] /\ (k \in keys'[n] <=> k \in keys[n])
CmdSame(k) ==
    \A c \in Clients :
        (Uses(c, k)' <=> Uses(c, k)) /\ (Uses(c, k) => cmd'[c] = cmd[c])
SlotSame(k) ==
    \A n \in Nodes :
        /\ SlotOf[k] \in slots'[n] <=> SlotOf[k] \in slots[n]
        /\ SlotOf[k] \in shards'[n] <=> SlotOf[k] \in shards[n]

\* The commands on a key go on: what they know of the slots is still so.
LEMMA CommandsSame ==
    ASSUME NEW k \in Keys, up \subseteq Nodes, CommandsOK(k), KeySame(k), CmdSame(k),
           SlotSame(k), up \subseteq up'
    PROVE  CommandsOK(k)'
<1>1. SUFFICES ASSUME NEW c \in Clients, Uses(c, k)' PROVE RunOK(cmd[c])'
  BY DEF CommandsOK, CmdSame
<1>2. PICK r : r = cmd[c] /\ r = cmd'[c] /\ r.key = k /\ RunOK(r)
  BY <1>1 DEF CommandsOK, CmdSame, Uses
<1>3. r.node \in up' /\ r.node \in Nodes
      /\ \A i \in DOMAIN r.path : r.path[i] \in up' /\ r.path[i] \in Nodes
  BY <1>2 DEF RunOK, PathOK
<1>4. PathOK(r)'
  BY <1>2, <1>3 DEF PathOK, RunOK, SlotSame
<1>5. RunOK(r)'
  BY <1>2, <1>3, <1>4 DEF RunOK, SlotSame, KeySame
<1> QED
  BY <1>2, <1>5 DEF RunOK, PathOK

\* A key that is not carried, in a step that does nothing to it.
LEMMA SettledSame ==
    ASSUME NEW k \in Keys, up \subseteq Nodes, KeyOK(k), ~Moving(k), ~Moving(k)',
           KeySame(k), CmdSame(k), SlotSame(k), UNCHANGED up
    PROVE  KeyOK(k)'
<1>1. CommandsOK(k)'
  BY CommandsSame DEF KeyOK
<1>2. \A n : Adding(n, k)' <=> Adding(n, k)
  BY DEF Adding, CmdSame
<1>3. Settled(k)'
  BY <1>2 DEF KeyOK, Settled, KeySame, SlotSame
<1> QED
  BY <1>1, <1>3 DEF KeyOK, KeySame

\* A key that is carried, in a step that does nothing to it.
LEMMA CarriedSame ==
    ASSUME NEW k \in Keys, up \subseteq Nodes, KeyOK(k), Moving(k), Moving(k)',
           KeySame(k), CmdSame(k), SlotSame(k), UNCHANGED up,
           known' = known \/ \A n \in up : known'[n] = known[n],
           mig'.src = mig.src, mig'.dst = mig.dst,
           mig'.pc = mig.pc \/ {mig.pc, mig'.pc} \subseteq {"keys", "copy"},
           k \in mig'.keys <=> k \in mig.keys,
           Copying(k)' <=> Copying(k), Copying(k) => mig'.pieces = mig.pieces
    PROVE  KeyOK(k)'
<1>1. CommandsOK(k)'
  BY CommandsSame DEF KeyOK
<1>2. ~InUse(k)'
  BY DEF KeyOK, InUse, CmdSame, Uses
<1>3. Serves(mig.dst, mig.src) => Serves(mig.dst, mig.src)'
  BY DEF Serves, Accepts
<1>4. mig'.pc \in {"keys", "copy"} <=> mig.pc \in {"keys", "copy"}
  OBVIOUS
<1>5. Underway(k)'
  <2>1. Underway(k)
    BY DEF KeyOK
  <2>2. mig'.pc # "reshard" /\ mig'.src # mig'.dst
    BY <2>1 DEF Underway
  <2>3. \A n \in Nodes : SlotOf[k] \in shards'[n] <=>
            \/ mig'.pc = "save" /\ n = mig'.src
            \/ mig'.pc \in {"keys", "copy"} /\ n = mig'.dst
    BY <2>1 DEF Underway, SlotSame
  <2>4. \A n \in up' : SlotOf[k] \in slots'[n] <=>
            mig'.pc \in {"added", "keys", "copy"} /\ n = mig'.dst
    BY <2>1 DEF Underway, SlotSame
  <2>5. mig'.pc \in {"added", "keys", "copy"} => Serves(mig.dst, mig.src)'
    BY <1>3, <2>1 DEF Underway, Serves, Accepts
  <2> QED
    BY <2>2, <2>3, <2>4, <2>5 DEF Underway
<1>6. Carried(k)'
  <2>1. Carried(k)
    BY DEF KeyOK
  <2>2. Unsent(k)' = Unsent(k) /\ (AtSource(k)' <=> AtSource(k))
    BY DEF Unsent, AtSource, KeySame
  <2> QED
    BY <1>4, <2>1, <2>2 DEF Carried, KeySame
<1> QED
  BY <1>1, <1>2, <1>5, <1>6 DEF KeyOK, KeySame

\* A step that does nothing to a key and leaves the migration alone.
LEMMA KeyUntouched ==
    ASSUME NEW k \in Keys, up \subseteq Nodes, KeyOK(k), KeySame(k), CmdSame(k),
           UNCHANGED <<up, slots, shards, mig>>, mig # Idle => known' = known
    PROVE  KeyOK(k)'
<1>1. SlotSame(k) /\ (Moving(k)' <=> Moving(k)) /\ (Copying(k)' <=> Copying(k))
  BY DEF SlotSame, Moving, Copying
<1>2. CASE ~Moving(k)
  BY <1>1, <1>2, SettledSame
<1>3. CASE Moving(k)
  <2>1. known' = known
    BY <1>3 DEF Moving
  <2> QED
    BY <1>1, <1>3, <2>1, CarriedSame
<1> QED
  BY <1>2, <1>3
-----------------------------------------------------------------------------
(* Commands.                                                               *)

\* Resume: the caller that goes on with a DELETE runs and does not have the slot.
LEMMA ResumeRuns ==
    ASSUME NEW r \in Command, PathOK(r)
    PROVE  \/ Resume(r) = Idle
           \/ /\ Resume(r).key = r.key /\ Resume(r).pc = "store" /\ ~Resume(r).own
              /\ RunOK(Resume(r))
<1>1. CASE r.op # "DELETE" \/ Waiting(r.path) = {}
  BY <1>1 DEF Resume
<1>2. CASE r.op = "DELETE" /\ Waiting(r.path) # {}
  <2> DEFINE W == Waiting(r.path)
             i == CHOOSE i \in W : \A j \in W : j <= i
  <2>1. r.path \in Seq(Nodes \cup {Idle}) /\ Len(r.path) \in Nat /\ W \in SUBSET (1..Len(r.path))
    BY DEF Command, Waiting
  <2>2. \E j \in W : \A l \in W : l <= j
    BY <1>2, <2>1, HasGreatest, Zenon
  <2>3. i \in W
    BY <2>2
  <2>4. Resume(r) = [r EXCEPT !.node = r.path[i], !.own = FALSE, !.pc = "store",
                              !.path = SubSeq(r.path, 1, i - 1)]
    BY <1>2 DEF Resume
  <2> HIDE DEF i
  <2>5. i \in 1..Len(r.path) /\ i \in DOMAIN r.path
    BY <2>1, <2>3 DEF Waiting
  <2> DEFINE q == SubSeq(r.path, 1, i - 1)
  <2>6. \A j \in DOMAIN q : j \in DOMAIN r.path /\ q[j] = r.path[j]
    BY <2>1, <2>5
  <2> HIDE DEF q
  <2> DEFINE f == Resume(r)
  <2>7. f = [r EXCEPT !.node = r.path[i], !.own = FALSE, !.pc = "store", !.path = q]
    BY <2>4 DEF q
  <2>8. f.key = r.key /\ f.node = r.path[i] /\ f.own = FALSE /\ f.pc = "store"
        /\ f.path = q /\ f.op = "DELETE"
    BY <1>2, <2>7, Zenon DEF Command
  <2> HIDE DEF f
  <2>9. PathOK(f)
    BY <2>6, <2>8 DEF PathOK
  <2>10. f.node \in up /\ SlotOf[f.key] \notin slots[f.node]
    BY <2>5, <2>8 DEF PathOK
  <2>11. RunOK(f)
    BY <2>8, <2>9, <2>10 DEF RunOK
  <2> QED
    BY <2>8, <2>11 DEF f
<1> QED
  BY <1>1, <1>2 DEF Command

\* What is known of a command on a key that nothing disturbs.
LEMMA CommandFacts ==
    ASSUME DataInv, NEW c \in Clients, cmd[c] # Idle, cmd[c].key \notin disturbed
    PROVE  LET k == cmd[c].key
           IN  /\ cmd[c] \in Command /\ k \in Keys /\ KeyOK(k) /\ ~Moving(k)
               /\ Settled(k) /\ RunOK(cmd[c]) /\ Uses(c, k)
               /\ \A d \in Clients : Uses(d, k) => d = c
<1>1. cmd[c] \in Command
  BY DEF DataInv, Typed, TypeOK
<1>2. cmd[c].key \in Keys
  BY <1>1 DEF Command
<1>3. KeyOK(cmd[c].key)
  BY <1>2 DEF DataInv
<1>4. Uses(c, cmd[c].key) /\ InUse(cmd[c].key)
  BY DEF Uses, InUse
<1> QED
  BY <1>1, <1>2, <1>3, <1>4 DEF KeyOK, CommandsOK

\* The other keys do not notice a command.
LEMMA OtherCommands ==
    ASSUME NEW c \in Clients, NEW k, cmd \in [Clients -> Command \cup {Idle}],
           NEW r, cmd[c] = Idle \/ cmd[c].key # k, r = Idle \/ r.key # k,
           cmd' = [cmd EXCEPT ![c] = r]
    PROVE  CmdSame(k)
<1>1. \A d \in Clients : cmd'[d] = IF d = c THEN r ELSE cmd[d]
  OBVIOUS
<1> QED
  BY <1>1 DEF CmdSame, Uses

\* The key of a command, after its step.
LEMMA OwnCommand ==
    ASSUME NEW c \in Clients, NEW k, cmd \in [Clients -> Command \cup {Idle}], NEW r,
           cmd' = [cmd EXCEPT ![c] = r], \A d \in Clients : Uses(d, k) => d = c,
           r = Idle \/ (r.key = k /\ RunOK(r)'),
           Settled(k)', truth'[k] # SetOf({}), ~Moving(k)'
    PROVE  KeyOK(k)'
<1>1. \A d \in Clients : cmd'[d] = IF d = c THEN r ELSE cmd[d]
  OBVIOUS
<1>2. \A d \in Clients : Uses(d, k)' => d = c /\ r # Idle
  BY <1>1 DEF Uses
<1>3. r # Idle => RunOK(cmd[c])'
  BY <1>1 DEF RunOK, PathOK
<1>4. CommandsOK(k)'
  BY <1>2, <1>3 DEF CommandsOK
<1> QED
  BY <1>4 DEF KeyOK

\* A step of a command that changes no data.
LEMMA CommandGoesOn ==
    ASSUME NEW c \in Clients, NEW k, cmd \in [Clients -> Command \cup {Idle}], NEW r,
           cmd' = [cmd EXCEPT ![c] = r], \A d \in Clients : Uses(d, k) => d = c,
           cmd[c] = Idle \/ cmd[c].pc # "keys",
           r = Idle \/ (r.key = k /\ r.pc # "keys" /\ RunOK(r)),
           KeyOK(k), ~Moving(k),
           UNCHANGED <<up, slots, shards, keys, db, mig>>, truth'[k] = truth[k]
    PROVE  KeyOK(k)'
<1>1. \A d \in Clients : cmd'[d] = IF d = c THEN r ELSE cmd[d]
  OBVIOUS
<1>2. \A n : ~Adding(n, k) /\ ~Adding(n, k)'
  BY <1>1 DEF Adding, Uses
<1>3. Settled(k)'
  BY <1>2, Zenon DEF KeyOK, Settled
<1>4. r # Idle => RunOK(r)'
  BY DEF RunOK, PathOK
<1>5. ~Moving(k)' /\ truth'[k] # SetOf({})
  BY DEF Moving, KeyOK
<1> QED
  BY <1>3, <1>4, <1>5, OwnCommand, Zenon

\* Disturb leaves the other keys alone.
LEMMA DisturbOthers ==
    ASSUME NEW K, Disturb(K), NEW k \in Keys \ disturbed'
    PROVE  k \in Keys \ disturbed /\ k \notin K /\ truth'[k] = truth[k]
  BY DEF Disturb

\* A client sends a command: no other one is on the key, and it is not moving.
LEMMA RequestData ==
    ASSUME DataInv, NEW c \in Clients, NEW n \in Nodes, NEW op, NEW k0 \in Keys, NEW v,
           Request(c, n, op, k0, v), NEW k \in Keys \ disturbed'
    PROVE  KeyOK(k)'
<1> DEFINE r == [op |-> op, key |-> k0, val |-> v, node |-> n, pc |-> "check",
                 own |-> TRUE, asked |-> {}, path |-> <<>>]
           K == {k0} \cap {x \in Keys : Moving(x) \/ InUse(x)}
<1>1. cmd[c] = Idle /\ n \in up /\ cmd' = [cmd EXCEPT ![c] = r] /\ Disturb(K)
      /\ UNCHANGED <<up, known, slots, shards, keys, db, mig>>
  BY Zenon DEF Request, nodevars
<1> HIDE DEF K
<1>2. k \in Keys \ disturbed /\ k \notin K /\ truth'[k] = truth[k]
  BY <1>1, DisturbOthers
<1>3. KeyOK(k) /\ up \subseteq Nodes /\ cmd \in [Clients -> Command \cup {Idle}]
  BY <1>2 DEF DataInv, Typed, TypeOK
<1>4. r.key = k0 /\ r.pc = "check" /\ r.own /\ r.node = n /\ r.path = <<>>
  OBVIOUS
<1> HIDE DEF r
<1>5. CASE k # k0
  <2>1. CmdSame(k)
    BY <1>1, <1>3, <1>4, <1>5, OtherCommands, Zenon
  <2>2. KeySame(k)
    BY <1>1, <1>2 DEF KeySame
  <2> QED
    BY <1>1, <1>3, <2>1, <2>2, KeyUntouched
<1>6. CASE k = k0
  <2>1. ~Moving(k) /\ ~InUse(k)
    BY <1>2, <1>6 DEF K
  <2>2. \A d \in Clients : Uses(d, k) => d = c
    BY <2>1 DEF InUse, Uses
  <2>3. RunOK(r)
    BY <1>1, <1>4 DEF RunOK, PathOK
  <2> QED
    BY <1>1, <1>2, <1>3, <1>4, <1>6, <2>1, <2>2, <2>3, CommandGoesOn, Zenon
<1> QED
  BY <1>5, <1>6

\* The look at the shard, WHEREIS and the forwarding (Command#forward).
LEMMA RoutingData ==
    ASSUME DataInv, NEW c \in Clients, NEW k, k = cmd[c].key, k \notin disturbed,
           CheckOwner(c) \/ WhereIs(c) \/ NotFound(c) \/ Forward(c)
    PROVE  KeyOK(k)'
<1>1. cmd[c] # Idle /\ UNCHANGED <<up, known, slots, shards, keys, db, mig, truth>>
  BY Zenon DEF CheckOwner, WhereIs, NotFound, Forward, At, history
<1>2. PICK r : r = cmd[c]
  OBVIOUS
<1>3. k \in Keys /\ k = r.key
  BY <1>1, <1>2, CommandFacts
<1>4. /\ r \in Command /\ KeyOK(k) /\ ~Moving(k) /\ RunOK(r)
      /\ \A d \in Clients : Uses(d, k) => d = c
  BY <1>1, <1>2, <1>3, CommandFacts
<1>5. r.pc \in {"check", "where", "forward"}
  BY <1>2, Zenon DEF CheckOwner, WhereIs, NotFound, Forward, At
<1>6. /\ r.node \in up /\ PathOK(r) /\ r.own
      /\ r.pc \in {"where", "forward"} => SlotOf[k] \notin slots[r.node]
  BY <1>3, <1>4, <1>5 DEF RunOK
<1>7. cmd \in [Clients -> Command \cup {Idle}]
  BY DEF DataInv, Typed, TypeOK
<1>8. ASSUME NEW q, Becomes(c, q), q = Idle \/ (q.key = k /\ q.pc # "keys" /\ RunOK(q))
      PROVE  KeyOK(k)'
  BY <1>1, <1>2, <1>4, <1>5, <1>7, <1>8, CommandGoesOn, Zenon DEF Becomes
<1>9. ASSUME NEW q \in Command, q.key = k, PathOK(q), Becomes(c, Resume(q))
      PROVE  KeyOK(k)'
  <2>1. PICK f : f = Resume(q)
    OBVIOUS
  <2>2. f = Idle \/ (f.key = k /\ f.pc # "keys" /\ RunOK(f))
    BY <1>9, <2>1, ResumeRuns
  <2> QED
    BY <1>8, <1>9, <2>1, <2>2
<1>10. CASE CheckOwner(c)
  <2>1. r.pc = "check"
    BY <1>2, <1>10 DEF CheckOwner, At
  <2>2. \/ Becomes(c, Resume(r))
        \/ Becomes(c, [r EXCEPT !.pc = "store"]) /\ SlotOf[k] \in slots[r.node]
        \/ Becomes(c, [r EXCEPT !.pc = "where"]) /\ SlotOf[k] \notin slots[r.node]
    BY <1>2, <1>3, <1>10 DEF CheckOwner, Includes
  <2>3. CASE Becomes(c, [r EXCEPT !.pc = "store"]) /\ SlotOf[k] \in slots[r.node]
    <3> DEFINE q == [r EXCEPT !.pc = "store"]
    <3>1. q.key = k /\ q.pc = "store" /\ q.own /\ q.node = r.node /\ q.path = r.path
      BY <1>3, <1>4, <1>6 DEF Command
    <3>2. Becomes(c, q)
      BY <2>3
    <3> HIDE DEF q
    <3>3. RunOK(q)
      BY <1>3, <1>6, <2>3, <3>1 DEF RunOK, PathOK
    <3> QED
      BY <1>8, <3>1, <3>2, <3>3
  <2>4. CASE Becomes(c, [r EXCEPT !.pc = "where"]) /\ SlotOf[k] \notin slots[r.node]
    <3> DEFINE q == [r EXCEPT !.pc = "where"]
    <3>1. q.key = k /\ q.pc = "where" /\ q.own /\ q.node = r.node /\ q.path = r.path
      BY <1>3, <1>4, <1>6 DEF Command
    <3>2. Becomes(c, q)
      BY <2>4
    <3> HIDE DEF q
    <3>3. RunOK(q)
      BY <1>3, <1>6, <2>4, <3>1 DEF RunOK, PathOK
    <3> QED
      BY <1>8, <3>1, <3>2, <3>3
  <2> QED
    BY <1>3, <1>4, <1>6, <1>9, <2>2, <2>3, <2>4
<1>11. CASE WhereIs(c)
  <2>1. r.pc = "where"
    BY <1>2, <1>11, Zenon DEF WhereIs, At
  <2>2. PICK A : Becomes(c, [r EXCEPT !.asked = A])
                 \/ Becomes(c, [r EXCEPT !.asked = A, !.pc = "forward"])
    BY <1>2, <1>11, Zenon DEF WhereIs
  <2>3. ASSUME NEW q, q \in {[r EXCEPT !.asked = A], [r EXCEPT !.asked = A, !.pc = "forward"]},
               Becomes(c, q)
        PROVE  KeyOK(k)'
    <3>1. q.key = k /\ q.pc \in {"where", "forward"} /\ q.own /\ q.node = r.node
          /\ q.path = r.path
      BY <1>3, <1>4, <1>6, <2>1, <2>3, Zenon DEF Command
    <3>2. RunOK(q)
      BY <1>3, <1>6, <2>1, <3>1 DEF RunOK, PathOK
    <3> QED
      BY <1>8, <2>3, <3>1, <3>2
  <2> QED
    BY <2>2, <2>3
<1>12. CASE NotFound(c)
  BY <1>2, <1>3, <1>4, <1>6, <1>9, <1>12 DEF NotFound
<1>13. CASE Forward(c)
  <2>1. r.pc = "forward" /\ SlotOf[k] \notin slots[r.node]
    BY <1>2, <1>6, <1>13, Zenon DEF Forward, At
  <2> DEFINE f == [r EXCEPT !.asked = {}, !.path = Append(r.path, r.node)]
  <2>2. PICK m : \/ Becomes(c, Resume(r)) \/ Becomes(c, Resume(f))
                 \/ Becomes(c, [f EXCEPT !.node = m, !.pc = "check"]) /\ m \in up
    BY <1>2, <1>13, Zenon DEF Forward, Accepts
  <2>3. f \in Command /\ f.key = k /\ f.own /\ f.path = Append(r.path, r.node)
    <3>1. Append(r.path, r.node) \in Seq(Nodes \cup {Idle})
      BY <1>4 DEF Command
    <3> QED
      BY <1>3, <1>4, <1>6, <3>1, Zenon DEF Command
  <2> HIDE DEF f
  <2>4. PathOK(f)
    <3>1. r.path \in Seq(Nodes \cup {Idle})
      BY <1>4 DEF Command
    <3>2. \A i \in DOMAIN f.path : \/ i \in DOMAIN r.path /\ f.path[i] = r.path[i]
                                   \/ f.path[i] = r.node
      BY <2>3, <3>1
    <3> QED
      BY <1>3, <1>6, <2>1, <2>3, <3>2 DEF PathOK
  <2>5. ASSUME m \in up, Becomes(c, [f EXCEPT !.node = m, !.pc = "check"])
        PROVE  KeyOK(k)'
    <3> DEFINE q == [f EXCEPT !.node = m, !.pc = "check"]
    <3>1. q.key = k /\ q.pc = "check" /\ q.own /\ q.node = m /\ q.path = f.path
      BY <2>3, Zenon DEF Command
    <3>2. Becomes(c, q)
      BY <2>5
    <3> HIDE DEF q
    <3>3. RunOK(q)
      BY <2>3, <2>4, <2>5, <3>1 DEF RunOK, PathOK
    <3> QED
      BY <1>8, <3>1, <3>2, <3>3
  <2> QED
    BY <1>3, <1>4, <1>6, <1>9, <2>2, <2>3, <2>4, <2>5
<1> QED
  BY <1>10, <1>11, <1>12, <1>13

\* A slot is in the database of one node only.
LEMMA OneShard ==
    ASSUME SlotsInv, NEW s \in Slots, NEW n \in Nodes, NEW m \in Nodes,
           s \in shards[n] \/ (n \in up /\ s \in slots[n]),
           s \in shards[m] \/ (m \in up /\ s \in slots[m])
    PROVE  n = m
<1>1. s \in Holds(n) /\ s \in Holds(m)
  BY DEF Holds
<1> QED
  BY <1>1 DEF SlotsInv, SlotsDisjoint

\* The change of the data: at the node of the slot, or DELETE's second delete
\* at a node that has nothing to delete.
LEMMA StoreKeyData ==
    ASSUME DataInv, NEW c \in Clients, NEW k, k = cmd[c].key, k \notin disturbed,
           StoreData(c)
    PROVE  KeyOK(k)'
<1>1. cmd[c] # Idle /\ UNCHANGED <<up, known, slots, shards, keys, mig, disturbed>>
  BY DEF StoreData, At
<1>2. PICK r : r = cmd[c]
  OBVIOUS
<1>3. k \in Keys /\ k = r.key /\ r.pc = "store" /\ SlotOf[k] \in Slots
  BY <1>1, <1>2, CommandFacts, ClusterAssumption DEF StoreData, At
<1>4. /\ r \in Command /\ KeyOK(k) /\ ~Moving(k) /\ RunOK(r) /\ Settled(k)
      /\ \A d \in Clients : Uses(d, k) => d = c
  BY <1>1, <1>2, <1>3, CommandFacts
<1>5. /\ cmd \in [Clients -> Command \cup {Idle}] /\ up \subseteq Nodes
      /\ db \in [Nodes -> [Keys -> Data]] /\ truth \in [Keys -> Data]
      /\ (r.op # "DELETE" => r.val \in Values)
  BY <1>1, <1>2 DEF DataInv, Typed, TypeOK
<1>6. r.node \in Nodes /\ r.node \in up /\ r.op \in {"SET", "SADD", "DELETE"} /\ r.own \in BOOLEAN
  BY <1>4, <1>5 DEF Command, RunOK
<1> DEFINE n == r.node
           e == Effect(r.op, r.val, db[n][k])
           q == [r EXCEPT !.pc = "keys"]
<1>7. /\ db' = [db EXCEPT ![n][k] = e]
      /\ truth' = IF r.own THEN [truth EXCEPT ![k] = Effect(r.op, r.val, truth[k])] ELSE truth
      /\ cmd' = [cmd EXCEPT ![c] = q]
  BY <1>2, <1>3 DEF StoreData, Becomes
<1>8. q.key = k /\ q.pc = "keys" /\ q.own = r.own /\ q.node = n /\ q.path = r.path
      /\ q.op = r.op
  BY <1>3, <1>4 DEF Command
<1> HIDE DEF q
<1>9. \A d \in Clients : cmd'[d] = IF d = c THEN q ELSE cmd[d]
  BY <1>5, <1>7
<1>10. q # Idle
  <2>1. q \in Command
    BY <1>4, Zenon DEF q, Command
  <2> QED
    BY <2>1, IdleAssumption
<1>11. \A m : ~Adding(m, k)
  BY <1>2, <1>3, <1>4 DEF Adding
<1>12. ~Moving(k)'
  BY <1>1, <1>4 DEF Moving
<1>13. \A m \in Nodes : db'[m][k] = IF m = n THEN e ELSE db[m][k]
  BY <1>3, <1>5, <1>6, <1>7
<1>14. CASE r.own
  <2>1. SlotOf[k] \in slots[n] /\ SlotOf[k] \in shards[n]
    BY <1>3, <1>4, <1>6, <1>14, Zenon DEF RunOK, Settled
  <2>2. \A m \in Nodes : SlotOf[k] \in shards[m] <=> m = n
    BY <1>3, <1>6, <2>1, OneShard DEF DataInv
  <2>3. db[n][k] = truth[k] /\ \A m \in Nodes : m # n => db[m][k] = NoData
    BY <1>4, <1>6, <2>1, <2>2 DEF Settled
  <2>4. truth'[k] = e
    BY <1>3, <1>5, <1>7, <1>14, <2>3
  <2>5. e # SetOf({}) /\ (r.op = "DELETE" <=> e = NoData)
    <3>1. db[n][k] \in Data
      BY <1>3, <1>5, <1>6
    <3> QED
      BY <1>5, <1>6, <3>1, EffectValue
  <2> HIDE DEF e
  <2>6. \A m \in up : m # n => (k \in keys[m] <=> db[m][k] # NoData)
    BY <1>4, <1>11 DEF Settled
  <2>7. Adding(n, k)'
    BY <1>8, <1>9, <1>10, <1>14, Zenon DEF Adding, Uses
  <2>8. Settled(k)'
    <3>1. \A m \in up' : SlotOf[k] \in slots'[m] <=> SlotOf[k] \in shards'[m]
      BY <1>1, <1>4 DEF Settled
    <3>2. \E m \in Nodes : SlotOf[k] \in shards'[m]
      BY <1>1, <1>6, <2>1
    <3>3. \A m \in Nodes : db'[m][k] = IF SlotOf[k] \in shards'[m] THEN truth'[k] ELSE NoData
      BY <1>1, <1>13, <2>2, <2>3, <2>4
    <3>4. \A m \in up' : Adding(m, k)' \/ (k \in keys'[m] <=> db'[m][k] # NoData)
      BY <1>1, <1>5, <1>13, <2>6, <2>7
    <3> QED
      BY <3>1, <3>2, <3>3, <3>4 DEF Settled
  <2>9. RunOK(q)'
    BY <1>1, <1>3, <1>4, <1>6, <1>8, <1>14, <2>1, <2>4, <2>5 DEF RunOK, PathOK
  <2> QED
    BY <1>4, <1>5, <1>7, <1>8, <1>12, <2>4, <2>5, <2>8, <2>9, OwnCommand, Zenon
<1>15. CASE ~r.own
  <2>1. SlotOf[k] \notin slots[n] /\ SlotOf[k] \notin shards[n] /\ r.op = "DELETE"
    BY <1>3, <1>4, <1>6, <1>15, Zenon DEF RunOK, Settled
  <2>2. db[n][k] = NoData /\ e = NoData
    BY <1>4, <1>6, <2>1 DEF Settled, Effect
  <2> HIDE DEF e
  <2>3. KeySame(k)
    BY <1>1, <1>7, <1>13, <1>15, <2>2 DEF KeySame
  <2>4. \A m : ~Adding(m, k)'
    BY <1>4, <1>8, <1>9, <1>15 DEF Adding, Uses
  <2>5. Settled(k)'
    BY <1>1, <1>4, <1>5, <1>11, <2>3, <2>4, Zenon DEF Settled, KeySame
  <2>6. RunOK(q)'
    BY <1>1, <1>3, <1>4, <1>8, <1>15, <2>1 DEF RunOK, PathOK
  <2>7. truth'[k] # SetOf({})
    BY <1>4, <2>3 DEF KeySame, KeyOK
  <2> QED
    BY <1>4, <1>5, <1>7, <1>8, <1>12, <2>5, <2>6, <2>7, OwnCommand, Zenon
<1> QED
  BY <1>14, <1>15

\* Command#exec: the shard learns what the data has become.
LEMMA ShardKeyData ==
    ASSUME DataInv, NEW c \in Clients, NEW k, k = cmd[c].key, k \notin disturbed',
           ShardKey(c)
    PROVE  KeyOK(k)'
<1>1. cmd[c] # Idle /\ UNCHANGED <<up, known, slots, shards, db, mig>>
  BY DEF ShardKey, At
<1>2. PICK r : r = cmd[c]
  OBVIOUS
<1>3. k \notin disturbed /\ r.node \in known[r.node] /\ r.pc = "keys"
  BY <1>2 DEF ShardKey, At, Disturb
<1>4. k \in Keys /\ k = r.key /\ SlotOf[k] \in Slots
  BY <1>1, <1>2, <1>3, CommandFacts, ClusterAssumption, Zenon
<1>5. /\ r \in Command /\ KeyOK(k) /\ ~Moving(k) /\ RunOK(r) /\ Settled(k)
      /\ \A d \in Clients : Uses(d, k) => d = c
  BY <1>1, <1>2, <1>3, <1>4, CommandFacts
<1>6. truth'[k] = truth[k]
  BY <1>2, <1>3, <1>4 DEF ShardKey, Disturb
<1>7. /\ cmd \in [Clients -> Command \cup {Idle}] /\ up \subseteq Nodes
      /\ keys \in [Nodes -> SUBSET Keys]
  BY DEF DataInv, Typed, TypeOK
<1> DEFINE n == r.node
<1>8. n \in Nodes /\ n \in up /\ PathOK(r)
  BY <1>5, <1>7, Zenon DEF RunOK
<1>9. PICK q : q = Resume(r)
  OBVIOUS
<1>10. cmd' = [cmd EXCEPT ![c] = q]
  BY <1>2, <1>9 DEF ShardKey, Becomes
<1>11. q = Idle \/ (q.key = k /\ ~q.own /\ RunOK(q) /\ q.pc = "store")
  BY <1>4, <1>5, <1>8, <1>9, ResumeRuns, Zenon
<1>12. q = Idle \/ (q.key = k /\ RunOK(q)')
  BY <1>1, <1>6, <1>11 DEF RunOK, PathOK
<1>13. \A m : ~Adding(m, k)'
  <2>1. \A d \in Clients : cmd'[d] = IF d = c THEN q ELSE cmd[d]
    BY <1>7, <1>10
  <2> QED
    BY <1>5, <1>11, <2>1 DEF Adding, Uses
<1>14. \A m : m # n => ~Adding(m, k)
  BY <1>2, <1>5, Zenon DEF Adding
<1>15. \A m \in Nodes : m # n => keys'[m] = keys[m]
  BY <1>2, <1>7 DEF ShardKey
<1>16. k \in keys'[n] <=> db[n][k] # NoData
  <2>1. keys'[n] = IF r.op = "DELETE" THEN keys[n] \ {k}
                   ELSE IF Includes(n, k) THEN keys[n] \cup {k} ELSE keys[n]
    BY <1>2, <1>3, <1>4, <1>7, <1>8, Zenon DEF ShardKey
  <2>2. CASE r.own
    <3>1. SlotOf[k] \in slots[n] /\ SlotOf[k] \in shards[n]
          /\ (r.op = "DELETE" <=> truth[k] = NoData)
      BY <1>3, <1>4, <1>5, <1>8, <2>2, Zenon DEF RunOK, Settled
    <3>2. db[n][k] = truth[k]
      BY <1>5, <1>8, <3>1 DEF Settled
    <3> QED
      BY <2>1, <3>1, <3>2 DEF Includes
  <2>3. CASE ~r.own
    <3>1. SlotOf[k] \notin shards[n] /\ r.op = "DELETE"
      BY <1>4, <1>5, <1>8, <2>3 DEF RunOK, Settled
    <3>2. db[n][k] = NoData
      BY <1>5, <1>8, <3>1 DEF Settled
    <3> QED
      BY <2>1, <3>1, <3>2
  <2> QED
    BY <2>2, <2>3
<1>17. Settled(k)'
  <2>1. \A m \in up : k \in keys'[m] <=> db[m][k] # NoData
    BY <1>5, <1>7, <1>14, <1>15, <1>16, Zenon DEF Settled
  <2> QED
    BY <1>1, <1>5, <1>6, <2>1, Zenon DEF Settled
<1>18. ~Moving(k)' /\ truth'[k] # SetOf({})
  BY <1>1, <1>5, <1>6 DEF Moving, KeyOK
<1> QED
  BY <1>5, <1>7, <1>10, <1>12, <1>17, <1>18, OwnCommand, Zenon

\* A command keeps its key.
LEMMA StepKey ==
    ASSUME NEW c \in Clients, cmd \in [Clients -> Command \cup {Idle}],
           cmd[c] \in Command, CommandStep(c), NEW q, cmd' = [cmd EXCEPT ![c] = q]
    PROVE  q = Idle \/ q.key = cmd[c].key
<1>1. cmd'[c] = q
  OBVIOUS
<1>2. PICK r : r = cmd[c]
  OBVIOUS
<1>3. ASSUME NEW f, Becomes(c, f) PROVE q = f
  BY <1>1, <1>3 DEF Becomes
<1>4. ASSUME NEW f \in Command PROVE Resume(f) = Idle \/ Resume(f).key = f.key
  BY <1>4 DEF Resume, Command
<1>5. CASE CheckOwner(c)
  BY <1>2, <1>3, <1>4, <1>5 DEF CheckOwner, Command
<1>6. CASE WhereIs(c)
  <2>1. PICK A : \/ Becomes(c, [r EXCEPT !.asked = A])
                 \/ Becomes(c, [r EXCEPT !.asked = A, !.pc = "forward"])
    BY <1>2, <1>6, Zenon DEF WhereIs
  <2> QED
    BY <1>2, <1>3, <2>1, Zenon DEF Command
<1>7. CASE NotFound(c)
  BY <1>2, <1>3, <1>4, <1>7 DEF NotFound
<1>8. CASE Forward(c)
  <2> DEFINE f == [r EXCEPT !.asked = {}, !.path = Append(r.path, r.node)]
  <2>1. PICK m : \/ Becomes(c, Resume(r)) \/ Becomes(c, Resume(f))
                 \/ Becomes(c, [f EXCEPT !.node = m, !.pc = "check"])
    BY <1>2, <1>8, Zenon DEF Forward
  <2>2. f \in Command /\ f.key = r.key
    <3>1. Append(r.path, r.node) \in Seq(Nodes \cup {Idle})
      BY <1>2 DEF Command
    <3> QED
      BY <1>2, <3>1, Zenon DEF Command
  <2> HIDE DEF f
  <2>3. [f EXCEPT !.node = m, !.pc = "check"].key = f.key
    BY <2>2, Zenon DEF Command
  <2> QED
    BY <1>2, <1>3, <1>4, <2>1, <2>2, <2>3, Zenon
<1>9. CASE StoreData(c)
  BY <1>2, <1>3, <1>9 DEF StoreData, Command
<1>10. CASE ShardKey(c)
  BY <1>2, <1>3, <1>4, <1>10 DEF ShardKey
<1> QED
  BY <1>5, <1>6, <1>7, <1>8, <1>9, <1>10 DEF CommandStep

\* A step of a command keeps what is known of every key.
LEMMA CommandData ==
    ASSUME DataInv, NEW c \in Clients, CommandStep(c), NEW k \in Keys \ disturbed'
    PROVE  KeyOK(k)'
<1>1. /\ cmd[c] # Idle /\ UNCHANGED <<up, known, slots, shards, mig>>
      /\ disturbed \subseteq disturbed'
  BY Zenon DEF CommandStep, CheckOwner, WhereIs, NotFound, Forward, StoreData, ShardKey,
               At, Disturb, history
<1>2. /\ cmd[c] \in Command /\ KeyOK(k) /\ up \subseteq Nodes
      /\ cmd \in [Clients -> Command \cup {Idle}] /\ truth \in [Keys -> Data]
      /\ db \in [Nodes -> [Keys -> Data]] /\ keys \in [Nodes -> SUBSET Keys]
  BY <1>1 DEF DataInv, Typed, TypeOK
<1>3. CASE k = cmd[c].key
  BY <1>1, <1>3, RoutingData, StoreKeyData, ShardKeyData DEF CommandStep
<1>4. CASE k # cmd[c].key
  <2>1. cmd[c].key \in Keys /\ cmd[c].node \in Nodes
    BY <1>2 DEF Command
  <2>2. KeySame(k)
    <3>1. CASE UNCHANGED <<keys, db, history>>
      BY <3>1 DEF KeySame, history
    <3>2. CASE StoreData(c)
      BY <1>2, <1>4, <2>1, <3>2 DEF StoreData, KeySame
    <3>3. CASE ShardKey(c)
      BY <1>2, <1>4, <2>1, <3>3 DEF ShardKey, KeySame, Disturb
    <3> QED
      BY <3>1, <3>2, <3>3, Zenon DEF CommandStep, CheckOwner, WhereIs, NotFound, Forward
  <2>3. PICK q : cmd' = [cmd EXCEPT ![c] = q]
    BY Zenon DEF CommandStep, CheckOwner, WhereIs, NotFound, Forward, StoreData, ShardKey,
                 Becomes
  <2>4. q = Idle \/ q.key = cmd[c].key
    BY <1>1, <1>2, <2>3, StepKey, Zenon
  <2>5. CmdSame(k)
    BY <1>2, <1>4, <2>3, <2>4, OtherCommands, Zenon
  <2> QED
    BY <1>1, <1>2, <2>2, <2>5, KeyUntouched
<1> QED
  BY <1>3, <1>4
-----------------------------------------------------------------------------
(* The administrator, and nodes that stop and start.                       *)

\* Steps of tasks: none of them moves data, and none of them is taken while a
\* migration is in progress, but for its answer.
LEMMA TaskData ==
    ASSUME DataInv, Administer \/ TaskStep \/ Collected, NEW k \in Keys \ disturbed'
    PROVE  KeyOK(k)'
<1>1. /\ UNCHANGED <<up, slots, shards, keys, db, cmd, truth, disturbed>>
      /\ mig = Idle /\ (mig' = Idle \/ mig'.slots = {})
  <2> DEFINE Frame == UNCHANGED <<up, nodevars, cmd, history>>
             Begun == mig = Idle /\ (mig' = Idle \/ mig'.slots = {})
  <2> SUFFICES Frame /\ Begun
    BY DEF nodevars, history
  <2>1. ASSUME NEW a, NEW t, Ready(a), Starts(t)
        PROVE  Frame /\ Begun
    BY <2>1 DEF Ready, Starts
  <2>2. ASSUME NEW a, NEW m, Meet(a, m) PROVE Frame /\ Begun
    BY <2>2 DEF Ready, Meet
  <2>3. CASE Administer
    BY <2>1, <2>2, <2>3, Zenon DEF Administer, Forget, ReshardAll, ReshardOne
  <2>4. ASSUME NEW pc, pc # "wait", TaskAt(pc) PROVE Frame /\ mig = Idle
    BY <2>4 DEF TaskAt, DataInv, MigrationRuns
  <2>5. CASE Migrate
    <3>1. PICK src, dst, x : \/ UNCHANGED mig
                             \/ mig' = [src |-> src, dst |-> dst, num |-> x,
                                        slots |-> {}, keys |-> {}, key |-> NoData,
                                        pieces |-> {}, pc |-> "reshard"]
      BY <2>5, Zenon DEF Migrate
    <3>2. Frame /\ mig = Idle
      BY <2>4, <2>5 DEF Migrate
    <3> QED
      BY <3>1, <3>2
  <2>6. CASE Round \/ Met \/ Gossip \/ GossipSent \/ Collected
    BY <2>4, <2>6 DEF Round, Met, Gossip, GossipSent, Collected
  <2> QED
    BY <2>3, <2>5, <2>6, Zenon DEF TaskStep
<1>2. KeyOK(k) /\ up \subseteq Nodes
  BY <1>1 DEF DataInv, Typed, TypeOK
<1>3. ~Moving(k) /\ ~Moving(k)'
  BY <1>1 DEF Moving
<1>4. KeySame(k) /\ CmdSame(k) /\ SlotSame(k)
  BY <1>1, Zenon DEF KeySame, CmdSame, SlotSame, Uses
<1> QED
  BY <1>1, <1>2, <1>3, <1>4, SettledSame

\* A node stops: a key in use or on the move is given up, another one stays in
\* the databases.
LEMMA StopData ==
    ASSUME DataInv, NEW n \in Nodes, Stop(n), NEW k \in Keys \ disturbed'
    PROVE  KeyOK(k)'
<1>1. up' = up \ {n} /\ UNCHANGED <<slots, shards, keys, db>>
      /\ Disturb({x \in Keys : Moving(x) \/ InUse(x)})
  BY DEF Stop, nodevars
<1>2. k \in Keys \ disturbed /\ ~Moving(k) /\ ~InUse(k) /\ truth'[k] = truth[k]
  BY <1>1, DisturbOthers, Zenon
<1>3. KeyOK(k) /\ Settled(k)
  BY <1>2 DEF DataInv, KeyOK
<1>4. \A c \in Clients : ~Uses(c, k)'
  <2>1. SUFFICES ASSUME NEW c \in Clients, cmd'[c] # Idle PROVE cmd'[c].key # k
    BY DEF Uses
  <2>2. PICK r : r = cmd[c]
    OBVIOUS
  <2> DEFINE f == [r EXCEPT !.path = Dropped(r.path, n)]
  <2>3. r # Idle /\ (cmd'[c] = f \/ cmd'[c] = Resume(f))
    BY <2>1, <2>2 DEF Stop
  <2>4. r \in Command /\ r.key # k
    BY <1>2, <2>2, <2>3 DEF DataInv, Typed, TypeOK, InUse
  <2>5. f \in Command /\ f.key = r.key
    <3>1. f \in Command
      BY <2>4, DroppedTyped
    <3> QED
      BY <2>4, <3>1 DEF Command
  <2> HIDE DEF f
  <2>6. Resume(f) = Idle \/ Resume(f).key = f.key
    BY <2>5 DEF Resume, Command
  <2> QED
    BY <2>1, <2>3, <2>4, <2>5, <2>6
<1>5. ~Moving(k)'
  <2>1. mig' = Idle \/ mig' = mig \/ (mig # Idle /\ mig' = [mig EXCEPT !.pc = "keys"])
    BY DEF Stop
  <2>2. mig' # Idle => mig # Idle /\ mig'.slots = mig.slots
    <3>1. mig # Idle => mig \in Migration
      BY DEF DataInv, Typed, TypeOK
    <3> QED
      BY <2>1, <3>1 DEF Migration
  <2> QED
    BY <1>2, <2>2 DEF Moving
<1>6. CommandsOK(k)'
  BY <1>4 DEF CommandsOK
<1>7. \A m : ~Adding(m, k)
  BY <1>2 DEF Adding, InUse, Uses
<1>8. Settled(k)'
  BY <1>1, <1>2, <1>3, <1>7, Zenon DEF Settled
<1> QED
  BY <1>2, <1>3, <1>5, <1>6, <1>8, Zenon DEF KeyOK

\* A node starts: its shard is what the database says.
LEMMA StartData ==
    ASSUME DataInv, NEW n \in Nodes, Start(n), NEW k \in Keys \ disturbed'
    PROVE  KeyOK(k)'
<1>1. /\ n \notin up /\ up' = up \cup {n}
      /\ UNCHANGED <<shards, db, cmd, mig, truth, disturbed>>
  BY DEF Start, history
<1>2. /\ up \subseteq Nodes /\ known \in [Nodes -> SUBSET Nodes]
      /\ slots \in [Nodes -> SUBSET (Slots \cup {Blank})] /\ keys \in [Nodes -> SUBSET Keys]
      /\ KeyOK(k)
  BY <1>1 DEF DataInv, Typed, TypeOK
<1>3. \A m \in up : slots'[m] = slots[m] /\ keys'[m] = keys[m] /\ known'[m] = known[m]
  BY <1>1, <1>2, Zenon DEF Start
<1>4. slots'[n] = shards[n] /\ \A x \in Keys : x \in keys'[n] <=> db[n][x] # NoData
  BY <1>2 DEF Start
<1>5. \A c \in Clients : Uses(c, k)' <=> Uses(c, k)
  BY <1>1 DEF Uses
<1>6. CommandsOK(k)'
  <2>1. CommandsOK(k)
    BY <1>2 DEF KeyOK
  <2>2. SUFFICES ASSUME NEW c \in Clients, Uses(c, k) PROVE RunOK(cmd[c])'
    BY <1>5, <2>1 DEF CommandsOK
  <2>3. PICK r : r = cmd[c] /\ r = cmd'[c] /\ RunOK(r)
    BY <1>1, <2>1, <2>2 DEF CommandsOK
  <2>4. PathOK(r)'
    BY <1>1, <1>3, <2>3, Zenon DEF RunOK, PathOK
  <2>5. RunOK(r)'
    BY <1>1, <1>3, <2>3, <2>4, Zenon DEF RunOK
  <2> QED
    BY <2>3, <2>5, Zenon DEF RunOK, PathOK
<1>7. CASE ~Moving(k)
  <2>1. Settled(k)
    BY <1>2, <1>7 DEF KeyOK
  <2>2. \A m : Adding(m, k)' <=> Adding(m, k)
    BY <1>1 DEF Adding, Uses
  <2>3. Settled(k)'
    BY <1>1, <1>3, <1>4, <2>1, <2>2 DEF Settled
  <2>4. ~Moving(k)'
    BY <1>1, <1>7 DEF Moving
  <2> QED
    BY <1>1, <1>2, <1>6, <2>3, <2>4 DEF KeyOK
<1>8. CASE Moving(k)
  <2>1. Underway(k) /\ Carried(k) /\ ~InUse(k) /\ Moving(k)' /\ ~InUse(k)'
    BY <1>1, <1>2, <1>8, Zenon DEF KeyOK, Moving, InUse
  <2>2. mig.src \in up /\ mig # Idle
    BY <1>8 DEF DataInv, MigrationRuns, Moving
  <2>3. mig.pc \in {"added", "keys", "copy"} => mig.dst \in up /\ Serves(mig.dst, mig.src)'
    BY <1>1, <1>3, <2>1 DEF Underway, Serves, Accepts
  <2>4. SlotOf[k] \notin shards[n]
    BY <1>1, <2>1, <2>2, <2>3 DEF Underway
  <2>5. Underway(k)'
    <3>1. mig'.pc # "reshard" /\ mig'.src # mig'.dst
      BY <1>1, <2>1 DEF Underway
    <3>2. \A m \in Nodes : SlotOf[k] \in shards'[m] <=>
            \/ mig'.pc = "save" /\ m = mig'.src
            \/ mig'.pc \in {"keys", "copy"} /\ m = mig'.dst
      BY <1>1, <2>1 DEF Underway
    <3>3. \A m \in up' : SlotOf[k] \in slots'[m] <=>
            mig'.pc \in {"added", "keys", "copy"} /\ m = mig'.dst
      <4>1. ASSUME NEW m \in up
            PROVE  SlotOf[k] \in slots[m] <=>
                     mig.pc \in {"added", "keys", "copy"} /\ m = mig.dst
        BY <2>1, Zenon DEF Underway
      <4>2. ASSUME NEW m \in up', m # n
            PROVE  m \in up /\ slots'[m] = slots[m]
        BY <1>1, <1>3, <4>2
      <4>3. /\ SlotOf[k] \notin slots'[n]
            /\ mig.pc \in {"added", "keys", "copy"} => n # mig.dst
        BY <1>1, <1>4, <2>3, <2>4
      <4> QED
        BY <1>1, <4>1, <4>2, <4>3
    <3> QED
      BY <1>1, <2>3, <3>1, <3>2, <3>3 DEF Underway
  <2>6. Carried(k)'
    <3>1. Unsent(k)' = Unsent(k) /\ (AtSource(k)' <=> AtSource(k)) /\ (Copying(k)' <=> Copying(k))
      BY <1>1, Zenon DEF Unsent, AtSource, Copying
    <3>2. n # mig.src
      BY <1>1, <2>2
    <3>3. n = mig.dst => db[n][k] = Copied(truth[k], Unsent(k))
      BY <2>1, <3>2, Zenon DEF Carried
    <3>4. \A m \in up' : k \in keys'[m] <=> m = mig'.dst /\ db'[m][k] # NoData
      BY <1>1, <1>3, <1>4, <2>1, <3>2, Zenon DEF Carried
    <3> QED
      BY <1>1, <2>1, <3>1, <3>4, Zenon DEF Carried
  <2> QED
    BY <1>1, <1>2, <1>6, <2>1, <2>5, <2>6 DEF KeyOK
<1> QED
  BY <1>7, <1>8
-----------------------------------------------------------------------------
(* LocalNode#migrate.                                                      *)

\* What every step of a migration relies on.
LEMMA MigrationFacts ==
    ASSUME DataInv, mig # Idle
    PROVE  /\ mig \in Migration /\ mig.src \in Nodes /\ mig.dst \in Nodes /\ mig.src \in up
           /\ up \subseteq Nodes /\ SlotOf \in [Keys -> Slots] /\ Blank \notin Slots
           /\ slots \in [Nodes -> SUBSET (Slots \cup {Blank})]
           /\ shards \in [Nodes -> SUBSET (Slots \cup {Blank})]
           /\ keys \in [Nodes -> SUBSET Keys] /\ db \in [Nodes -> [Keys -> Data]]
           /\ truth \in [Keys -> Data] /\ mig.keys \subseteq Keys
  BY ClusterAssumption, Zenon DEF DataInv, MigrationRuns, Typed, TypeOK, Migration

\* No command notices a step of a migration.
LEMMA MigCmdSame == ASSUME NEW k, UNCHANGED cmd PROVE CmdSame(k)
  BY DEF CmdSame, Uses

\* KeyShard#reshard: the keys of the slots leave the shard of the source.
LEMMA ReshardData ==
    ASSUME DataInv, Reshard, NEW k \in Keys \ disturbed'
    PROVE  KeyOK(k)'
<1>1. mig # Idle /\ mig.pc = "reshard" /\ mig.slots = {} /\ mig.keys = {}
      /\ UNCHANGED <<up, known, cmd, shards, db>>
  BY DEF Reshard, MigAt, DataInv, MigrationRuns
<1>2. /\ mig \in Migration /\ mig.src \in Nodes /\ mig.dst \in Nodes /\ mig.src \in up
      /\ up \subseteq Nodes /\ SlotOf[k] \in Slots
      /\ slots \in [Nodes -> SUBSET (Slots \cup {Blank})]
      /\ keys \in [Nodes -> SUBSET Keys]
  BY <1>1, MigrationFacts
<1> DEFINE n == mig.src
<1>3. PICK S \in SUBSET slots[n] :
        LET K == {x \in keys[n] : SlotOf[x] \in S}
        IN  /\ slots' = [slots EXCEPT ![n] = @ \ S]
            /\ keys' = [keys EXCEPT ![n] = @ \ K]
            /\ mig' = [mig EXCEPT !.slots = S, !.keys = K, !.pc = "save"]
            /\ Disturb({x \in Keys : SlotOf[x] \in S /\ (n = mig.dst \/ InUse(x))})
  BY Zenon DEF Reshard
<1> DEFINE K == {x \in keys[n] : SlotOf[x] \in S}
<1>4. k \in Keys \ disturbed /\ truth'[k] = truth[k]
      /\ (SlotOf[k] \in S => n # mig.dst /\ ~InUse(k))
  <2> DEFINE D == {x \in Keys : SlotOf[x] \in S /\ (n = mig.dst \/ InUse(x))}
  <2>1. Disturb(D)
    BY <1>3
  <2>2. k \in Keys \ disturbed /\ k \notin D /\ truth'[k] = truth[k]
    <3> HIDE DEF D
    <3> QED
      BY <2>1, DisturbOthers
  <2> QED
    BY <2>2
<1>5. KeyOK(k) /\ ~Moving(k) /\ Settled(k)
  BY <1>1, <1>4 DEF DataInv, KeyOK, Moving
<1>6. /\ slots'[n] = slots[n] \ S /\ keys'[n] = keys[n] \ K
      /\ \A m \in Nodes \ {n} : slots'[m] = slots[m] /\ keys'[m] = keys[m]
  BY <1>2, <1>3
<1>7. /\ mig'.slots = S /\ mig'.keys = K /\ mig'.pc = "save"
      /\ mig'.src = n /\ mig'.dst = mig.dst /\ mig' # Idle
  <2>1. mig' = [mig EXCEPT !.slots = S, !.keys = K, !.pc = "save"]
    BY <1>3
  <2>2. K \in SUBSET Keys /\ S \in SUBSET (Slots \cup {Blank})
    BY <1>2
  <2> HIDE DEF K
  <2>3. mig' \in Migration
    BY <1>2, <2>1, <2>2, Zenon DEF Migration
  <2> QED
    BY <1>2, <2>1, <2>3, IdleAssumption, Zenon DEF Migration
<1>8. k \in K <=> k \in keys[n] /\ SlotOf[k] \in S
  OBVIOUS
<1> HIDE DEF K
<1>9. CASE SlotOf[k] \notin S
  <2>1. ~Moving(k)'
    BY <1>7, <1>9 DEF Moving
  <2>2. KeySame(k)
    BY <1>1, <1>4, <1>6, <1>8, <1>9 DEF KeySame
  <2>3. SlotSame(k)
    BY <1>1, <1>6, <1>9 DEF SlotSame
  <2> QED
    BY <1>1, <1>2, <1>5, <2>1, <2>2, <2>3, MigCmdSame, SettledSame
<1>10. CASE SlotOf[k] \in S
  <2>1. SlotOf[k] \in slots[n] /\ SlotOf[k] \in shards[n] /\ n # mig.dst /\ ~InUse(k)
    BY <1>2, <1>4, <1>5, <1>10, Zenon DEF Settled
  <2>2. \A m \in Nodes : m # n => SlotOf[k] \notin shards[m]
                                  /\ (m \in up => SlotOf[k] \notin slots[m])
    BY <1>2, <2>1, OneShard DEF DataInv
  <2>3. /\ db[n][k] = truth[k] /\ \A m \in Nodes : m # n => db[m][k] = NoData
    BY <1>2, <1>5, <2>1, <2>2 DEF Settled
  <2>4. \A m \in up : k \in keys[m] <=> db[m][k] # NoData
    BY <1>5, <2>1 DEF Settled, Adding, Uses, InUse
  <2>5. Moving(k)' /\ ~InUse(k)'
    BY <1>1, <1>7, <1>10, <2>1 DEF Moving, InUse
  <2>6. Underway(k)'
    <3>1. \A m \in Nodes : SlotOf[k] \in shards'[m] <=> m = n
      BY <1>1, <1>2, <2>1, <2>2
    <3>2. \A m \in up' : SlotOf[k] \notin slots'[m]
      BY <1>1, <1>2, <1>6, <1>10, <2>2
    <3> QED
      BY <1>7, <2>1, <3>1, <3>2 DEF Underway
  <2>7. ~Copying(k)' /\ (AtSource(k)' <=> k \in K)
        /\ Unsent(k)' = IF k \in K THEN Pieces(truth[k]) ELSE {}
    BY <1>4, <1>7 DEF Copying, AtSource, Unsent
  <2>8. k \in K <=> truth[k] # NoData
    BY <1>2, <1>8, <1>10, <2>3, <2>4
  <2>9. Copied(truth[k], Unsent(k)') = NoData
    BY <2>7, <2>8 DEF Copied, Pieces
  <2>10. \A m \in up' : k \notin keys'[m]
    BY <1>1, <1>2, <1>6, <1>8, <1>10, <2>3, <2>4
  <2>11. Carried(k)'
    <3>1. \A m \in Nodes : db'[m][k] =
            IF m = mig'.src /\ AtSource(k)' THEN truth'[k]
            ELSE IF m = mig'.dst THEN Copied(truth'[k], Unsent(k)') ELSE NoData
      BY <1>1, <1>4, <1>7, <2>1, <2>3, <2>7, <2>8, <2>9, Zenon
    <3>2. \A m \in up' : k \in keys'[m] <=> m = mig'.dst /\ db'[m][k] # NoData
      BY <1>1, <1>2, <1>7, <2>1, <2>3, <2>10
    <3>3. Unsent(k)' \subseteq Pieces(truth'[k])
      BY <1>4, <2>7
    <3>4. (AtSource(k)' => truth'[k] # NoData) /\ (truth'[k] = NoData \/ AtSource(k)')
      BY <1>4, <2>7, <2>8
    <3> QED
      BY <2>7, <3>1, <3>2, <3>3, <3>4 DEF Carried
  <2>12. CommandsOK(k)'
    BY <1>1, <2>1 DEF CommandsOK, Uses, InUse
  <2> QED
    BY <1>4, <1>5, <2>5, <2>6, <2>11, <2>12, Zenon DEF KeyOK
<1> QED
  BY <1>9, <1>10

\* The keys that are carried: a step of LocalNode#migrate that moves the slot on
\* and leaves the data.
LEMMA SlotMoves ==
    ASSUME NEW k \in Keys, KeyOK(k), Moving(k), mig' # Idle, Underway(k)',
           SlotOf[k] \in mig'.slots, mig'.keys = mig.keys, mig'.src = mig.src,
           mig'.dst = mig.dst, mig.pc # "copy", mig'.pc # "copy", mig.pc # "keys",
           UNCHANGED <<up, cmd, keys, db, truth>>
    PROVE  KeyOK(k)'
<1>1. Moving(k)' /\ ~InUse(k)' /\ CommandsOK(k)'
  BY Zenon DEF KeyOK, Moving, InUse, CommandsOK, Uses
<1>2. Carried(k)
  BY Zenon DEF KeyOK
<1>3. /\ ~Copying(k) /\ ~Copying(k)' /\ Unsent(k)' = Unsent(k)
      /\ AtSource(k)' <=> AtSource(k)
  BY DEF Copying, Unsent, AtSource
<1>4. Carried(k)'
  BY <1>2, <1>3, Zenon DEF Carried
<1> QED
  BY <1>1, <1>4 DEF KeyOK

\* The shards of the source are written without the slots.
LEMMA SaveSlotsData ==
    ASSUME DataInv, SaveSlots, NEW k \in Keys \ disturbed'
    PROVE  KeyOK(k)'
<1>1. /\ mig # Idle /\ mig.pc = "save"
      /\ UNCHANGED <<up, known, cmd, slots, keys, db, truth, disturbed>>
  BY DEF SaveSlots, MigAt, history
<1>2. /\ mig \in Migration /\ mig.src \in Nodes /\ mig.dst \in Nodes /\ mig.src \in up
      /\ up \subseteq Nodes /\ SlotOf[k] \in Slots /\ SlotOf[k] # Blank
      /\ shards \in [Nodes -> SUBSET (Slots \cup {Blank})] /\ KeyOK(k)
  BY <1>1, MigrationFacts DEF DataInv
<1>3. PICK S \in Joined(slots[mig.src]) : shards' = [shards EXCEPT ![mig.src] = S]
  BY Zenon DEF SaveSlots
<1>4. SlotOf[k] \in S <=> SlotOf[k] \in slots[mig.src]
  BY <1>2, <1>3 DEF Joined
<1>5. shards'[mig.src] = S /\ \A m \in Nodes \ {mig.src} : shards'[m] = shards[m]
  BY <1>2, <1>3
<1>6. /\ mig'.slots = mig.slots \ {Blank} /\ mig'.keys = mig.keys /\ mig'.pc = "add"
      /\ mig'.src = mig.src /\ mig'.dst = mig.dst /\ mig' # Idle
  <2>1. mig' = [mig EXCEPT !.slots = mig.slots \ {Blank}, !.pc = "add"]
    BY DEF SaveSlots
  <2>2. mig' \in Migration
    BY <1>2, <2>1, Zenon DEF Migration
  <2> QED
    BY <1>2, <2>1, <2>2, IdleAssumption, Zenon DEF Migration
<1>7. CASE ~Moving(k)
  <2>1. ~Moving(k)'
    BY <1>1, <1>6, <1>7 DEF Moving
  <2>2. SlotOf[k] \in slots[mig.src] <=> SlotOf[k] \in shards[mig.src]
    BY <1>2, <1>7, Zenon DEF KeyOK, Settled
  <2>3. KeySame(k) /\ SlotSame(k)
    BY <1>1, <1>4, <1>5, <2>2 DEF KeySame, SlotSame
  <2> QED
    BY <1>1, <1>2, <1>7, <2>1, <2>3, MigCmdSame, SettledSame
<1>8. CASE Moving(k)
  <2>1. Underway(k) /\ SlotOf[k] \in mig'.slots
    BY <1>2, <1>6, <1>8 DEF KeyOK, Moving
  <2>2. \A m \in up : SlotOf[k] \notin slots[m]
    BY <1>1, <2>1 DEF Underway
  <2>3. \A m \in Nodes : SlotOf[k] \notin shards'[m]
    BY <1>1, <1>2, <1>4, <1>5, <2>1, <2>2 DEF Underway
  <2>4. Underway(k)'
    BY <1>1, <1>6, <2>1, <2>2, <2>3, Zenon DEF Underway
  <2> QED
    BY <1>1, <1>2, <1>6, <1>8, <2>1, <2>4, SlotMoves
<1> QED
  BY <1>7, <1>8

\* A step of a migration that does nothing to the keys it does not carry.
LEMMA NotCarried ==
    ASSUME NEW k \in Keys, up \subseteq Nodes, KeyOK(k), ~Moving(k), ~Moving(k)',
           SlotSame(k), KeySame(k), UNCHANGED <<up, cmd>>
    PROVE  KeyOK(k)'
  BY MigCmdSame, SettledSame

\* dst.add_slots: the destination gets the slots, or the keys are given up.
LEMMA AddSlotsData ==
    ASSUME DataInv, AddSlots, NEW k \in Keys \ disturbed'
    PROVE  KeyOK(k)'
<1> DEFINE d == mig.dst
           moved == {x \in Keys : SlotOf[x] \in mig.slots}
<1>1. mig # Idle /\ mig.pc = "add" /\ UNCHANGED <<up, known, cmd, shards, keys, db>>
  BY DEF AddSlots, MigAt
<1>2. /\ mig \in Migration /\ mig.src \in Nodes /\ d \in Nodes /\ up \subseteq Nodes
      /\ slots \in [Nodes -> SUBSET (Slots \cup {Blank})]
  BY <1>1, MigrationFacts
<1>3. CASE /\ Serves(d, mig.src) /\ slots' = [slots EXCEPT ![d] = @ \cup mig.slots]
           /\ mig' = [mig EXCEPT !.pc = "added"] /\ UNCHANGED history
  <2>1. KeyOK(k) /\ UNCHANGED truth
    BY <1>3 DEF DataInv, history
  <2>2. /\ mig'.slots = mig.slots /\ mig'.keys = mig.keys /\ mig'.pc = "added"
        /\ mig'.src = mig.src /\ mig'.dst = d /\ mig' # Idle
    <3>1. mig' \in Migration
      BY <1>2, <1>3 DEF Migration
    <3> QED
      BY <1>2, <1>3, <3>1, IdleAssumption DEF Migration
  <2>3. slots'[d] = slots[d] \cup mig.slots /\ \A m \in Nodes \ {d} : slots'[m] = slots[m]
    BY <1>2, <1>3
  <2>4. CASE ~Moving(k)
    <3>1. ~Moving(k)' /\ SlotSame(k) /\ KeySame(k)
      BY <1>1, <2>1, <2>2, <2>3, <2>4 DEF Moving, SlotSame, KeySame
    <3> QED
      BY <1>1, <1>2, <2>1, <2>4, <3>1, NotCarried
  <2>5. CASE Moving(k)
    <3>1. Underway(k) /\ SlotOf[k] \in mig.slots
      BY <2>1, <2>5 DEF KeyOK, Moving
    <3>2. Serves(mig.dst, mig.src)'
      BY <1>1, <1>3, <2>2 DEF Serves, Accepts
    <3>3. \A m \in up' : SlotOf[k] \in slots'[m] <=> m = d
      BY <1>1, <1>2, <2>3, <3>1 DEF Underway
    <3>4. Underway(k)'
      BY <1>1, <2>2, <3>1, <3>2, <3>3 DEF Underway
    <3> QED
      BY <1>1, <2>1, <2>2, <2>5, <3>1, <3>4, SlotMoves
  <2> QED
    BY <2>4, <2>5
<1>4. CASE /\ mig' = Idle \/ mig' = [mig EXCEPT !.pc = "keys"]
           /\ Disturb(moved) /\ UNCHANGED slots
  <2>1. k \in Keys \ disturbed /\ k \notin moved /\ truth'[k] = truth[k]
    <3> HIDE DEF moved
    <3> QED
      BY <1>4, DisturbOthers
  <2>2. KeyOK(k) /\ ~Moving(k)
    BY <2>1 DEF DataInv, Moving
  <2>3. mig' = Idle \/ mig'.slots = mig.slots
    BY <1>2, <1>4 DEF Migration
  <2>4. ~Moving(k)' /\ SlotSame(k) /\ KeySame(k)
    BY <1>1, <1>4, <2>1, <2>3 DEF Moving, SlotSame, KeySame
  <2> QED
    BY <1>1, <1>2, <2>2, <2>4, NotCarried, Zenon
<1> QED
  BY <1>3, <1>4 DEF AddSlots

\* Cluster#add_slots writes the shards of the destination.
LEMMA SaveAddedData ==
    ASSUME DataInv, SaveAdded, NEW k \in Keys \ disturbed'
    PROVE  KeyOK(k)'
<1> DEFINE d == mig.dst
<1>1. /\ mig # Idle /\ mig.pc = "added" /\ mig' = [mig EXCEPT !.pc = "keys"]
      /\ UNCHANGED <<up, known, cmd, slots, keys, db, truth, disturbed>>
  BY DEF SaveAdded, MigAt, history
<1>2. /\ mig \in Migration /\ mig.src \in Nodes /\ d \in Nodes /\ up \subseteq Nodes
      /\ shards \in [Nodes -> SUBSET (Slots \cup {Blank})] /\ KeyOK(k)
      /\ SlotOf[k] \in Slots /\ SlotOf[k] # Blank
  BY <1>1, MigrationFacts DEF DataInv
<1>3. /\ mig'.slots = mig.slots /\ mig'.keys = mig.keys /\ mig'.pc = "keys"
      /\ mig'.src = mig.src /\ mig'.dst = d /\ mig' # Idle
  <2>1. mig' \in Migration
    BY <1>1, <1>2 DEF Migration
  <2> QED
    BY <1>1, <1>2, <2>1, IdleAssumption DEF Migration
<1>4. /\ SlotOf[k] \in shards'[d] <=> SlotOf[k] \in shards[d] \/ SlotOf[k] \in mig.slots
      /\ \A m \in Nodes \ {d} : shards'[m] = shards[m]
  BY <1>2 DEF SaveAdded
<1>5. CASE ~Moving(k)
  <2>1. ~Moving(k)' /\ SlotSame(k) /\ KeySame(k)
    BY <1>1, <1>3, <1>4, <1>5 DEF Moving, SlotSame, KeySame
  <2> QED
    BY <1>1, <1>2, <1>5, <2>1, NotCarried
<1>6. CASE Moving(k)
  <2>1. Underway(k) /\ SlotOf[k] \in mig.slots
    BY <1>2, <1>6 DEF KeyOK, Moving
  <2>2. \A m \in Nodes : SlotOf[k] \in shards'[m] <=> m = d
    BY <1>1, <1>2, <1>4, <2>1 DEF Underway
  <2>3. Serves(mig.dst, mig.src)'
    BY <1>1, <1>3, <2>1 DEF Underway, Serves, Accepts
  <2>4. Underway(k)'
    BY <1>1, <1>3, <2>1, <2>2, <2>3 DEF Underway
  <2> QED
    BY <1>1, <1>2, <1>3, <1>6, <2>1, <2>4, SlotMoves
<1> QED
  BY <1>5, <1>6

\* The other keys, when a key is read, sent or deleted.
LEMMA OthersCopied ==
    ASSUME DataInv, mig # Idle, mig.pc \in {"keys", "copy"}, NEW k \in Keys \ disturbed',
           UNCHANGED <<up, known, cmd, slots, shards, truth, disturbed>>, KeySame(k),
           mig' # Idle, mig'.slots = mig.slots, mig'.src = mig.src, mig'.dst = mig.dst,
           mig'.pc \in {"keys", "copy"}, k \in mig'.keys <=> k \in mig.keys,
           ~Copying(k), ~Copying(k)'
    PROVE  KeyOK(k)'
<1>1. KeyOK(k) /\ up \subseteq Nodes /\ SlotSame(k) /\ (Moving(k)' <=> Moving(k)) /\ CmdSame(k)
  BY MigrationFacts, MigCmdSame, Zenon DEF DataInv, SlotSame, Moving
<1>2. CASE ~Moving(k)
  BY <1>1, <1>2, SettledSame, Zenon
<1>3. CASE Moving(k)
  <2>1. {mig.pc, mig'.pc} \subseteq {"keys", "copy"}
    OBVIOUS
  <2> QED
    BY <1>1, <1>3, <2>1, CarriedSame, Zenon
<1> QED
  BY <1>2, <1>3

\* The key that is copied is carried.
LEMMA CopyFacts ==
    ASSUME DataInv, mig # Idle, mig.pc \in {"keys", "copy"}, NEW k \in Keys \ disturbed,
           k \in mig.keys \/ Copying(k)
    PROVE  /\ KeyOK(k) /\ Moving(k) /\ Underway(k) /\ Carried(k)
           /\ truth[k] \in Data /\ truth[k] # SetOf({}) /\ CommandsOK(k) /\ ~InUse(k)
<1>1. Moving(k)
  BY DEF DataInv, MigrationRuns, Moving, Copying
<1> QED
  BY <1>1, MigrationFacts, Zenon DEF DataInv, KeyOK

\* A key that is carried, after a step that concerns it: the slots stay.
LEMMA CopyStep ==
    ASSUME NEW k \in Keys, Underway(k), mig.pc \in {"keys", "copy"}, mig'.pc \in {"keys", "copy"},
           Moving(k), mig' # Idle, mig'.slots = mig.slots, mig'.src = mig.src,
           mig'.dst = mig.dst, UNCHANGED <<up, known, cmd, slots, shards, truth>>,
           truth[k] # SetOf({}), CommandsOK(k), ~InUse(k), Carried(k)'
    PROVE  KeyOK(k)'
<1>1. Moving(k)' /\ ~InUse(k)'
  BY Zenon DEF Moving, InUse
<1>2. CommandsOK(k)'
  BY DEF CommandsOK, Uses, InUse
<1>3. Serves(mig.dst, mig.src)'
  BY DEF Underway, Serves, Accepts
<1>4. Underway(k)'
  BY <1>3, Zenon DEF Underway
<1> QED
  BY <1>1, <1>2, <1>4, Zenon DEF KeyOK

\* keys.each: a key is read; all of it is still to be sent.
LEMMA ReadKeyData ==
    ASSUME DataInv, ReadKey, NEW k \in Keys \ disturbed'
    PROVE  KeyOK(k)'
<1>1. mig # Idle /\ mig.pc = "keys"
      /\ UNCHANGED <<up, known, cmd, slots, shards, keys, db, truth, disturbed>>
  BY DEF ReadKey, MigAt, nodevars, history
<1>2. PICK x \in mig.keys :
        mig' = [mig EXCEPT !.key = x, !.pieces = Pieces(db[mig.src][x]),
                           !.keys = mig.keys \ {x}, !.pc = "copy"]
  BY Zenon DEF ReadKey
<1>3. mig \in Migration /\ x \in Keys /\ mig.src \in Nodes /\ db[mig.src][x] \in Data
  BY <1>1, MigrationFacts
<1>4. /\ mig'.slots = mig.slots /\ mig'.keys = mig.keys \ {x} /\ mig'.pc = "copy"
      /\ mig'.src = mig.src /\ mig'.dst = mig.dst /\ mig'.key = x
      /\ mig'.pieces = Pieces(db[mig.src][x]) /\ mig' # Idle
  <2>1. Pieces(db[mig.src][x]) \in SUBSET ({"SET", "SADD"} \X Values)
    BY <1>3, PiecesTyped
  <2>2. mig' \in Migration
    BY <1>2, <1>3, <2>1, Zenon DEF Migration
  <2> QED
    BY <1>2, <1>3, <2>2, IdleAssumption, Zenon DEF Migration
<1>5. ~Copying(k) /\ (Copying(k)' <=> k = x)
  BY <1>1, <1>4 DEF Copying
<1>6. CASE k # x
  <2>1. KeySame(k)
    BY <1>1 DEF KeySame
  <2> QED
    BY <1>1, <1>4, <1>5, <1>6, <2>1, OthersCopied, Zenon
<1>7. CASE k = x
  <2>1. /\ KeyOK(k) /\ Moving(k) /\ Underway(k) /\ Carried(k)
        /\ truth[k] \in Data /\ truth[k] # SetOf({}) /\ CommandsOK(k) /\ ~InUse(k)
    BY <1>1, <1>7, CopyFacts, Zenon
  <2>2. db[mig.src][k] = truth[k] /\ AtSource(k) /\ Unsent(k) = Pieces(truth[k])
    BY <1>3, <1>7, <2>1, Zenon DEF Carried, AtSource, Unsent
  <2>3. AtSource(k)' /\ Unsent(k)' = Pieces(truth[k]) /\ k \notin mig'.keys
    BY <1>4, <1>5, <1>7, <2>2, Zenon DEF AtSource, Unsent
  <2>4. Carried(k)'
    <3>1. \A n \in Nodes : db[n][k] =
            IF n = mig.src THEN truth[k]
            ELSE IF n = mig.dst THEN Copied(truth[k], Pieces(truth[k])) ELSE NoData
      BY <2>1, <2>2, Zenon DEF Carried
    <3>2. \A n \in Nodes : db'[n][k] =
            IF n = mig'.src /\ AtSource(k)' THEN truth'[k]
            ELSE IF n = mig'.dst THEN Copied(truth'[k], Unsent(k)') ELSE NoData
      BY <1>1, <1>4, <2>3, <3>1
    <3>3. \A n \in up : k \in keys[n] <=> n = mig.dst /\ db[n][k] # NoData
      BY <2>1, Zenon DEF Carried
    <3>4. truth[k] # NoData
      BY <2>1, <2>2, Zenon DEF Carried
    <3> QED
      BY <1>1, <1>4, <2>3, <3>2, <3>3, <3>4, Zenon DEF Carried
  <2> QED
    BY <1>1, <1>4, <2>1, <2>4, CopyStep, Zenon
<1> QED
  BY <1>6, <1>7

\* dst.cluster_query: the destination gets one more piece.
LEMMA CopyPieceData ==
    ASSUME DataInv, CopyPiece, NEW k \in Keys \ disturbed'
    PROVE  KeyOK(k)'
<1> DEFINE d == mig.dst
           x == mig.key
<1>1. mig # Idle /\ mig.pc = "copy"
      /\ UNCHANGED <<up, known, cmd, slots, shards, truth, disturbed>>
  BY DEF CopyPiece, MigAt, history
<1>2. PICK p \in mig.pieces :
        /\ IF Serves(d, mig.src) /\ Includes(d, x)
           THEN /\ db' = [db EXCEPT ![d][x] = Effect(p[1], p[2], db[d][x])]
                /\ keys' = [keys EXCEPT ![d] = @ \cup {x}]
           ELSE UNCHANGED <<db, keys>>
        /\ mig' = [mig EXCEPT !.pieces = mig.pieces \ {p}]
  BY Zenon DEF CopyPiece
<1>3. /\ mig \in Migration /\ x \in Keys /\ mig.src \in Nodes /\ d \in Nodes
      /\ db \in [Nodes -> [Keys -> Data]] /\ keys \in [Nodes -> SUBSET Keys]
      /\ up \subseteq Nodes
  BY <1>1, MigrationFacts, Zenon DEF DataInv, Typed
<1>4. /\ mig'.slots = mig.slots /\ mig'.keys = mig.keys /\ mig'.pc = "copy"
      /\ mig'.src = mig.src /\ mig'.dst = d /\ mig'.key = x
      /\ mig'.pieces = mig.pieces \ {p} /\ mig' # Idle
  <2>1. mig' = [mig EXCEPT !.pieces = mig.pieces \ {p}] /\ mig.pc = "copy"
    BY <1>1, <1>2
  <2>2. mig' \in Migration
    BY <1>3, <2>1, Zenon DEF Migration
  <2> QED
    BY <1>3, <2>1, <2>2, IdleAssumption, Zenon DEF Migration
<1>5. (Copying(k) <=> k = x) /\ (Copying(k)' <=> k = x)
  BY <1>1, <1>4 DEF Copying
<1>6. CASE k # x
  <2>1. KeySame(k)
    <3> DEFINE e == Effect(p[1], p[2], db[d][x])
    <3>1. \/ UNCHANGED <<db, keys>>
          \/ /\ db' = [db EXCEPT ![d][x] = e]
             /\ keys' = [keys EXCEPT ![d] = @ \cup {x}]
      BY <1>2, Zenon
    <3> HIDE DEF e
    <3>2. \A m \in Nodes : db'[m][k] = db[m][k] /\ (k \in keys'[m] <=> k \in keys[m])
      BY <1>3, <1>6, <3>1
    <3> QED
      BY <1>1, <3>2 DEF KeySame
  <2> QED
    BY <1>1, <1>4, <1>5, <1>6, <2>1, OthersCopied
<1>7. CASE k = x
  <2>1. /\ KeyOK(k) /\ Moving(k) /\ Underway(k) /\ Carried(k)
        /\ truth[k] \in Data /\ truth[k] # SetOf({}) /\ CommandsOK(k) /\ ~InUse(k)
    BY <1>1, <1>5, <1>7, CopyFacts, Zenon
  <2>2. /\ AtSource(k) /\ AtSource(k)' /\ k \notin mig.keys
        /\ Unsent(k) = mig.pieces /\ Unsent(k)' = mig.pieces \ {p}
    BY <1>4, <1>5, <1>7, <2>1, Zenon DEF Carried, AtSource, Unsent
  <2>3. Serves(d, mig.src) /\ Includes(d, k) /\ d \in up /\ mig.src # d
    BY <1>1, <2>1, Zenon DEF Underway, Serves, Accepts, Includes
  <2> DEFINE e == Effect(p[1], p[2], db[d][k])
  <2>4. /\ db' = [db EXCEPT ![d][k] = e] /\ keys' = [keys EXCEPT ![d] = @ \cup {k}]
    BY <1>2, <1>7, <2>3
  <2>5. e = Copied(truth[k], Unsent(k)') /\ e # NoData
    <3>1. db[d][k] = Copied(truth[k], mig.pieces)
      BY <1>3, <2>1, <2>2, <2>3, Zenon DEF Carried
    <3>2. mig.pieces \in SUBSET Pieces(truth[k])
      BY <2>1, <2>2, Zenon DEF Carried
    <3> QED
      BY <1>2, <2>1, <2>2, <3>1, <3>2, CopiedMore
  <2> HIDE DEF e
  <2>6. \A m \in Nodes : /\ db'[m][k] = IF m = d THEN e ELSE db[m][k]
                         /\ keys'[m] = IF m = d THEN keys[m] \cup {k} ELSE keys[m]
    BY <1>3, <2>4, Zenon
  <2>7. Carried(k)'
    <3>1. \A m \in Nodes : db'[m][k] =
            IF m = mig'.src /\ AtSource(k)' THEN truth'[k]
            ELSE IF m = mig'.dst THEN Copied(truth'[k], Unsent(k)') ELSE NoData
      <4>1. \A m \in Nodes : m # d =>
              db[m][k] = IF m = mig.src THEN truth[k] ELSE NoData
        BY <2>1, <2>2, Zenon DEF Carried
      <4>2. \A m \in Nodes : db'[m][k] =
              IF m = mig.src THEN truth[k]
              ELSE IF m = d THEN Copied(truth[k], Unsent(k)') ELSE NoData
        BY <2>3, <2>5, <2>6, <4>1, Zenon
      <4> QED
        BY <1>1, <1>4, <2>2, <4>2
    <3>2. \A m \in up' : k \in keys'[m] <=> m = mig'.dst /\ db'[m][k] # NoData
      BY <1>1, <1>3, <1>4, <2>1, <2>5, <2>6, Zenon DEF Carried
    <3>3. Unsent(k)' \subseteq Pieces(truth'[k]) /\ truth'[k] # NoData
      BY <1>1, <2>1, <2>2, Zenon DEF Carried
    <3> QED
      BY <1>4, <2>2, <3>1, <3>2, <3>3, Zenon DEF Carried
  <2> QED
    BY <1>1, <1>4, <2>1, <2>7, CopyStep, Zenon
<1> QED
  BY <1>6, <1>7

\* db.delete: the source gives up a key that is all at the destination.
LEMMA DeleteMovedData ==
    ASSUME DataInv, DeleteMoved, NEW k \in Keys \ disturbed'
    PROVE  KeyOK(k)'
<1> DEFINE d == mig.dst
           x == mig.key
<1>1. mig # Idle /\ mig.pc = "copy" /\ mig.pieces = {}
      /\ UNCHANGED <<up, known, cmd, slots, shards, keys, truth, disturbed>>
  BY DEF DeleteMoved, MigAt, history
<1>2. /\ mig \in Migration /\ x \in Keys /\ mig.src \in Nodes /\ d \in Nodes
      /\ db \in [Nodes -> [Keys -> Data]] /\ up \subseteq Nodes
  BY <1>1, MigrationFacts DEF DataInv, Typed
<1>3. /\ db' = [db EXCEPT ![mig.src][x] = NoData]
      /\ mig' = [mig EXCEPT !.key = NoData, !.pc = "keys"]
  BY DEF DeleteMoved
<1>4. /\ mig'.slots = mig.slots /\ mig'.keys = mig.keys /\ mig'.pc = "keys"
      /\ mig'.src = mig.src /\ mig'.dst = d /\ mig' # Idle
  <2>1. mig' \in Migration
    BY <1>2, <1>3, Zenon DEF Migration
  <2> QED
    BY <1>2, <1>3, <2>1, IdleAssumption, Zenon DEF Migration
<1>5. (Copying(k) <=> k = x) /\ ~Copying(k)'
  BY <1>1, <1>4 DEF Copying
<1>6. \A m \in Nodes : \A y \in Keys :
        db'[m][y] = IF m = mig.src /\ y = x THEN NoData ELSE db[m][y]
  BY <1>2, <1>3
<1>7. CASE k # x
  <2>1. KeySame(k)
    BY <1>1, <1>6, <1>7, Zenon DEF KeySame
  <2> QED
    BY <1>1, <1>4, <1>5, <1>7, <2>1, OthersCopied, Zenon
<1>8. CASE k = x
  <2>1. /\ KeyOK(k) /\ Moving(k) /\ Underway(k) /\ Carried(k)
        /\ truth[k] \in Data /\ truth[k] # SetOf({}) /\ CommandsOK(k) /\ ~InUse(k)
    BY <1>1, <1>5, <1>8, CopyFacts, Zenon
  <2>2. /\ AtSource(k) /\ ~AtSource(k)' /\ k \notin mig.keys
        /\ Unsent(k) = {} /\ Unsent(k)' = {}
    BY <1>1, <1>4, <1>5, <1>8, <2>1, Zenon DEF Carried, AtSource, Unsent
  <2>3. mig.src # d
    BY <2>1, Zenon DEF Underway
  <2>4. Carried(k)'
    <3>1. \A m \in Nodes : db'[m][k] =
            IF m = mig'.dst THEN Copied(truth'[k], Unsent(k)') ELSE NoData
      <4>1. \A m \in Nodes : db[m][k] =
              IF m = mig.src THEN truth[k]
              ELSE IF m = d THEN Copied(truth[k], {}) ELSE NoData
        BY <2>1, <2>2, Zenon DEF Carried
      <4>2. \A m \in Nodes : db'[m][k] =
              IF m = d THEN Copied(truth[k], {}) ELSE NoData
        BY <1>6, <1>8, <2>3, <4>1
      <4> QED
        BY <1>1, <1>4, <2>2, <4>2, Zenon
    <3>2. \A m \in up' : k \in keys'[m] <=> m = mig'.dst /\ db'[m][k] # NoData
      <4>1. \A m \in up : k \in keys[m] <=> m = d /\ db[m][k] # NoData
        BY <2>1, Zenon DEF Carried
      <4>2. db'[d][k] = db[d][k]
        BY <1>2, <1>6, <2>3
      <4> QED
        BY <1>1, <1>4, <4>1, <4>2
    <3> QED
      BY <1>4, <1>5, <2>2, <3>1, <3>2, Zenon DEF Carried
  <2> QED
    BY <1>1, <1>4, <2>1, <2>4, CopyStep, Zenon
<1> QED
  BY <1>7, <1>8

\* The end of a migration: the destination has the keys it carried.
LEMMA MigratedData ==
    ASSUME DataInv, Migrated, NEW k \in Keys \ disturbed'
    PROVE  KeyOK(k)'
<1>1. mig # Idle /\ mig.pc = "keys" /\ mig.keys = {} /\ mig' = Idle
      /\ UNCHANGED <<up, known, cmd, slots, shards, keys, db, truth, disturbed>>
  BY Zenon DEF Migrated, MigAt, nodevars, history
<1>2. KeyOK(k) /\ up \subseteq Nodes /\ truth[k] \in Data /\ mig.dst \in Nodes
  BY <1>1, MigrationFacts, Zenon DEF DataInv
<1>3. ~Moving(k)' /\ SlotSame(k) /\ KeySame(k)
  BY <1>1 DEF Moving, SlotSame, KeySame
<1>4. CASE ~Moving(k)
  BY <1>1, <1>2, <1>3, <1>4, NotCarried
<1>5. CASE Moving(k)
  <2>1. Underway(k) /\ Carried(k) /\ CommandsOK(k) /\ truth[k] # SetOf({})
    BY <1>2, <1>5 DEF KeyOK
  <2>2. ~AtSource(k) /\ Unsent(k) = {}
    BY <1>1 DEF AtSource, Unsent, Copying
  <2>3. Copied(truth[k], Unsent(k)) = truth[k]
    BY <1>2, <2>1, <2>2, CopiedEnds
  <2>4. /\ \A m \in Nodes : SlotOf[k] \in shards[m] <=> m = mig.dst
        /\ \A m \in up : SlotOf[k] \in slots[m] <=> m = mig.dst
    BY <1>1, <2>1, Zenon DEF Underway
  <2>5. \A m \in Nodes : db[m][k] = IF m = mig.dst THEN truth[k] ELSE NoData
    BY <2>1, <2>2, <2>3, Zenon DEF Carried
  <2>6. \A m \in up : k \in keys[m] <=> db[m][k] # NoData
    BY <1>2, <2>1, <2>5, Zenon DEF Carried
  <2>7. Settled(k)'
    BY <1>1, <1>2, <2>4, <2>5, <2>6, Zenon DEF Settled
  <2>8. CommandsOK(k)'
    BY <1>1, <1>2, <1>3, <2>1, CommandsSame, MigCmdSame, Zenon
  <2> QED
    BY <1>1, <1>3, <2>1, <2>7, <2>8, Zenon DEF KeyOK
<1> QED
  BY <1>4, <1>5

\* A migration that runs, one step later.
LEMMA RunsOn ==
    ASSUME MigrationRuns, mig # Idle, UNCHANGED <<up, task>>, mig'.src = mig.src,
           mig'.pc # "reshard", \A k \in mig'.keys : SlotOf[k] \in mig'.slots,
           mig'.pc = "copy" => SlotOf[mig'.key] \in mig'.slots
    PROVE  MigrationRuns'
  BY Zenon DEF MigrationRuns

\* LocalNode#migrate carries keys of the slots it moves.
LEMMA MigrateStepRuns == ASSUME DataInv, MigrateStep PROVE MigrationRuns'
<1>1. mig # Idle /\ UNCHANGED up
  BY Zenon DEF MigrateStep, Reshard, SaveSlots, AddSlots, SaveAdded, ReadKey, CopyPiece,
               DeleteMoved, Migrated, MigAt
<1>2. /\ mig \in Migration /\ MigrationRuns /\ mig.keys \subseteq Keys
      /\ \A k \in Keys : SlotOf[k] \in Slots /\ SlotOf[k] # Blank
      /\ keys \in [Nodes -> SUBSET Keys] /\ mig.src \in Nodes
  BY <1>1, MigrationFacts DEF DataInv
<1>3. /\ \A k \in mig.keys : SlotOf[k] \in mig.slots
      /\ mig.pc = "copy" => SlotOf[mig.key] \in mig.slots
  BY <1>1, <1>2 DEF MigrationRuns
<1>4. CASE mig' = Idle
  BY <1>4 DEF MigrationRuns
<1>5. ASSUME NEW pc, pc \in {"added", "keys"}, mig' = [mig EXCEPT !.pc = pc], UNCHANGED task
      PROVE  MigrationRuns'
  <2>1. mig'.pc = pc /\ mig'.src = mig.src /\ mig'.keys = mig.keys /\ mig'.slots = mig.slots
    BY <1>2, <1>5 DEF Migration
  <2> QED
    BY <1>1, <1>2, <1>3, <1>5, <2>1, RunsOn
<1>6. CASE Reshard
  <2>1. UNCHANGED task
    BY <1>6 DEF Reshard
  <2>2. PICK S : mig' = [mig EXCEPT !.slots = S,
                     !.keys = {k \in keys[mig.src] : SlotOf[k] \in S}, !.pc = "save"]
    BY <1>6, Zenon DEF Reshard
  <2> DEFINE K == {k \in keys[mig.src] : SlotOf[k] \in S}
  <2>3. \A k \in K : SlotOf[k] \in S
    OBVIOUS
  <2>4. mig' = [mig EXCEPT !.slots = S, !.keys = K, !.pc = "save"]
    BY <2>2
  <2> HIDE DEF K
  <2>5. mig'.pc = "save" /\ mig'.src = mig.src /\ mig'.keys = K /\ mig'.slots = S
    BY <1>2, <2>4, Zenon DEF Migration
  <2> QED
    BY <1>1, <1>2, <2>1, <2>3, <2>5, RunsOn
<1>7. CASE SaveSlots
  <2>1. mig' = [mig EXCEPT !.slots = mig.slots \ {Blank}, !.pc = "add"] /\ UNCHANGED task
    BY <1>7 DEF SaveSlots
  <2>2. mig'.pc = "add" /\ mig'.src = mig.src /\ mig'.keys = mig.keys
        /\ mig'.slots = mig.slots \ {Blank}
    BY <1>2, <2>1, Zenon DEF Migration
  <2>3. \A k \in mig.keys : SlotOf[k] \in mig.slots \ {Blank}
    BY <1>2, <1>3
  <2> QED
    BY <1>1, <1>2, <2>1, <2>2, <2>3, RunsOn
<1>8. CASE AddSlots
  BY <1>4, <1>5, <1>8 DEF AddSlots
<1>9. CASE SaveAdded
  BY <1>5, <1>9 DEF SaveAdded
<1>10. CASE ReadKey
  <2>1. UNCHANGED task
    BY <1>10 DEF ReadKey
  <2>2. PICK k, P : k \in mig.keys /\ mig' = [mig EXCEPT !.key = k, !.pieces = P,
                                           !.keys = mig.keys \ {k}, !.pc = "copy"]
    BY <1>10, Zenon DEF ReadKey
  <2>3. /\ mig'.pc = "copy" /\ mig'.src = mig.src /\ mig'.keys = mig.keys \ {k}
        /\ mig'.slots = mig.slots /\ mig'.key = k
    BY <1>2, <2>2, Zenon DEF Migration
  <2> QED
    BY <1>1, <1>2, <1>3, <2>1, <2>2, <2>3, RunsOn
<1>11. CASE CopyPiece
  <2>1. PICK P : mig' = [mig EXCEPT !.pieces = P]
    BY <1>11, Zenon DEF CopyPiece
  <2>2. /\ mig'.pc = "copy" /\ mig'.src = mig.src /\ mig'.keys = mig.keys
        /\ mig'.slots = mig.slots /\ mig'.key = mig.key /\ mig.pc = "copy" /\ UNCHANGED task
    BY <1>2, <1>11, <2>1 DEF Migration, CopyPiece, MigAt
  <2> QED
    BY <1>1, <1>2, <1>3, <2>2, RunsOn
<1>12. CASE DeleteMoved
  <2>1. mig' = [mig EXCEPT !.key = NoData, !.pc = "keys"] /\ UNCHANGED task
    BY <1>12 DEF DeleteMoved
  <2>2. mig'.pc = "keys" /\ mig'.src = mig.src /\ mig'.keys = mig.keys
        /\ mig'.slots = mig.slots
    BY <1>2, <2>1, Zenon DEF Migration
  <2> QED
    BY <1>1, <1>2, <1>3, <2>1, <2>2, RunsOn
<1>13. CASE Migrated
  BY <1>4, <1>13 DEF Migrated
<1> QED
  BY <1>6, <1>7, <1>8, <1>9, <1>10, <1>11, <1>12, <1>13 DEF MigrateStep

\* One migration at a time: the administrator waits for it.
LEMMA TaskRuns == ASSUME DataInv, Administer \/ TaskStep \/ Collected PROVE MigrationRuns'
<1>1. ASSUME mig = Idle, UNCHANGED mig PROVE MigrationRuns'
  BY <1>1 DEF MigrationRuns
<1>2. ASSUME NEW pc, pc # "wait", TaskAt(pc) PROVE mig = Idle /\ UNCHANGED up
  BY <1>2 DEF TaskAt, DataInv, MigrationRuns
<1>3. CASE Administer
  <2>1. ASSUME NEW a, NEW t, Ready(a), Starts(t) PROVE mig = Idle /\ UNCHANGED mig
    BY <2>1 DEF Ready, Starts
  <2>2. ASSUME NEW a, NEW m, Meet(a, m) PROVE mig = Idle /\ UNCHANGED mig
    BY <2>2 DEF Ready, Meet
  <2>3. mig = Idle /\ UNCHANGED mig
    BY <1>3, <2>1, <2>2, Zenon DEF Administer, Forget, ReshardAll, ReshardOne
  <2> QED
    BY <1>1, <2>3
<1>4. CASE Migrate
  <2>1. mig = Idle /\ UNCHANGED up /\ task \in Task
    BY <1>2, <1>4 DEF Migrate, TaskAt, DataInv, Typed, TypeOK
  <2>2. PICK m, x :
        LET src == IF task.kind = "forget" THEN task.node ELSE m
            dst == IF task.kind = "forget" THEN m ELSE task.node
            t == [task EXCEPT !.num = @ - x, !.left = @ \ {m}]
        IN  \/ UNCHANGED mig
            \/ /\ Serves(src, task.at) /\ task' = [t EXCEPT !.pc = "wait"]
               /\ mig' = [src |-> src, dst |-> dst, num |-> x,
                          slots |-> {}, keys |-> {}, key |-> NoData,
                          pieces |-> {}, pc |-> "reshard"]
    BY <1>4, Zenon DEF Migrate
  <2>3. CASE UNCHANGED mig
    BY <1>1, <2>1, <2>3
  <2>4. CASE mig' # mig
    <3>1. mig'.src \in up /\ mig'.slots = {} /\ mig'.keys = {} /\ mig'.pc = "reshard"
      BY <2>2, <2>4 DEF Serves, Accepts
    <3>2. task'.pc = "wait"
      <4> DEFINE t == [task EXCEPT !.num = @ - x, !.left = @ \ {m}]
      <4>1. task' = [t EXCEPT !.pc = "wait"]
        BY <2>2, <2>4
      <4>2. "pc" \in DOMAIN t
        BY <2>1 DEF Task
      <4> HIDE DEF t
      <4> QED
        BY <4>1, <4>2
    <3> QED
      BY <2>1, <3>1, <3>2 DEF MigrationRuns
  <2> QED
    BY <2>3, <2>4
<1>5. CASE Round \/ Met \/ Gossip \/ GossipSent \/ Collected
  BY <1>1, <1>2, <1>5 DEF Round, Met, Gossip, GossipSent, Collected
<1> QED
  BY <1>3, <1>4, <1>5 DEF TaskStep

\* A stop of the source ends a migration, a stop of the task's node the task.
LEMMA StopRuns == ASSUME DataInv, NEW n \in Nodes, Stop(n) PROVE MigrationRuns'
<1>1. SUFFICES ASSUME mig' # Idle PROVE MigrationRuns'
  BY DEF MigrationRuns
<1>2. mig # Idle /\ mig.src # n /\ up' = up \ {n}
      /\ (mig' = mig \/ (mig.pc = "added" /\ mig' = [mig EXCEPT !.pc = "keys"]))
  BY <1>1 DEF Stop
<1>3. mig \in Migration /\ MigrationRuns
  BY <1>2 DEF DataInv, Typed, TypeOK
<1>4. mig'.src = mig.src /\ mig'.slots = mig.slots /\ mig'.keys = mig.keys
      /\ mig'.key = mig.key /\ (mig'.pc = mig.pc \/ mig'.pc = "keys")
  BY <1>2, <1>3 DEF Migration
<1>5. task' = Idle \/ task' = task
  BY <1>2 DEF Stop
<1> QED
  BY <1>2, <1>3, <1>4, <1>5 DEF MigrationRuns

\* No step breaks what is known of the keys.
LEMMA DataNext == DataInv /\ [Next]_vars => DataInv'
<1> SUFFICES ASSUME DataInv, [Next]_vars PROVE DataInv'
  OBVIOUS
<1>1. Typed' /\ SlotsInv'
  BY TypedNext, SlotsNext DEF DataInv
<1>2. SUFFICES MigrationRuns' /\ \A k \in Keys \ disturbed' : KeyOK(k)'
  BY <1>1 DEF DataInv
<1>3. CASE UNCHANGED vars
  <2>1. MigrationRuns'
    BY <1>3 DEF DataInv, MigrationRuns, vars
  <2>2. ASSUME NEW k \in Keys \ disturbed' PROVE KeyOK(k)'
    <3>1. KeyOK(k) /\ up \subseteq Nodes
      BY <1>3 DEF DataInv, Typed, TypeOK, vars, history
    <3>2. KeySame(k) /\ CmdSame(k) /\ UNCHANGED <<up, slots, shards, mig, known>>
      BY <1>3, Zenon DEF KeySame, CmdSame, Uses, vars, nodevars, history
    <3> QED
      BY <3>1, <3>2, KeyUntouched
  <2> QED
    BY <2>1, <2>2
<1>4. ASSUME NEW c \in Clients, NEW n \in Nodes, NEW op, NEW k0 \in Keys, NEW v,
             Request(c, n, op, k0, v)
      PROVE  DataInv'
  <2>1. MigrationRuns'
    BY <1>4, Zenon DEF Request, DataInv, MigrationRuns
  <2> QED
    BY <1>1, <1>4, <2>1, RequestData DEF DataInv
<1>5. ASSUME NEW c \in Clients, CommandStep(c) PROVE DataInv'
  <2>1. UNCHANGED <<up, mig, task>>
    BY <1>5, Zenon DEF CommandStep, CheckOwner, WhereIs, NotFound, Forward, StoreData,
                       ShardKey, At
  <2>2. MigrationRuns'
    BY <2>1, Zenon DEF DataInv, MigrationRuns
  <2> QED
    BY <1>1, <1>5, <2>2, CommandData DEF DataInv
<1>6. CASE Administer \/ TaskStep \/ Collected
  BY <1>6, TaskRuns, TaskData
<1>7. CASE MigrateStep
  <2>1. \A k \in Keys \ disturbed' : KeyOK(k)'
    BY <1>7, ReshardData, SaveSlotsData, AddSlotsData, SaveAddedData, ReadKeyData,
       CopyPieceData, DeleteMovedData, MigratedData DEF MigrateStep
  <2> QED
    BY <1>7, <2>1, MigrateStepRuns
<1>8. ASSUME NEW n \in Nodes, Stop(n) PROVE DataInv'
  BY <1>1, <1>8, StopRuns, StopData DEF DataInv
<1>9. ASSUME NEW n \in Nodes, Start(n) PROVE DataInv'
  <2>1. MigrationRuns'
    BY <1>9, Zenon DEF Start, DataInv, MigrationRuns
  <2> QED
    BY <1>1, <1>9, <2>1, StartData DEF DataInv
<1>10. CASE DataInv'
  BY <1>10 DEF DataInv
<1> QED
  BY <1>3, <1>4, <1>5, <1>6, <1>7, <1>8, <1>9, <1>10, Zenon DEF Next

\* Init: no node has data, and the root has the slots.
LEMMA DataInit == Init => DataInv
<1> SUFFICES ASSUME Init PROVE DataInv
  OBVIOUS
<1>1. Typed /\ SlotsInv
  BY TypedInit, SlotsInit
<1>2. MigrationRuns
  BY Zenon DEF Init, MigrationRuns
<1>3. ASSUME NEW k \in Keys PROVE KeyOK(k)
  <2>1. truth[k] = NoData /\ truth[k] # SetOf({})
    <3>1. SetOf({}) # NoData
      BY DataAssumption
    <3> QED
      BY <3>1 DEF Init
  <2>2. ~Moving(k) /\ \A c \in Clients : ~Uses(c, k)
    BY DEF Init, Moving, Uses
  <2>3. Settled(k)
    BY <2>1 DEF Init, Settled
  <2> QED
    BY <2>1, <2>2, <2>3 DEF KeyOK, CommandsOK
<1> QED
  BY <1>1, <1>2, <1>3 DEF DataInv

\* A key that no command used while its slot was moving, and that no two used at
\* once, is with its value where its slot is and nowhere else, and the shard
\* knows it, whatever is resharded, forgotten, met, stopped and started
\* (LocalNode#migrate, Command#forward, Command#exec).
THEOREM ClusterKeepsData == Spec => []MigrationKeepsData
<1>1. DataInv => MigrationKeepsData
  <2> SUFFICES ASSUME DataInv, NEW k \in Keys \ disturbed, ~Moving(k), ~InUse(k)
               PROVE  /\ truth[k] # NoData => \E n \in Nodes : SlotOf[k] \in shards[n]
                      /\ \A n \in Nodes :
                           /\ db[n][k] = IF SlotOf[k] \in shards[n] THEN truth[k] ELSE NoData
                           /\ n \in up => (k \in keys[n] <=> db[n][k] # NoData)
    BY Zenon DEF MigrationKeepsData
  <2>1. Settled(k)
    BY DEF DataInv, KeyOK
  <2>2. \A n : ~Adding(n, k)
    BY DEF Adding, Uses, InUse
  <2> QED
    BY <2>1, <2>2 DEF Settled
<1> QED
  BY <1>1, DataInit, DataNext, PTL DEF Spec
=============================================================================
