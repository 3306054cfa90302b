------------------------------ MODULE DictSpec ------------------------------
(***************************************************************************)
(* What libxfiredbengine/include/xfiredb/dict.h promises to the threads    *)
(* that share a dictionary: each operation takes effect in one indivisible *)
(* step between its call and its return, on a plain mapping of keys to     *)
(* values.  Tables, rehashing, the worker and the lock do not exist here.  *)
(***************************************************************************)
EXTENDS Naturals, FiniteSets

CONSTANTS Keys, Threads, Values, NULL, CallsOf(_)

VARIABLES store,   \* the value of every key; NULL if the key is absent
          stage,   \* of every thread: "idle", "called" or "done"
          call,    \* the operation in progress, or NULL
          ret      \* the result of the last operation, or NULL

vars == <<store, stage, call, ret>>

Domain(s) == {k \in Keys : s[k] # NULL}

\* The mapping after operation c, and what c returns.
Effect(c, s) ==
    IF \/ c.op = "add" /\ s[c.key] = NULL
       \/ c.op \in {"update", "delete"}
    THEN [s EXCEPT ![c.key] = c.val] ELSE s

Reply(c, s) ==
    LET Ok(x) == [rc |-> "ok", data |-> x]
        Err   == [rc |-> "err", data |-> NULL]
    IN  CASE c.op = "add"    -> IF s[c.key] = NULL THEN Ok(NULL) ELSE Err
          [] c.op = "update" -> Ok(NULL)
          [] c.op = "size"   -> Ok(Cardinality(Domain(s)))
          [] OTHER           -> IF s[c.key] = NULL THEN Err ELSE Ok(s[c.key])
-----------------------------------------------------------------------------
Init ==
    /\ store = [k \in Keys |-> NULL]
    /\ stage = [t \in Threads |-> "idle"]
    /\ call = [t \in Threads |-> NULL]
    /\ ret = [t \in Threads |-> NULL]

Invoke(t) ==
    /\ stage[t] = "idle"
    /\ \E c \in CallsOf(t) : call' = [call EXCEPT ![t] = c]
    /\ stage' = [stage EXCEPT ![t] = "called"]
    /\ ret' = [ret EXCEPT ![t] = NULL]
    /\ UNCHANGED store

Perform(t) ==
    /\ stage[t] = "called"
    /\ store' = Effect(call[t], store)
    /\ ret' = [ret EXCEPT ![t] = Reply(call[t], store)]
    /\ stage' = [stage EXCEPT ![t] = "done"]
    /\ UNCHANGED call

Return(t) ==
    /\ stage[t] = "done"
    /\ stage' = [stage EXCEPT ![t] = "idle"]
    /\ call' = [call EXCEPT ![t] = NULL]
    /\ UNCHANGED <<store, ret>>

Clear ==
    /\ \A t \in Threads : stage[t] = "idle"
    /\ store' = [k \in Keys |-> NULL]
    /\ UNCHANGED <<stage, call, ret>>

Next == (\E t \in Threads : Invoke(t) \/ Perform(t) \/ Return(t)) \/ Clear

Spec == Init /\ [][Next]_vars
=============================================================================
