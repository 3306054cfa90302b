-------------------------------- MODULE Dict --------------------------------
(***************************************************************************)
(* The concurrent dictionary of libxfiredbengine/storage/dict.c: client    *)
(* threads, each running one operation at a time, and the rehash worker    *)
(* that every dictionary owns.  A step is one critical section of          *)
(* struct dict::lock, or, inside dict_rehash, one loop iteration (the lock *)
(* stays with the thread that runs it), or the code after the unlock that  *)
(* reads or writes the value of an entry without the lock.                 *)
(*                                                                         *)
(* Callers' discipline, as in the engine, its tests and the server: a key  *)
(* is used by one thread (KeysOf), dict_clear and dict_free run once no    *)
(* operation is in progress, and dict_free is called on an empty           *)
(* dictionary.  Entries are therefore identified with their keys.          *)
(***************************************************************************)
EXTENDS DictMap

CONSTANTS Threads,       \* client threads
          Worker,        \* dict_rehash_worker
          NoThread,      \* the lock is free
          KeysOf,        \* the keys of every thread
          ValuesOf,      \* the data every thread stores
          Values, NULL,  \* stored data, and the zeroed value of a new entry
          WorkerSteps,   \* num in dict_rehash_ms (100 in dict.c)
          EmptyVisits,   \* empty buckets allowed per step (10 in dict.c)
          MaxIterators   \* bound on the safe iterators open at a time

ASSUME ThreadsAssumption ==
    /\ Worker \notin Threads /\ NoThread \notin Threads \cup {Worker}
    /\ KeysOf \in [Threads -> SUBSET Keys]
    /\ \A t, u \in Threads : t # u => KeysOf[t] \cap KeysOf[u] = {}
ASSUME ValuesAssumption ==
    /\ ValuesOf \in [Threads -> SUBSET Values]
    /\ NULL \notin Values
ASSUME StepsAssumption ==
    /\ WorkerSteps \in Nat \ {0} /\ EmptyVisits \in Nat \ {0}
    /\ MaxIterators \in Nat

VARIABLES dict,       \* the tables, see DictMap
          value,      \* dict_entry::value of the entry of every key
          iterators,  \* dict::iterators
          status,     \* dict::status, "none" or "free"
          lock,       \* holder of dict::lock
          pc,         \* what every thread does next
          call,       \* the operation every client thread runs, or NULL
          miss,       \* the lookup of raw_dict_update found nothing
          ret,        \* the result of the last operation of every thread
          num,        \* locals of dict_rehash in the thread holding the lock
          visits,
          freeing     \* progress of dict_free

vars == <<dict, value, iterators, status, lock, pc, call, miss, ret,
          num, visits, freeing>>

\* Arguments of dict_add and dict_update, dict_delete and dict_lookup, and
\* dict_get_size.
Calls(t) == [op : {"add", "update"}, key : KeysOf[t], val : ValuesOf[t]]
            \cup [op : {"delete", "lookup"}, key : KeysOf[t], val : {NULL}]
            \cup [op : {"size"}, key : {NULL}, val : {NULL}]

OK == "ok"
ERR == "err"
Result(rc, data) == [rc |-> rc, data |-> data]

LockFree == lock = NoThread
Goto(p, l) == pc' = [pc EXCEPT ![p] = l]
AllIdle == \A t \in Threads : pc[t] = "idle"

\* xfiredb_cond_signal(&d->rehash_condi): wakes the worker if it is waiting
\* and is lost otherwise.
Signalled(pcs) ==
    IF pcs[Worker] = "waiting" THEN [pcs EXCEPT ![Worker] = "woken"] ELSE pcs
-----------------------------------------------------------------------------
(* dict_alloc, dict_init                                                   *)
Init ==
    /\ dict = EmptyDict
    /\ value = [k \in Keys |-> NULL]
    /\ iterators = 0
    /\ status = "none"
    /\ lock = NoThread
    /\ pc = [p \in Threads \cup {Worker} |->
                IF p = Worker THEN "loop" ELSE "idle"]
    /\ call = [t \in Threads |-> NULL]
    /\ miss = [t \in Threads |-> FALSE]
    /\ ret = [t \in Threads |-> NULL]
    /\ num = 0
    /\ visits = 0
    /\ freeing = "no"
-----------------------------------------------------------------------------
(* dict_rehash(d, n), entered with the lock free.                          *)

RehashEnter(p, n) ==
    /\ lock' = p
    /\ num' = n
    /\ visits' = n * EmptyVisits
    /\ Goto(p, "rehash")

\* Mutant: dict_rehash_ms without its time limit.
RehashReturnUntimed(p, more) ==
    IF p = Worker /\ more THEN RehashEnter(p, WorkerSteps)
    ELSE /\ lock' = NoThread
         /\ num' = 0
         /\ visits' = 0
         /\ Goto(p, IF p = Worker THEN "loop" ELSE "main")

\* The return of dict_rehash.  A client goes on with its operation.  In the
\* worker, dict_rehash_ms calls again while more work is reported, until its
\* time is up; the outer lock of dict_rehash_worker is kept in between.
RehashReturn(p, more) ==
    \/ /\ lock' = NoThread
       /\ num' = 0
       /\ visits' = 0
       /\ Goto(p, IF p = Worker THEN "loop" ELSE "main")
    \/ /\ p = Worker /\ more
       /\ RehashEnter(p, WorkerSteps)

Rehashing(p) == lock = p /\ pc[p] = "rehash"

\* while(num-- && d->map[PRIMARY_MAP].length > 0L)
RehashLoops == num > 0 /\ dict.primary.length > 0

RehashSkip(p) ==
    /\ Rehashing(p) /\ RehashLoops
    /\ dict.primary.array[dict.rehashidx] = {}
    /\ dict' = SkipBucket(dict)
    /\ IF visits = 1 THEN RehashReturn(p, TRUE)
       ELSE visits' = visits - 1 /\ UNCHANGED <<lock, pc, num>>
    /\ UNCHANGED <<value, iterators, status, call, miss, ret, freeing>>

RehashMove(p) ==
    /\ Rehashing(p) /\ RehashLoops
    /\ dict.primary.array[dict.rehashidx] # {}
    /\ dict' = RehashBucket(dict)
    /\ IF ~dict'.rehashing THEN RehashReturn(p, FALSE)
       ELSE num' = num - 1 /\ UNCHANGED <<lock, pc, visits>>
    /\ UNCHANGED <<value, iterators, status, call, miss, ret, freeing>>

RehashExit(p) ==
    /\ Rehashing(p) /\ ~RehashLoops
    /\ RehashReturn(p, TRUE)
    /\ UNCHANGED <<dict, value, iterators, status, call, miss, ret,
                   freeing>>
-----------------------------------------------------------------------------
(* dict_rehash_worker                                                      *)

\* Mutant: the worker waits until there are no safe iterators.
WorkerBodyPolite ==
    \/ /\ status = "free"
       /\ lock' = Worker
       /\ Goto(Worker, "exited")
       /\ UNCHANGED <<num, visits>>
    \/ /\ status # "free" /\ dict.rehashing /\ iterators = 0
       /\ RehashEnter(Worker, WorkerSteps)
    \/ /\ status # "free" /\ (dict.rehashing => iterators > 0)
       /\ Goto(Worker, "loop")
       /\ UNCHANGED <<lock, num, visits>>

\* The loop body, entered with the lock just taken.  On DICT_STATUS_FREE the
\* thread exits without releasing the lock.
WorkerBody ==
    \/ /\ status = "free"
       /\ lock' = Worker
       /\ Goto(Worker, "exited")
       /\ UNCHANGED <<num, visits>>
    \/ /\ status # "free" /\ dict.rehashing
       /\ RehashEnter(Worker, WorkerSteps)
    \/ /\ status # "free" /\ ~dict.rehashing
       /\ Goto(Worker, "loop")
       /\ UNCHANGED <<lock, num, visits>>

\* Waits on rehash_condi, or goes on without waiting.
WorkerLoop ==
    /\ pc[Worker] = "loop" /\ LockFree
    /\ IF ~dict.rehashing /\ status # "free"
       THEN Goto(Worker, "waiting") /\ UNCHANGED <<lock, num, visits>>
       ELSE WorkerBody
    /\ UNCHANGED <<dict, value, iterators, status, call, miss, ret,
                   freeing>>

\* xfiredb_cond_wait returns: after a signal, or spuriously as POSIX allows.
WorkerWake ==
    /\ pc[Worker] \in {"waiting", "woken"} /\ LockFree
    /\ WorkerBody
    /\ UNCHANGED <<dict, value, iterators, status, call, miss, ret,
                   freeing>>
-----------------------------------------------------------------------------
(* The client operations.                                                  *)

Call(t) ==
    /\ pc[t] = "idle" /\ freeing = "no"
    /\ \E c \in Calls(t) :
        /\ call' = [call EXCEPT ![t] = c]
        /\ Goto(t, IF c.op = "size" THEN "main" ELSE "check")
    /\ ret' = [ret EXCEPT ![t] = NULL]
    /\ UNCHANGED <<dict, value, iterators, status, lock, miss, num,
                   visits, freeing>>

\* if(dict_is_rehashing(d))
CheckRehashing(t) ==
    /\ pc[t] = "check" /\ LockFree
    /\ Goto(t, IF dict.rehashing THEN "iters" ELSE "main")
    /\ UNCHANGED <<dict, value, iterators, status, lock, call, miss, ret,
                   num, visits, freeing>>

\* dict_rehash_step: if(!dict_has_iterators(d))
CheckIterators(t) ==
    /\ pc[t] = "iters" /\ LockFree
    /\ Goto(t, IF iterators = 0 THEN "step" ELSE "main")
    /\ UNCHANGED <<dict, value, iterators, status, lock, call, miss, ret,
                   num, visits, freeing>>

\* dict_rehash_step: dict_rehash(d, 1)
RehashStep(t) ==
    /\ pc[t] = "step" /\ LockFree
    /\ IF dict.rehashing THEN RehashEnter(t, 1)
       ELSE Goto(t, "main") /\ UNCHANGED <<lock, num, visits>>
    /\ UNCHANGED <<dict, value, iterators, status, call, miss, ret,
                   freeing>>

Main(t, op) == pc[t] = "main" /\ LockFree /\ call[t].op = op

\* Mutant: the worker is not signalled when an expansion starts a rehash.
InsertEntryUnsignalled(t) ==
    LET k  == call[t].key
        rc == IF CanAdd(dict, k) THEN OK ELSE ERR
    IN  /\ dict' = AddKey(dict, k)
        /\ ret' = [ret EXCEPT ![t] = Result(rc, NULL)]
        /\ Goto(t, "tail")

\* The critical section of __dict_add, with dict_calc_index.
InsertEntry(t) ==
    LET k  == call[t].key
        rc == IF CanAdd(dict, k) THEN OK ELSE ERR
    IN  /\ dict' = AddKey(dict, k)
        /\ ret' = [ret EXCEPT ![t] = Result(rc, NULL)]
        /\ pc' = LET next == [pc EXCEPT ![t] = "tail"]
                 IN  IF dict'.rehashing /\ ~dict.rehashing
                     THEN Signalled(next) ELSE next

DictAdd(t) ==
    /\ Main(t, "add")
    /\ InsertEntry(t)
    /\ UNCHANGED <<value, iterators, status, lock, call, miss, num,
                   visits, freeing>>

DictDelete(t) ==
    /\ Main(t, "delete")
    /\ dict' = DeleteKey(dict, call[t].key)
    /\ ret' = [ret EXCEPT ![t] =
                  Result(IF Present(dict, call[t].key) THEN OK ELSE ERR, NULL)]
    /\ Goto(t, "tail")
    /\ UNCHANGED <<value, iterators, status, lock, call, miss, num,
                   visits, freeing>>

DictLookup(t) ==
    /\ Main(t, "lookup")
    /\ ret' = [ret EXCEPT ![t] =
                  Result(IF Present(dict, call[t].key) THEN OK ELSE ERR, NULL)]
    /\ Goto(t, "tail")
    /\ UNCHANGED <<dict, value, iterators, status, lock, call, miss, num,
                   visits, freeing>>

\* raw_dict_update: a lookup, and a whole dict_add if it found nothing.
DictUpdate(t) ==
    /\ Main(t, "update")
    /\ IF miss[t] THEN InsertEntry(t) /\ UNCHANGED miss
       ELSE IF Present(dict, call[t].key)
       THEN /\ ret' = [ret EXCEPT ![t] = Result(OK, NULL)]
            /\ Goto(t, "tail")
            /\ UNCHANGED <<dict, miss>>
       ELSE /\ miss' = [miss EXCEPT ![t] = TRUE]
            /\ Goto(t, "check")
            /\ UNCHANGED <<dict, ret>>
    /\ UNCHANGED <<value, iterators, status, lock, call, num, visits,
                   freeing>>

DictGetSize(t) ==
    /\ Main(t, "size")
    /\ ret' = [ret EXCEPT ![t] = Result(OK, DictSize(dict))]
    /\ Goto(t, "tail")
    /\ UNCHANGED <<dict, value, iterators, status, lock, call, miss, num,
                   visits, freeing>>

\* Mutant: raw_dict_update leaves the value of a found entry alone.
TailNoUpdate(t) ==
    LET c == call[t]
        ok == ret[t].rc = OK
    IN  /\ pc[t] = "tail"
        /\ value' = IF ~ok \/ (c.op # "add" /\ ~miss[t]) THEN value
                    ELSE [value EXCEPT ![c.key] = c.val]
        /\ ret' = IF ok /\ c.op \in {"lookup", "delete"}
                  THEN [ret EXCEPT ![t].data = value[c.key]] ELSE ret
        /\ call' = [call EXCEPT ![t] = NULL]
        /\ miss' = [miss EXCEPT ![t] = FALSE]
        /\ Goto(t, "idle")
        /\ UNCHANGED <<dict, iterators, status, lock, num, visits, freeing>>

\* The code after the unlock.  dict_set_val of an added or updated entry; the
\* read of e->value of a found or unlinked one, which is then freed.
Tail(t) ==
    LET c == call[t]
        ok == ret[t].rc = OK
    IN  /\ pc[t] = "tail"
        /\ value' = IF ~ok \/ c.op \in {"lookup", "size"} THEN value
                    ELSE [value EXCEPT ![c.key] = c.val]
        /\ ret' = IF ok /\ c.op \in {"lookup", "delete"}
                  THEN [ret EXCEPT ![t].data = value[c.key]] ELSE ret
        /\ call' = [call EXCEPT ![t] = NULL]
        /\ miss' = [miss EXCEPT ![t] = FALSE]
        /\ Goto(t, "idle")
        /\ UNCHANGED <<dict, iterators, status, lock, num, visits,
                       freeing>>
-----------------------------------------------------------------------------
(* Safe iterators, dict_clear and dict_free.                               *)

OpenIterator ==
    /\ freeing = "no" /\ LockFree /\ iterators < MaxIterators
    /\ iterators' = iterators + 1
    /\ UNCHANGED <<dict, value, status, lock, pc, call, miss, ret, num, visits,
                   freeing>>

CloseIterator ==
    /\ freeing = "no" /\ LockFree /\ iterators > 0
    /\ iterators' = iterators - 1
    /\ UNCHANGED <<dict, value, status, lock, pc, call, miss, ret, num, visits,
                   freeing>>

DictClear ==
    /\ freeing = "no" /\ AllIdle /\ LockFree
    /\ dict' = Cleared
    /\ value' = [k \in Keys |-> NULL]
    /\ UNCHANGED <<iterators, status, lock, pc, call, miss, ret, num, visits,
                   freeing>>

\* dict_free releases both arrays before it takes the lock.
FreeArrays ==
    /\ freeing = "no" /\ AllIdle /\ DictSize(dict) = 0
    /\ freeing' = "arrays"
    /\ UNCHANGED <<dict, value, iterators, status, lock, pc, call, miss, ret,
                   num, visits>>

\* Mutant: the status is set without waking the worker.
FreeStatusUnsignalled ==
    /\ freeing = "arrays" /\ LockFree
    /\ status' = "free"
    /\ freeing' = "join"
    /\ UNCHANGED <<dict, value, iterators, lock, pc, call, miss, ret, num,
                   visits>>

FreeStatus ==
    /\ freeing = "arrays" /\ LockFree
    /\ status' = "free"
    /\ pc' = Signalled(pc)
    /\ freeing' = "join"
    /\ UNCHANGED <<dict, value, iterators, lock, call, miss, ret, num, visits>>

FreeJoin ==
    /\ freeing = "join" /\ pc[Worker] = "exited"
    /\ freeing' = "done"
    /\ UNCHANGED <<dict, value, iterators, status, lock, pc, call, miss, ret,
                   num, visits>>

\* The end of a run: nothing is left to do once the dictionary is gone.
Freed == freeing = "done" /\ UNCHANGED vars
-----------------------------------------------------------------------------
RehashIteration(p) == RehashSkip(p) \/ RehashMove(p) \/ RehashExit(p)

\* The steps of an operation that wait for the lock.
Operation(t) ==
    \/ CheckRehashing(t) \/ CheckIterators(t) \/ RehashStep(t)
    \/ DictAdd(t) \/ DictDelete(t) \/ DictLookup(t) \/ DictUpdate(t)
    \/ DictGetSize(t)

Next ==
    \/ \E t \in Threads : Call(t) \/ Operation(t) \/ Tail(t)
    \/ \E p \in Threads \cup {Worker} : RehashIteration(p)
    \/ WorkerLoop \/ WorkerWake
    \/ OpenIterator \/ CloseIterator \/ DictClear
    \/ FreeArrays \/ FreeStatus \/ FreeJoin \/ Freed

\* A thread that runs gets on with its code; a thread that waits for the lock
\* gets it if the lock keeps becoming free; a signal wakes the worker.
\* Nobody has to call anything, and spurious wakeups need never happen.
Fairness ==
    /\ \A t \in Threads :
        SF_vars(Operation(t)) /\ WF_vars(Tail(t) \/ RehashIteration(t))
    /\ SF_vars(WorkerLoop)
    /\ SF_vars(pc[Worker] = "woken" /\ WorkerWake)
    /\ WF_vars(RehashIteration(Worker))
    /\ SF_vars(FreeStatus)
    /\ WF_vars(FreeJoin)

Spec == Init /\ [][Next]_vars
FairSpec == Spec /\ Fairness
-----------------------------------------------------------------------------
(* Safety.                                                                 *)

ThreadPCs == {"idle", "check", "iters", "step", "rehash", "main", "tail"}
WorkerPCs == {"loop", "waiting", "woken", "rehash", "exited"}

\* Type invariant: every variable of dict.c holds a value of its C type, every
\* table size is zero or a power of two (hash & sizemask is a modulo), and
\* a thread outside an operation has no call.
TypeOK ==
    /\ DictType(dict)
    /\ value \in [Keys -> Values \cup {NULL}]
    /\ iterators \in 0..MaxIterators
    /\ status \in {"none", "free"}
    /\ lock \in Threads \cup {Worker, NoThread}
    /\ DOMAIN pc = Threads \cup {Worker}
    /\ \A t \in Threads : pc[t] \in ThreadPCs
    /\ pc[Worker] \in WorkerPCs
    /\ DOMAIN call = Threads
    /\ \A t \in Threads :
        IF pc[t] = "idle" THEN call[t] = NULL ELSE call[t] \in Calls(t)
    /\ miss \in [Threads -> BOOLEAN]
    /\ ret \in [Threads -> {NULL} \cup
                  [rc : {OK, ERR}, data : Values \cup {NULL} \cup Int]]
    /\ num \in Nat /\ visits \in Nat
    /\ freeing \in {"no", "arrays", "join", "done"}

\* No operation, clear or interrupted rehash ever strands an entry: whatever
\* is linked into a bucket of either table is found by the search of
\* __dict_lookup, and no key is linked into both tables.
EntriesReachable ==
    /\ \A k \in Entries(dict.primary) \cup Entries(dict.rehash) :
            Present(dict, k)
    /\ Disjoint(dict)

\* dict_map::length, which ends the rehash and drives the expansion, is the
\* number of entries of the table whenever the lock may change hands.
LengthsExact == Counted(dict.primary) /\ Counted(dict.rehash)

\* The scan of dict_rehash never leaves the array, with which the assertion
\* of dict.c:404 holds too: while entries are left in the primary table one
\* of the buckets from rehashidx on is not empty.
RehashInBounds ==
    dict.rehashing /\ dict.primary.length > 0 =>
        /\ 0 <= dict.rehashidx /\ dict.rehashidx < dict.primary.size
        /\ \E i \in dict.rehashidx..(dict.primary.size - 1) :
                dict.primary.array[i] # {}

\* dict_free releases the arrays while the worker may be inside dict_rehash:
\* the worker no longer touches a bucket.
FreedUntouched == freeing # "no" => ~(Rehashing(Worker) /\ RehashLoops)

\* The linearization: which abstract mapping the state of dict.c stands for.
\* Between the unlock of __dict_add and dict_set_val the entry is linked and
\* its value is still on its way.
Pending(t, ops) ==
    pc[t] = "tail" /\ ret[t].rc = OK /\ call[t].op \in ops

Owner(k) == CHOOSE t \in Threads : k \in KeysOf[t]

AbsStore == [k \in Keys |->
    IF ~Present(dict, k) THEN NULL
    ELSE IF \E t \in Threads : Pending(t, {"add", "update"}) /\ call[t].key = k
         THEN call[Owner(k)].val ELSE value[k]]

AbsStage == [t \in Threads |->
    CASE pc[t] = "idle" -> "idle" [] pc[t] = "tail" -> "done"
      [] OTHER -> "called"]

AbsRet == [t \in Threads |->
    IF Pending(t, {"lookup", "delete"})
    THEN [ret[t] EXCEPT !.data = value[call[t].key]] ELSE ret[t]]

Abs == INSTANCE DictSpec WITH CallsOf <- Calls, store <- AbsStore,
                              stage <- AbsStage, ret <- AbsRet

\* A dictionary shared by threads that use keys of their own behaves as an
\* atomic mapping, whatever the worker, expansions, iterators and the other
\* threads' rehash steps do in between: dict.c implements DictSpec.
Linearizable == Abs!Spec
-----------------------------------------------------------------------------
(* Liveness, under Fairness.                                               *)

\* Every operation returns: the lock is released on every path of dict_rehash
\* and no rehash step keeps it forever.
CallsReturn == \A t \in Threads : pc[t] # "idle" ~> pc[t] = "idle"

\* dict_free gets the worker to exit, in whatever part of its loop the signal
\* meets it.
FreeTerminates == freeing = "arrays" ~> freeing = "done"

\* A started rehash is carried through by the worker alone, if no client helps
\* it, unless deletes empty the primary table first.
RehashProgresses ==
    dict.rehashing ~> (~dict.rehashing \/ dict.primary.length = 0)

\* What the comment of dict_rehash says without that exception: the dictionary
\* worker will ensure that the rehashing happens.
RehashCompletes == dict.rehashing ~> ~dict.rehashing
=============================================================================
