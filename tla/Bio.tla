-------------------------------- MODULE Bio --------------------------------
(***************************************************************************)
(* Background I/O, libxfiredbengine/storage/bio.c: changes of the database *)
(* are queued by the thread that makes them and written to disk, one after *)
(* the other, by bio_worker, the handler of the background job             *)
(* "bio-worker".  The job's thread, its signals and its end are those of   *)
(* Bg; the handler is opened up into its steps.                            *)
(*                                                                         *)
(* One thread at a time uses the engine (the holder of Ruby's interpreter  *)
(* lock, or the main thread of the engine's tests): the client below.  The *)
(* process may be killed at any moment.                                    *)
(***************************************************************************)
EXTENDS Bg, Sequences

CONSTANTS BIO_WORKER_NAME,
          Ops,           \* the disk operations a client queues
          NoOp,          \* bio_worker holds no operation
          PersistLevel,  \* config::persist_level
          MaxOps         \* bound on the operations of a behaviour

ASSUME BioAssumption ==
    /\ BIO_WORKER_NAME \in Jobs
    /\ NoOp \notin Ops /\ PersistLevel \in Nat /\ MaxOps \in Nat

VARIABLES queue,    \* bio_q, oldest first
          current,  \* the operation bio_worker has popped
          disk,     \* the operations the disk has executed
          changes,  \* what the disk held at the start and was queued since
          wake_up_counter,
          cpc       \* where the client is

biovars == <<queue, current, disk, changes, wake_up_counter>>
vars == <<bgvars, biovars, cpc>>

Init ==
    /\ BgInit
    /\ queue = <<>> /\ current = NoOp
    /\ disk = <<>> /\ changes = <<>>
    /\ wake_up_counter = 0
    /\ cpc = "init"
-----------------------------------------------------------------------------
(* The client.                                                             *)

Client(from, to) == cpc = from /\ cpc' = to

bio_init ==
    /\ Client("init", "idle")
    /\ bg_process_create(BIO_WORKER_NAME)
    /\ UNCHANGED biovars

\* bio_try_wakeup_worker signals on every (persist_level + 1)-th call.
WakeupDue == (wake_up_counter + 1) % (PersistLevel + 1) = 0

\* Mutant: the counter is not reset when the worker is woken.
QueueAddNoReset(op) ==
    /\ Client("idle", IF WakeupDue THEN "signal" ELSE "idle")
    /\ PersistLevel < 3 /\ Len(changes) < MaxOps
    /\ queue' = Append(queue, op)
    /\ changes' = Append(changes, op)
    /\ wake_up_counter' = wake_up_counter + 1
    /\ UNCHANGED <<bgvars, current, disk>>

\* Mutant: the operation is queued at the wrong end.
QueueAddFront(op) ==
    /\ Client("idle", IF WakeupDue THEN "signal" ELSE "idle")
    /\ PersistLevel < 3 /\ Len(changes) < MaxOps
    /\ queue' = <<op>> \o queue
    /\ changes' = Append(changes, op)
    /\ wake_up_counter' = IF WakeupDue THEN 0 ELSE wake_up_counter + 1
    /\ UNCHANGED <<bgvars, current, disk>>

\* From level 3 on the change is dropped and nothing happens.
bio_queue_add(op) ==
    /\ Client("idle", IF WakeupDue THEN "signal" ELSE "idle")
    /\ PersistLevel < 3 /\ Len(changes) < MaxOps
    /\ queue' = Append(queue, op)
    /\ changes' = Append(changes, op)
    /\ wake_up_counter' = IF WakeupDue THEN 0 ELSE wake_up_counter + 1
    /\ UNCHANGED <<bgvars, current, disk>>

WakeUp ==
    /\ Client("signal", "idle")
    /\ bg_process_signal(BIO_WORKER_NAME)
    /\ UNCHANGED biovars

\* bio_sync: the signal, then polling until the queue is empty.
SyncSignal(from, to) ==
    /\ Client(from, to)
    /\ bg_process_signal(BIO_WORKER_NAME)
    /\ UNCHANGED biovars

SyncReturn(from, to) ==
    /\ Client(from, to)
    /\ queue = <<>>
    /\ UNCHANGED <<bgvars, biovars>>

xfiredb_se_save == SyncSignal("idle", "save")
SaveReturn == SyncReturn("save", "idle")

\* xfiredb_se_exit: bio_sync, bio_exit (which stops the job and closes the
\* disk) and bg_processes_exit.
xfiredb_se_exit == SyncSignal("idle", "exit")
ExitSynced == SyncReturn("exit", "stop")

bio_exit ==
    /\ Client("stop", "join")
    /\ bg_process_stop(BIO_WORKER_NAME)
    /\ UNCHANGED biovars

\* Mutant: bio_exit closes the disk without waiting for the worker.
BioNotJoined == Client("join", "bgexit") /\ UNCHANGED <<bgvars, biovars>>

BioJoined == Client("join", "bgexit") /\ JoinJob /\ UNCHANGED biovars

bg_processes_exit ==
    \/ cpc = "bgexit" /\ ExitBegin /\ UNCHANGED <<biovars, cpc>>
    \/ Client("bgexit", "closed") /\ ExitEnd /\ UNCHANGED biovars
-----------------------------------------------------------------------------
(* bio_worker, run by the job's thread.                                    *)

InHandler == jpc[BIO_WORKER_NAME] = "handle"

PopOperation ==
    /\ InHandler /\ current = NoOp /\ queue # <<>>
    /\ current' = Head(queue)
    /\ queue' = Tail(queue)
    /\ UNCHANGED <<bgvars, disk, changes, wake_up_counter, cpc>>

\* Mutants: the handler polls an empty queue; the handler may leave operations
\* in the queue.
PopNullPolls ==
    /\ InHandler /\ current = NoOp /\ queue = <<>>
    /\ UNCHANGED vars
PopNullEarly ==
    /\ current = NoOp
    /\ JobHandle(BIO_WORKER_NAME)
    /\ UNCHANGED <<biovars, cpc>>

\* bio_queue_pop returns NULL, and with it the handler returns.
PopNull ==
    /\ current = NoOp /\ queue = <<>>
    /\ JobHandle(BIO_WORKER_NAME)
    /\ UNCHANGED <<biovars, cpc>>

\* One SQL statement, atomic on disk.
Execute ==
    /\ InHandler /\ current # NoOp
    /\ disk' = Append(disk, current)
    /\ current' = NoOp
    /\ UNCHANGED <<bgvars, queue, changes, wake_up_counter, cpc>>

\* Mutant: the worker's thread ends after one run of the handler.
CheckOneShot ==
    /\ jpc[BIO_WORKER_NAME] = "check"
    /\ JobGoto(BIO_WORKER_NAME, "exited")
    /\ UNCHANGED <<job_db, done, ran, joining, exiting, biovars, cpc>>

Sleep == JobSleep(BIO_WORKER_NAME) /\ UNCHANGED <<biovars, cpc>>
Wake == JobWake(BIO_WORKER_NAME) /\ UNCHANGED <<biovars, cpc>>
Check == JobCheck(BIO_WORKER_NAME) /\ UNCHANGED <<biovars, cpc>>
-----------------------------------------------------------------------------
\* A new engine: in a new process, after the old one exited or was killed, or,
\* after xfiredb_se_exit, in the same process or its child, which inherits the
\* counter.  What was in memory is gone, the database is loaded from disk.
Restart ==
    /\ Killed
    /\ queue' = <<>> /\ current' = NoOp
    /\ changes' = disk
    /\ wake_up_counter' \in {0} \cup (IF cpc = "closed" THEN {wake_up_counter}
                                     ELSE {})
    /\ cpc' = "init"
    /\ UNCHANGED disk

ClientStep ==
    \/ bio_init \/ WakeUp \/ SaveReturn \/ ExitSynced \/ bio_exit \/ BioJoined
    \/ bg_processes_exit

WorkerStep == PopOperation \/ PopNull \/ Execute \/ Sleep \/ Check

Next ==
    \/ \E op \in Ops : bio_queue_add(op)
    \/ xfiredb_se_save \/ xfiredb_se_exit
    \/ ClientStep \/ WorkerStep \/ Wake
    \/ Restart

\* The client finishes a call it has made and the worker's thread runs; nobody
\* has to call anything, spurious wakeups and restarts need not happen.
Fairness ==
    /\ WF_vars(ClientStep)
    /\ WF_vars(WorkerStep)
    /\ WF_vars(jpc[BIO_WORKER_NAME] = "woken" /\ Wake)

Spec == Init /\ [][Next]_vars
FairSpec == Spec /\ Fairness
-----------------------------------------------------------------------------
\* Type invariant of the queue and the client.
TypeOK ==
    /\ BgTypeOK
    /\ queue \in Seq(Ops) /\ current \in Ops \cup {NoOp}
    /\ disk \in Seq(Ops) /\ changes \in Seq(Ops)
    /\ wake_up_counter \in 0..PersistLevel
    /\ cpc \in {"init", "idle", "signal", "save", "exit", "stop", "join",
                "bgexit", "closed"}

InFlight == IF current = NoOp THEN <<>> ELSE <<current>>

\* No change is lost, duplicated or reordered between bio_queue_add and the
\* disk, and what a killed process leaves on disk is a prefix of its changes.
NothingLost == disk \o InFlight \o queue = changes

\* When xfiredb_se_exit returns, and already when its join does, every change
\* is on disk ("Before the engine is stopped, all data is synced").
ExitDurable == cpc \in {"bgexit", "closed"} => disk = changes

\* The background job is used as Bg allows: one controller, no signal to a
\* stopped job, the handler run to its end before the thread exits.
UsesBg == BgSpec

\* Once the queue was seen empty the engine's exit completes.
ExitReturns == cpc = "stop" ~> cpc \in {"closed", "init"}

\* A queued change for which the worker was woken reaches the disk, or the
\* process is restarted: a delivered signal is never forgotten.
WokenDrains ==
    jpc[BIO_WORKER_NAME] = "woken" ~> (queue = <<>> \/ cpc = "init")

\* What the comment of bio_sync says: the worker is woken up, so that the loop
\* of bio_sync sees the queue drained.
SyncReturns == cpc \in {"save", "exit"} ~> cpc \notin {"save", "exit"}
=============================================================================
