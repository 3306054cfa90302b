----------------------------- MODULE BioProofs ------------------------------
(***************************************************************************)
(* Proofs about the background jobs of Bg, for any set of job names, and   *)
(* about the background I/O of Bio, for any operations, persistence level  *)
(* and number of changes.                                                  *)
(***************************************************************************)
EXTENDS Bio, SequenceTheorems, TLAPS
-----------------------------------------------------------------------------
(* Background jobs.                                                        *)

\* The inductive invariant: NoThreadLeak needs that the job being joined is no
\* longer registered, HandlerRan that a thread past its handler has run it.
BgInv ==
    /\ BgTypeOK
    /\ NoThreadLeak
    /\ StoppedNeverSleeps
    /\ joining \notin job_db
    /\ \A j \in Jobs : jpc[j] \in {"check", "exited"} => ran[j]

\* bg_processes_init establishes the invariant: there is no job and no thread.
LEMMA BgInitInv == BgInit => BgInv
  BY JobsAssumption DEF BgInit, BgInv, BgTypeOK, NoThreadLeak,
                        StoppedNeverSleeps

\* The controller's calls preserve it.
LEMMA ControllerInv ==
    ASSUME BgInv, NEW j \in Jobs,
           bg_process_create(j) \/ bg_process_signal(j) \/ bg_process_stop(j)
           \/ ExitStop(j)
    PROVE  BgInv'
<1> USE JobsAssumption DEF BgInv, BgTypeOK, NoThreadLeak, StoppedNeverSleeps,
                           JobGoto, WakeJob, ControllerFree
<1>1. CASE bg_process_create(j)
  BY <1>1 DEF bg_process_create
<1>2. CASE bg_process_signal(j)
  BY <1>2 DEF bg_process_signal
<1>3. CASE StopJob(j) /\ UNCHANGED exiting
  BY <1>3 DEF StopJob
<1> QED
  BY <1>1, <1>2, <1>3 DEF bg_process_stop, ExitStop

\* So do the end of a join, bg_processes_exit and the loss of the process.
LEMMA ExitInv ==
    ASSUME BgInv, JoinJob \/ ExitBegin \/ ExitEnd \/ Killed
    PROVE  BgInv'
<1> USE JobsAssumption DEF BgInv, BgTypeOK, NoThreadLeak, StoppedNeverSleeps,
                           JobGoto
<1>1. CASE JoinJob
  BY <1>1 DEF JoinJob
<1>2. CASE ExitBegin \/ ExitEnd
  BY <1>2 DEF ExitBegin, ExitEnd
<1>3. CASE Killed
  BY <1>3 DEF Killed
<1> QED
  BY <1>1, <1>2, <1>3

\* So does every step of a job's thread.
LEMMA JobInv ==
    ASSUME BgInv, NEW j \in Jobs, JobStep(j) \/ JobWake(j)
    PROVE  BgInv'
<1> USE DEF BgInv, BgTypeOK, NoThreadLeak, StoppedNeverSleeps, JobGoto
<1>1. CASE JobSleep(j)
  BY <1>1 DEF JobSleep
<1>2. CASE JobWake(j)
  BY <1>2 DEF JobWake
<1>3. CASE JobHandle(j)
  BY <1>3 DEF JobHandle
<1>4. CASE JobCheck(j)
  BY <1>4 DEF JobCheck
<1> QED
  BY <1>1, <1>2, <1>3, <1>4 DEF JobStep

\* One step of the jobs, or none.
LEMMA BgNextInv == BgInv /\ [BgNext]_bgvars => BgInv'
<1> SUFFICES ASSUME BgInv, [BgNext]_bgvars
             PROVE  BgInv'
  OBVIOUS
<1>1. CASE BgNext
  BY <1>1, ControllerInv, ExitInv, JobInv DEF BgNext
<1>2. CASE UNCHANGED bgvars
  BY <1>2 DEF bgvars, BgInv, BgTypeOK, NoThreadLeak, StoppedNeverSleeps
<1> QED
  BY <1>1, <1>2

\* The invariant of the job table holds always.
THEOREM BgInvariant == BgSpec => []BgInv
  BY BgInitInv, BgNextInv, PTL DEF BgSpec

\* Threads exist exactly for the registered jobs and the one being joined, for
\* any number of jobs (bg_process_create, __bg_process_stop, job_processor).
THEOREM JobsNoThreadLeak == BgSpec => []NoThreadLeak
<1>1. BgInv => NoThreadLeak
  BY DEF BgInv
<1> QED
  BY <1>1, BgInvariant, PTL

\* No stopped job sleeps, so the join of bg_process_stop is never left waiting
\* for a thread that missed the signal.
THEOREM JobsStoppedNeverSleep == BgSpec => []StoppedNeverSleeps
<1>1. BgInv => StoppedNeverSleeps
  BY DEF BgInv
<1> QED
  BY <1>1, BgInvariant, PTL

\* A thread that is joined has run its handler.
THEOREM JobsHandlerRan == BgSpec => HandlerRan
<1>1. BgInv =>
        [\A j \in Jobs : jpc[j] = "exited" /\ jpc'[j] = "none" => ran[j]]_bgvars
  BY DEF BgInv
<1> QED
  BY <1>1, BgInvariant, PTL DEF HandlerRan
-----------------------------------------------------------------------------
(* Background I/O.                                                         *)

\* bio_worker holds an operation only while the handler of its job runs.
HeldInHandler == current # NoOp => InHandler

\* After bio_sync has seen the queue empty nothing is queued any more.
QueueClosed == cpc \in {"stop", "join", "bgexit", "closed"} => queue = <<>>

\* No thread runs the handler before bio_init and after the join of bio_exit,
\* which waits for that job.
ThreadGone ==
    /\ cpc \in {"init", "bgexit", "closed"} => jpc[BIO_WORKER_NAME] = "none"
    /\ cpc = "join" => joining = BIO_WORKER_NAME

\* The inductive invariant.
BioInv == TypeOK /\ NothingLost /\ HeldInHandler /\ QueueClosed /\ ThreadGone

\* Appending to the last of three sequences appends to their concatenation.
LEMMA ConcatAppend ==
    ASSUME NEW S, NEW s \in Seq(S), NEW t \in Seq(S), NEW e \in S
    PROVE  s \o Append(t, e) = Append(s \o t, e)
<1>1. <<e>> \in Seq(S)
  OBVIOUS
<1>2. Append(t, e) = t \o <<e>>
  BY AppendIsConcat
<1>3. s \o (t \o <<e>>) = (s \o t) \o <<e>>
  BY <1>1, ConcatAssociative
<1>4. s \o t \in Seq(S)
  BY ConcatProperties
<1>5. Append(s \o t, e) = (s \o t) \o <<e>>
  BY <1>4, AppendIsConcat
<1> QED
  BY <1>2, <1>3, <1>5

\* A sequence is its head and its tail.
LEMMA HeadThenTail ==
    ASSUME NEW S, NEW s \in Seq(S), s # <<>>
    PROVE  s = <<Head(s)>> \o Tail(s)
<1>1. Len(s) \in Nat \ {0}
  BY EmptySeq
<1>2. SubSeq(s, 1, Len(s)) = <<s[1]>> \o SubSeq(s, 2, Len(s))
  BY <1>1, SubSeqRecursiveFirst
<1>3. SubSeq(s, 1, Len(s)) = s
  BY SubSeqFull
<1>4. Tail(s) = SubSeq(s, 2, Len(s)) /\ Head(s) = s[1]
  BY TailIsSubSeq
<1> QED
  BY <1>2, <1>3, <1>4

\* The head of a sequence can move to the end of the one before it.
LEMMA MoveHead ==
    ASSUME NEW S, NEW s \in Seq(S), NEW t \in Seq(S), t # <<>>
    PROVE  (s \o <<Head(t)>>) \o Tail(t) = s \o t
<1> DEFINE h == <<Head(t)>>
           r == Tail(t)
<1>1. h \in Seq(S) /\ r \in Seq(S)
  BY HeadTailProperties
<1>2. t = h \o r
  BY HeadThenTail
<1> HIDE DEF h, r
<1>3. (s \o h) \o r = s \o (h \o r)
  BY <1>1, ConcatAssociative
<1> QED
  BY <1>2, <1>3 DEF h, r

\* What is in flight is a sequence of at most one operation.
LEMMA InFlightSeq == TypeOK => InFlight \in Seq(Ops)
  BY DEF TypeOK, InFlight

\* bio_queue_add puts a change behind all others.
LEMMA QueueAddNothingLost ==
    ASSUME BioInv, NEW op \in Ops, bio_queue_add(op)
    PROVE  NothingLost'
<1>1. /\ disk \in Seq(Ops) /\ InFlight \in Seq(Ops) /\ queue \in Seq(Ops)
      /\ disk \o InFlight \in Seq(Ops)
  BY InFlightSeq, ConcatProperties DEF BioInv, TypeOK
<1>2. (disk \o InFlight) \o Append(queue, op) = Append(changes, op)
  BY <1>1, ConcatAppend DEF BioInv, NothingLost
<1>3. disk' = disk /\ InFlight' = InFlight /\ queue' = Append(queue, op)
      /\ changes' = Append(changes, op)
  BY DEF bio_queue_add, InFlight
<1> QED
  BY <1>2, <1>3 DEF NothingLost

\* bio_queue_pop moves the oldest change of the queue into flight.
LEMMA PopNothingLost ==
    ASSUME BioInv, PopOperation
    PROVE  NothingLost'
<1>1. disk \in Seq(Ops) /\ queue \in Seq(Ops) /\ queue # <<>>
  BY DEF BioInv, TypeOK, PopOperation
<1>2. Head(queue) \in Ops /\ Tail(queue) \in Seq(Ops)
  BY <1>1, HeadTailProperties
<1>3. disk \o queue = changes
  BY <1>1, ConcatEmptySeq DEF BioInv, NothingLost, InFlight, PopOperation
<1>4. (disk \o <<Head(queue)>>) \o Tail(queue) = changes
  BY <1>1, <1>3, MoveHead
<1>5. InFlight' = <<Head(queue)>>
  BY <1>2, BioAssumption DEF InFlight, PopOperation
<1> QED
  BY <1>4, <1>5 DEF NothingLost, PopOperation

\* A statement moves the change in flight to the disk.
LEMMA ExecuteNothingLost ==
    ASSUME BioInv, Execute
    PROVE  NothingLost'
<1>1. disk \in Seq(Ops) /\ queue \in Seq(Ops) /\ current \in Ops
  BY DEF BioInv, TypeOK, Execute
<1>2. Append(disk, current) = disk \o <<current>>
  BY <1>1, AppendIsConcat
<1>3. Append(disk, current) \in Seq(Ops)
  BY <1>1, AppendProperties
<1>4. (disk \o <<current>>) \o queue = changes
  BY DEF BioInv, NothingLost, InFlight, Execute
<1>5. Append(disk, current) \o <<>> = Append(disk, current)
  BY <1>3, ConcatEmptySeq
<1>6. InFlight' = <<>>
  BY DEF InFlight, Execute
<1> QED
  BY <1>2, <1>4, <1>5, <1>6 DEF NothingLost, Execute

\* The counter of bio_try_wakeup_worker stays below persist_level + 1.
LEMMA CounterBounded ==
    ASSUME NEW w \in 0..PersistLevel, (w + 1) % (PersistLevel + 1) # 0
    PROVE  w + 1 \in 0..PersistLevel
<1>1. PersistLevel \in Nat
  BY BioAssumption
<1>2. (PersistLevel + 1) % (PersistLevel + 1) = 0
  BY <1>1
<1>3. w # PersistLevel
  BY <1>2
<1> QED
  BY <1>1, <1>3

\* The initial state satisfies the invariant.
LEMMA BioInitInv == Init => BioInv
<1> SUFFICES ASSUME Init PROVE BioInv
  OBVIOUS
<1>1. TypeOK
  <2>1. <<>> \in Seq(Ops)
    BY EmptySeq
  <2>2. BgTypeOK
    BY JobsAssumption DEF Init, BgInit, BgTypeOK
  <2> QED
    BY <2>1, <2>2, BioAssumption DEF Init, TypeOK
<1>2. NothingLost
  BY DEF Init, NothingLost, InFlight
<1>3. HeldInHandler /\ QueueClosed /\ ThreadGone
  BY BioAssumption DEF Init, BgInit, HeldInHandler, QueueClosed, ThreadGone
<1> QED
  BY <1>1, <1>2, <1>3 DEF BioInv

\* The calls of the client other than bio_queue_add leave the changes alone.
LEMMA ClientInv ==
    ASSUME BioInv, ClientStep \/ xfiredb_se_save \/ xfiredb_se_exit
    PROVE  BioInv'
<1> USE BioAssumption, JobsAssumption
    DEF BioInv, TypeOK, BgTypeOK, HeldInHandler, InHandler, QueueClosed,
        ThreadGone, Client, biovars, JobGoto, WakeJob, ControllerFree
<1>1. CASE bio_init
  <2>1. NothingLost'
    BY <1>1 DEF bio_init, NothingLost, InFlight
  <2> QED
    BY <1>1, <2>1 DEF bio_init, bg_process_create
<1>2. CASE WakeUp \/ xfiredb_se_save \/ xfiredb_se_exit
  <2>1. NothingLost'
    BY <1>2 DEF WakeUp, xfiredb_se_save, xfiredb_se_exit, SyncSignal,
                NothingLost, InFlight
  <2> QED
    BY <1>2, <2>1 DEF WakeUp, xfiredb_se_save, xfiredb_se_exit, SyncSignal,
                      bg_process_signal
<1>3. CASE SaveReturn \/ ExitSynced
  <2>1. NothingLost'
    BY <1>3 DEF SaveReturn, ExitSynced, SyncReturn, NothingLost, InFlight
  <2> QED
    BY <1>3, <2>1 DEF SaveReturn, ExitSynced, SyncReturn, bgvars
<1>4. CASE bio_exit
  <2>1. NothingLost'
    BY <1>4 DEF bio_exit, NothingLost, InFlight
  <2> QED
    BY <1>4, <2>1 DEF bio_exit, bg_process_stop, StopJob
<1>5. CASE BioJoined
  <2>1. NothingLost'
    BY <1>5 DEF BioJoined, NothingLost, InFlight
  <2> QED
    BY <1>5, <2>1 DEF BioJoined, JoinJob
<1>6. CASE bg_processes_exit
  <2>1. NothingLost'
    BY <1>6 DEF bg_processes_exit, NothingLost, InFlight
  <2> QED
    BY <1>6, <2>1 DEF bg_processes_exit, ExitBegin, ExitEnd
<1> QED
  BY <1>1, <1>2, <1>3, <1>4, <1>5, <1>6 DEF ClientStep

\* bio_queue_add is possible only before the exit.
LEMMA QueueAddInv ==
    ASSUME BioInv, NEW op \in Ops, bio_queue_add(op)
    PROVE  BioInv'
<1>1. NothingLost'
  BY QueueAddNothingLost
<1>2. queue' \in Seq(Ops) /\ changes' \in Seq(Ops)
  BY AppendProperties DEF BioInv, TypeOK, bio_queue_add
<1>3. wake_up_counter' \in 0..PersistLevel
  BY CounterBounded, BioAssumption
  DEF BioInv, TypeOK, bio_queue_add, WakeupDue
<1>4. TypeOK'
  BY <1>2, <1>3 DEF BioInv, TypeOK, BgTypeOK, bio_queue_add, bgvars, Client
<1> QED
  BY <1>1, <1>4 DEF BioInv, HeldInHandler, InHandler, QueueClosed, ThreadGone,
                    bio_queue_add, bgvars, Client

\* The steps of bio_worker and of the thread that runs it.
LEMMA WorkerInv ==
    ASSUME BioInv, WorkerStep \/ Wake
    PROVE  BioInv'
<1> USE BioAssumption
    DEF BioInv, TypeOK, BgTypeOK, HeldInHandler, InHandler, QueueClosed,
        ThreadGone, biovars, bgvars, JobGoto
<1>1. CASE PopOperation
  <2>1. NothingLost'
    BY <1>1, PopNothingLost
  <2>2. Head(queue) \in Ops /\ Tail(queue) \in Seq(Ops)
    BY <1>1, HeadTailProperties DEF PopOperation
  <2> QED
    BY <1>1, <2>1, <2>2 DEF PopOperation
<1>2. CASE Execute
  <2>1. NothingLost'
    BY <1>2, ExecuteNothingLost
  <2>2. disk' \in Seq(Ops)
    BY <1>2, AppendProperties DEF Execute
  <2> QED
    BY <1>2, <2>1, <2>2 DEF Execute
<1>3. CASE PopNull
  <2>1. NothingLost'
    BY <1>3 DEF PopNull, NothingLost, InFlight
  <2> QED
    BY <1>3, <2>1 DEF PopNull, JobHandle
<1>4. CASE Sleep \/ Wake \/ Check
  <2>1. NothingLost'
    BY <1>4 DEF Sleep, Wake, Check, NothingLost, InFlight
  <2> QED
    BY <1>4, <2>1 DEF Sleep, Wake, Check, JobSleep, JobWake, JobCheck
<1> QED
  BY <1>1, <1>2, <1>3, <1>4 DEF WorkerStep

\* A new process starts with what is on disk.
LEMMA RestartInv ==
    ASSUME BioInv, Restart
    PROVE  BioInv'
<1>1. <<>> \in Seq(Ops)
  BY EmptySeq
<1>2. disk \in Seq(Ops)
  BY DEF BioInv, TypeOK
<1>3. BgTypeOK'
  BY JobsAssumption DEF Restart, Killed, BgTypeOK
<1> wake_up_counter \in 0..PersistLevel /\ 0 \in 0..PersistLevel
  BY BioAssumption DEF BioInv, TypeOK
<1> wake_up_counter' \in 0..PersistLevel
  BY DEF Restart
<1>4. TypeOK'
  BY <1>1, <1>2, <1>3 DEF Restart, TypeOK
<1>5. (disk \o <<>>) \o <<>> = disk
  BY <1>2, ConcatEmptySeq
<1>6. NothingLost'
  BY <1>5 DEF Restart, NothingLost, InFlight
<1> QED
  BY <1>4, <1>6, BioAssumption
  DEF BioInv, HeldInHandler, QueueClosed, ThreadGone, Restart, Killed

\* One step, or none.
LEMMA BioNextInv == BioInv /\ [Next]_vars => BioInv'
<1> SUFFICES ASSUME BioInv, [Next]_vars
             PROVE  BioInv'
  OBVIOUS
<1>1. CASE Next
  BY <1>1, ClientInv, QueueAddInv, WorkerInv, RestartInv DEF Next
<1>2. CASE UNCHANGED vars
  BY <1>2 DEF vars, bgvars, biovars, BioInv, TypeOK, BgTypeOK, NothingLost,
              InFlight, HeldInHandler, InHandler, QueueClosed, ThreadGone
<1> QED
  BY <1>1, <1>2

\* The invariant of the background I/O holds always.
THEOREM BioInvariant == Spec => []BioInv
  BY BioInitInv, BioNextInv, PTL DEF Spec

\* The queue, the file and the background jobs keep their types, and
\* wake_up_counter never passes the persist level, whatever the operations
\* and however often the process is killed (bio_queue_add, bio_worker).
THEOREM BioTypeCorrect == Spec => []TypeOK
<1>1. BioInv => TypeOK
  BY DEF BioInv
<1> QED
  BY <1>1, BioInvariant, PTL

\* Changes reach the disk in the order they were queued, none lost and none
\* twice, and a killed process leaves a prefix of them (bio_queue_add,
\* bio_queue_pop, bio_worker).
THEOREM BioNothingLost == Spec => []NothingLost
<1>1. BioInv => NothingLost
  BY DEF BioInv
<1> QED
  BY <1>1, BioInvariant, PTL

\* When xfiredb_se_exit returns every change is on disk: bio_sync has seen the
\* queue empty and the join has waited for the change in flight.
THEOREM BioExitDurable == Spec => []ExitDurable
<1>1. BioInv => ExitDurable
  <2> SUFFICES ASSUME BioInv, cpc \in {"bgexit", "closed"}
               PROVE  disk = changes
    BY DEF ExitDurable
  <2>1. queue = <<>> /\ current = NoOp
    BY DEF BioInv, QueueClosed, ThreadGone, HeldInHandler, InHandler
  <2>2. disk \in Seq(Ops)
    BY DEF BioInv, TypeOK
  <2> QED
    BY <2>1, <2>2, ConcatEmptySeq DEF BioInv, NothingLost, InFlight
<1> QED
  BY <1>1, BioInvariant, PTL

\* The background I/O implements a user of the background jobs: every step is a
\* step of Bg or leaves the jobs alone.
THEOREM BioUsesBg == Spec => UsesBg
<1>1. Init => BgInit
  BY DEF Init
<1>2. [Next]_vars => [BgNext]_bgvars
  <2> SUFFICES ASSUME [Next]_vars
               PROVE  [BgNext]_bgvars
    OBVIOUS
  <2>1. BIO_WORKER_NAME \in Jobs
    BY BioAssumption
  <2>2. CASE ClientStep \/ xfiredb_se_save \/ xfiredb_se_exit
    BY <2>1, <2>2
    DEF ClientStep, bio_init, WakeUp, xfiredb_se_save, xfiredb_se_exit,
        SyncSignal, SaveReturn, ExitSynced, SyncReturn, bio_exit, BioJoined,
        bg_processes_exit, BgNext
  <2>3. CASE WorkerStep \/ Wake
    BY <2>1, <2>3
    DEF WorkerStep, PopOperation, PopNull, Execute, Sleep, Wake, Check,
        JobStep, BgNext
  <2>4. CASE \E op \in Ops : bio_queue_add(op)
    BY <2>4 DEF bio_queue_add
  <2>5. CASE Restart
    BY <2>5 DEF Restart, BgNext
  <2>6. CASE UNCHANGED vars
    BY <2>6 DEF vars
  <2> QED
    BY <2>2, <2>3, <2>4, <2>5, <2>6 DEF Next
<1> QED
  BY <1>1, <1>2, PTL DEF Spec, UsesBg, BgSpec
=============================================================================
