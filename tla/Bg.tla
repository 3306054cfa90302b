--------------------------------- MODULE Bg ---------------------------------
(***************************************************************************)
(* Background jobs, libxfiredbengine/os/bg.c: every job is a thread that   *)
(* sleeps on a condition variable, runs its handler each time it wakes up  *)
(* and exits after the handler once the job is done.  One thread, the      *)
(* controller, creates, signals and stops the jobs; in the server it is    *)
(* whichever Ruby thread holds the interpreter lock.  job::lock is held    *)
(* for no longer than a step below, so it is not a variable.               *)
(***************************************************************************)
EXTENDS Naturals

CONSTANTS Jobs,     \* names of jobs
          NoJob     \* the controller is not joining a thread

ASSUME JobsAssumption == NoJob \notin Jobs

VARIABLES job_db,   \* names of the registered jobs
          done,     \* job::done
          jpc,      \* where the thread of every job is; "none": no thread
          ran,      \* the handler of this thread has run
          joining,  \* the job whose thread the controller waits for
          exiting   \* the controller is in bg_processes_exit

bgvars == <<job_db, done, jpc, ran, joining, exiting>>

\* bg_processes_init
BgInit ==
    /\ job_db = {}
    /\ done = [j \in Jobs |-> FALSE]
    /\ jpc = [j \in Jobs |-> "none"]
    /\ ran = [j \in Jobs |-> FALSE]
    /\ joining = NoJob
    /\ exiting = FALSE

JobGoto(j, l) == jpc' = [jpc EXCEPT ![j] = l]

\* xfiredb_cond_signal(&job->condi): lost unless the thread waits.
WakeJob(j) ==
    jpc' = IF jpc[j] = "waiting" THEN [jpc EXCEPT ![j] = "woken"] ELSE jpc
-----------------------------------------------------------------------------
(* The controller.                                                         *)

ControllerFree == joining = NoJob /\ ~exiting

\* Mutant: job::done keeps what an earlier job of the name left in it.
CreateKeepsDone(j) ==
    /\ ControllerFree /\ j \notin job_db
    /\ job_db' = job_db \cup {j}
    /\ ran' = [ran EXCEPT ![j] = FALSE]
    /\ JobGoto(j, "top")
    /\ UNCHANGED <<done, joining, exiting>>

\* Job names are unique; a name can be used again after its job was stopped.
bg_process_create(j) ==
    /\ ControllerFree /\ j \notin job_db
    /\ job_db' = job_db \cup {j}
    /\ done' = [done EXCEPT ![j] = FALSE]
    /\ ran' = [ran EXCEPT ![j] = FALSE]
    /\ JobGoto(j, "top")
    /\ UNCHANGED <<joining, exiting>>

\* Of an unknown name nothing happens but an error.
bg_process_signal(j) ==
    /\ ControllerFree /\ j \in job_db
    /\ WakeJob(j)
    /\ UNCHANGED <<job_db, done, ran, joining, exiting>>

\* The name is taken out of job_db first; __bg_process_stop sets job::done and
\* signals in one critical section of job::lock, then joins.
StopJob(j) ==
    /\ joining = NoJob /\ j \in job_db
    /\ job_db' = job_db \ {j}
    /\ done' = [done EXCEPT ![j] = TRUE]
    /\ WakeJob(j)
    /\ joining' = j
    /\ UNCHANGED ran

bg_process_stop(j) == ~exiting /\ StopJob(j) /\ UNCHANGED exiting

\* Mutant: the job is freed without joining its thread.
JoinJobEarly ==
    /\ joining # NoJob
    /\ joining' = NoJob
    /\ UNCHANGED <<job_db, done, jpc, ran, exiting>>

\* xfiredb_thread_join returns, the job is freed.
JoinJob ==
    /\ joining # NoJob /\ jpc[joining] = "exited"
    /\ JobGoto(joining, "none")
    /\ joining' = NoJob
    /\ UNCHANGED <<job_db, done, ran, exiting>>

\* bg_processes_exit stops the jobs one after the other.
ExitBegin ==
    /\ ControllerFree
    /\ exiting' = TRUE
    /\ UNCHANGED <<job_db, done, jpc, ran, joining>>

ExitStop(j) == exiting /\ StopJob(j) /\ UNCHANGED exiting

\* bg_processes_init of a next engine.
ExitEnd ==
    /\ exiting /\ joining = NoJob /\ job_db = {}
    /\ exiting' = FALSE
    /\ UNCHANGED <<job_db, done, jpc, ran, joining>>

\* The process is killed and another one starts.
Killed ==
    /\ job_db' = {}
    /\ done' = [j \in Jobs |-> FALSE]
    /\ jpc' = [j \in Jobs |-> "none"]
    /\ ran' = [j \in Jobs |-> FALSE]
    /\ joining' = NoJob
    /\ exiting' = FALSE
-----------------------------------------------------------------------------
(* job_processor                                                           *)

\* Mutant: the wait without the test of job::done.
JobSleepUntested(j) ==
    /\ jpc[j] = "top"
    /\ JobGoto(j, "waiting")
    /\ UNCHANGED <<job_db, done, ran, joining, exiting>>

\* Mutant: a job that is done leaves before its handler.
JobSleepLeaves(j) ==
    /\ jpc[j] = "top"
    /\ JobGoto(j, IF done[j] THEN "exited" ELSE "waiting")
    /\ UNCHANGED <<job_db, done, ran, joining, exiting>>

JobSleep(j) ==
    /\ jpc[j] = "top"
    /\ JobGoto(j, IF done[j] THEN "handle" ELSE "waiting")
    /\ UNCHANGED <<job_db, done, ran, joining, exiting>>

\* The wait is not in a loop: a spurious wakeup runs the handler as well.
JobWake(j) ==
    /\ jpc[j] \in {"waiting", "woken"}
    /\ JobGoto(j, "handle")
    /\ UNCHANGED <<job_db, done, ran, joining, exiting>>

\* The handler returns.
JobHandle(j) ==
    /\ jpc[j] = "handle"
    /\ ran' = [ran EXCEPT ![j] = TRUE]
    /\ JobGoto(j, "check")
    /\ UNCHANGED <<job_db, done, joining, exiting>>

\* Mutant: the loop is never left.
JobCheckLoops(j) ==
    /\ jpc[j] = "check"
    /\ JobGoto(j, "top")
    /\ UNCHANGED <<job_db, done, ran, joining, exiting>>

\* if(j->done) break, read without the lock.
JobCheck(j) ==
    /\ jpc[j] = "check"
    /\ JobGoto(j, IF done[j] THEN "exited" ELSE "top")
    /\ UNCHANGED <<job_db, done, ran, joining, exiting>>

JobStep(j) == JobSleep(j) \/ JobHandle(j) \/ JobCheck(j)
-----------------------------------------------------------------------------
BgNext ==
    \/ \E j \in Jobs :
        \/ bg_process_create(j) \/ bg_process_signal(j) \/ bg_process_stop(j)
        \/ ExitStop(j)
        \/ JobStep(j) \/ JobWake(j)
    \/ JoinJob \/ ExitBegin \/ ExitEnd \/ Killed

BgSpec == BgInit /\ [][BgNext]_bgvars

\* Threads run and signals wake; the controller finishes what it started.
\* Nobody has to create, signal or stop a job.
BgFairness ==
    /\ \A j \in Jobs :
        /\ WF_bgvars(JobStep(j))
        /\ WF_bgvars(jpc[j] = "woken" /\ JobWake(j))
        /\ WF_bgvars(ExitStop(j))
    /\ WF_bgvars(JoinJob) /\ WF_bgvars(ExitEnd)

BgFairSpec == BgSpec /\ BgFairness
-----------------------------------------------------------------------------
\* Type invariant of the job table: a registered job is not done.
BgTypeOK ==
    /\ job_db \subseteq Jobs
    /\ done \in [Jobs -> BOOLEAN]
    /\ \A j \in job_db : ~done[j]
    /\ jpc \in [Jobs -> {"none", "top", "waiting", "woken", "handle", "check",
                         "exited"}]
    /\ ran \in [Jobs -> BOOLEAN]
    /\ joining \in Jobs \cup {NoJob}
    /\ exiting \in BOOLEAN

\* No thread outlives its job: a thread exists exactly for the registered jobs
\* and for the one being joined, so nothing of a freed struct job is touched.
NoThreadLeak ==
    \A j \in Jobs : jpc[j] # "none" <=> j \in job_db \cup {joining}

\* A stopped job never goes back to sleep: job::done is tested under the lock
\* before the wait and set under it with the signal.
StoppedNeverSleeps == \A j \in Jobs : done[j] => jpc[j] # "waiting"

\* Whatever the order of create, signal and stop, the handler of a job has run
\* by the time its thread is gone (the assertions of test/bg/bg.c).
HandlerRan ==
    [][\A j \in Jobs : jpc[j] = "exited" /\ jpc'[j] = "none" => ran[j]]_bgvars

\* bg_process_stop and bg_processes_exit return.
StopReturns ==
    /\ joining # NoJob ~> joining = NoJob
    /\ exiting ~> ~exiting
=============================================================================
