-------------------------------- MODULE MCBio --------------------------------
(***************************************************************************)
(* The two programs that use background jobs: the engine, whose only job   *)
(* is the worker of the background I/O, and a program with jobs of its own *)
(* (test/bg/bg.c), which creates, signals and stops them in any order.     *)
(***************************************************************************)
EXTENDS Bio

VARIABLE engine    \* the program is the engine

mcvars == <<vars, engine>>

MCInit == Init /\ engine \in BOOLEAN

EngineStep == engine /\ Next /\ UNCHANGED engine
JobsStep == ~engine /\ BgNext /\ UNCHANGED <<biovars, cpc, engine>>

MCNext == EngineStep \/ JobsStep

\* Fairness of Bio for the engine, of Bg for the other program.
MCFairness ==
    /\ WF_mcvars(engine /\ ClientStep /\ UNCHANGED engine)
    /\ WF_mcvars(engine /\ WorkerStep /\ UNCHANGED engine)
    /\ WF_mcvars(/\ engine /\ jpc[BIO_WORKER_NAME] = "woken"
                 /\ Wake /\ UNCHANGED engine)
    /\ \A j \in Jobs :
        /\ WF_mcvars(JobsStep /\ JobStep(j))
        /\ WF_mcvars(JobsStep /\ jpc[j] = "woken" /\ JobWake(j))
        /\ WF_mcvars(JobsStep /\ ExitStop(j))
    /\ WF_mcvars(JobsStep /\ JoinJob)
    /\ WF_mcvars(JobsStep /\ ExitEnd)

MCSpec == MCInit /\ [][MCNext]_mcvars /\ MCFairness
=============================================================================
