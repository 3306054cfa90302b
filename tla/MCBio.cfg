SPECIFICATION MCSpec
CONSTANTS
    Jobs = {bio, j1}
    NoJob = NoJob
    BIO_WORKER_NAME = bio
    Ops = {o1, o2}
    NoOp = NoOp
    PersistLevel = 1
    MaxOps = 4
INVARIANTS TypeOK NothingLost ExitDurable NoThreadLeak StoppedNeverSleeps
PROPERTIES  HandlerRan StopReturns ExitReturns WokenDrains
