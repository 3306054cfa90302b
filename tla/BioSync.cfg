SPECIFICATION FairSpec
CONSTANTS
    Jobs = {bio}
    NoJob = NoJob
    BIO_WORKER_NAME = bio
    Ops = {o1, o2}
    NoOp = NoOp
    PersistLevel = 0
    MaxOps = 3

PROPERTY SyncReturns
