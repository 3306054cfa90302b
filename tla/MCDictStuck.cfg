SPECIFICATION FairSpec
CONSTANTS
    t1 = t1
    t2 = t2
    k1 = k1
    k2 = k2
    k3 = k3
    v0 = v0
    v1 = v1
    v2 = v2
    Keys = {k1, k3}
    Hash <- PairHash
    DICT_MINIMAL_SIZE = 1
    CanExpand = TRUE
    ResizeRatio = 5
    Threads = {t1, t2}
    Worker = Worker
    NoThread = NoThread
    KeysOf <- PairKeysOf
    ValuesOf <- OneValuesOf
    Values = {v1}
    NULL = NULL
    WorkerSteps = 2
    EmptyVisits = 1
    MaxIterators = 0
PROPERTY RehashCompletes
