CONSTANTS
    s1 = s1
    k1 = k1
    Nodes = {n1, n2, n3}
    Root = n1
    Members = {n1, n2}
    Inviters = {n1, n2, n3}
    MeetNewcomers = TRUE
    Slots = {s1, s2, s3}
    Keys = {}
    SlotOf <- NoKeys
    Clients = {}
    Values = {v1, v2}
    MaxNum = 3
    MaxHops = 2
    MaxTasks = 3
    MaxStops = 1
    NoData = NoData
    Idle = Idle
    Blank = Blank
SPECIFICATION Spec
CHECK_DEADLOCK FALSE
INVARIANTS
    SlotsDisjoint
    NoSlotLost
    ForgottenEmpty
PROPERTY
    TaskEnds
