CONSTANTS
    s1 = s1
    k1 = k1
    Nodes = {n1, n2}
    Root = n1
    Members = {n1, n2}
    Inviters = {}
    MeetNewcomers = TRUE
    Slots = {s1}
    Keys = {k1}
    SlotOf <- OneKey
    Clients = {c1}
    Values = {v1, v2}
    MaxNum = 1
    MaxHops = 4
    MaxTasks = 3
    MaxStops = 1
    NoData = NoData
    Idle = Idle
    Blank = Blank
SPECIFICATION Spec
SYMMETRY Symmetry
CONSTRAINT Followed
INVARIANTS
    TypeOK
    MigrationKeepsData
