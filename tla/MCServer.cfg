SPECIFICATION MCSpec
CONSTANTS
    SubKeys = {s1}
    Values = {"nil"}
    NoData = NoData
    Clients = {c1, c2}
    Workers = {w1}
    First = c1
    Programs <- MCPrograms
    Contents <- MCContents
    Indices <- MCIndices
    MaxQueries = 2
    None = None
    Nodes = {n1, n2}
    Owner = n1
    Names = {u1, u2}
    Passwords = {p1, p2}
    Admins = {a1}
    Sessions = {l1}
    RootName = u1
    RootPw = p1
    MaxChanges = 2
    MaxStops = 1
    NoUser = NoUser
    Idle = Idle
INVARIANTS NoClientAbandoned AnswersTrue NoMutualWait CacheCoherent PasswordAccepted
 
CHECK_DEADLOCK FALSE
