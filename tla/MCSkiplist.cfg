CONSTANTS
    k1 = k1
    k2 = k2
    k3 = k3
    k4 = k4
    k5 = k5
    Keys <- FiveKeys
    Hash <- Hashes
    MaxHash = 4
    MaxLevels = 3
    MaxNum = 3
    Header = Header
    NoNode = NoNode
    Freed = Freed
    NoAnswer = NoAnswer
SPECIFICATION Spec
SYMMETRY Symmetry
INVARIANTS TypeOK Layered SizesExact IterationExact
PROPERTY ImplementsSet
