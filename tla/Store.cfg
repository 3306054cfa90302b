SPECIFICATION CSpec
CONSTANTS
  Keys = {k1, k2}
  SubKeys = {s1, s2}
  Values = {v1, v2}
  Null = Null
  NoData = NoData
  MaxList = 2
  MaxQueue = 1
SYMMETRY Symmetry
INVARIANTS TypeOK RestartKeepsData  
