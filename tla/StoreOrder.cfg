SPECIFICATION Spec
CONSTANTS
  Keys = {k1}
  SubKeys = {s1, s2}
  Values = {v1, v2}
  Null = Null
  NoData = NoData
  MaxList = 2
  MaxQueue = 0
INVARIANT ListOrderStored
