SPECIFICATION Spec
CONSTANTS
  d1 = d1
  d2 = d2
  k1 = k1
  k2 = k2
  v1 = v1
  c1 = c1
  c2 = c2
  Empty = Empty
  Numeral = Numeral
  Absent = Absent
  NoRequest = NoRequest
  Dbs <- OneDb
  LastDb = d1
  Slots <- OneSlot
  Values <- OneValue
  Clients <- OneClient
  Ops = {"setex", "expire"}
  TTLs = {1, 2}
  SelfTargets = FALSE
  NThreads = 1
  KeepExpires = TRUE
  KeepFutures = TRUE
  MaxTime = 2
  MaxQueue = 3
  MaxRestarts = 0
PROPERTIES SweepDeletesDue
