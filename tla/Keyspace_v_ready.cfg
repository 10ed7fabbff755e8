SPECIFICATION Spec
CONSTANTS
  d1 = d1
  d2 = d2
  k1 = k1
  k2 = k2
  v1 = v1
  c1 = c1
  c2 = c2
  Empty = Empty
  Numeral = Numeral
  Absent = Absent
  NoRequest = NoRequest
  Dbs <- TwoDbs
  LastDb = d2
  Slots <- PerDb
  Values <- OneValue
  Clients <- OneClient
  Ops = {"setex", "del", "future"}
  TTLs = {1}
  SelfTargets = FALSE
  NThreads = 2
  KeepExpires = TRUE
  KeepFutures = TRUE
  MaxTime = 1
  MaxQueue = 3
  MaxRestarts = 1
INVARIANTS ReadyMeansLoaded
