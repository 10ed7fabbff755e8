SPECIFICATION Spec
CONSTANTS
  d1 = d1
  d2 = d2
  k1 = k1
  k2 = k2
  v1 = v1
  c1 = c1
  c2 = c2
  Empty = Empty
  Numeral = Numeral
  Absent = Absent
  NoRequest = NoRequest
  Dbs <- OneDb
  LastDb = d1
  Slots <- TwoNames
  Values <- WithEmpty
  Clients <- OneClient
  Ops = {"settx", "getset", "setex", "expire", "persist", "getpersist", "del", "push", "copy", "clone", "reset", "ereset"}
  TTLs = {1}
  SelfTargets = TRUE
  NThreads = 2
  KeepExpires = TRUE
  KeepFutures = TRUE
  MaxTime = 2
  MaxQueue = 2
  MaxRestarts = 1
INVARIANTS Mirror
PROPERTIES NoOrphan
