SPECIFICATION FairSpec
CONSTANTS
  d1 = d1
  d2 = d2
  k1 = k1
  k2 = k2
  v1 = v1
  c1 = c1
  c2 = c2
  Empty = Empty
  Numeral = Numeral
  Absent = Absent
  NoRequest = NoRequest
  Dbs <- OneDb
  LastDb = d1
  Slots <- OneSlot
  Values <- OneValue
  Clients <- OneClient
  Ops = {"set", "setex", "expire", "push", "del", "getdel", "future", "exec", "cancel"}
  TTLs = {1}
  SelfTargets = FALSE
  NThreads = 2
  KeepExpires = FALSE
  KeepFutures = TRUE
  MaxTime = 3
  MaxQueue = 3
  MaxRestarts = 2
INVARIANTS FuturesKept
PROPERTIES ExpiredGoes FutureFires
