SPECIFICATION Spec
CONSTANTS
  d1 = d1
  d2 = d2
  k1 = k1
  k2 = k2
  v1 = v1
  c1 = c1
  c2 = c2
  Empty = Empty
  Numeral = Numeral
  Absent = Absent
  NoRequest = NoRequest
  Dbs <- TwoDbs
  LastDb = d2
  Slots <- AllTargets
  Values <- WithEmpty
  Clients <- TwoClients
  Ops = {"set", "push", "renamenx", "rename", "copy", "move", "transfer", "wdel"}
  TTLs = {1}
  SelfTargets = FALSE
  NThreads = 1
  KeepExpires = TRUE
  KeepFutures = TRUE
  MaxTime = 0
  MaxQueue = 3
  MaxRestarts = 1
INVARIANTS TypeOK 
PROPERTIES NeverLost
SYMMETRY Symmetry
