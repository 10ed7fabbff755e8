SPECIFICATION Spec
CONSTANTS
  u1 = u1
  u2 = u2
  d1 = d1
  d2 = d2
  Global = Global
  Users <- TwoUsers
  Databases <- TwoDBs
  NThreads = 2
  MaxReq = 2
  MaxGlobal = 0
  MaxParts = 1
  Kinds = {"scan", "transfer", "invalid"}
  AdminOps = {"FLUSHDB", "FLUSHALL"}
  CanExit = FALSE
SYMMETRY Symmetry
INVARIANTS TypeOK NoUseAfterFree Serial StreamOrder LockedStays
PROPERTIES Implements
