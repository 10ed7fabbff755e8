SPECIFICATION FairSpec
CONSTANTS
  u1 = u1
  u2 = u2
  d1 = d1
  d2 = d2
  Global = Global
  Users <- OneUser
  Databases <- OneDB
  NThreads = 2
  MaxReq = 2
  MaxGlobal = 1
  MaxParts = 1
  Kinds = {"point", "scan"}
  AdminOps = {"DBDELETE"}
  CanExit = TRUE
INVARIANTS SafeHandle SingleClose
PROPERTIES ShutdownCompletes
CHECK_DEADLOCK FALSE
