SPECIFICATION FairSpec
CONSTANTS
  u1 = u1
  u2 = u2
  d1 = d1
  d2 = d2
  Global = Global
  Users <- OneUser
  Databases <- OneDB
  NThreads = 1
  MaxReq = 1
  MaxGlobal = 0
  MaxParts = 0
  Kinds = {"point"}
  AdminOps = {}
  CanExit = FALSE
PROPERTIES AwaitingExitDrains
