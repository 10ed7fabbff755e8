SPECIFICATION FairSpec
CONSTANTS
  u1 = u1
  u2 = u2
  d1 = d1
  d2 = d2
  Global = Global
  Users <- TwoUsers
  Databases <- OneDB
  NThreads = 2
  MaxReq = 1
  MaxGlobal = 0
  MaxParts = 1
  Kinds = {"scan"}
  AdminOps = {"DBDELETE"}
  CanExit = FALSE
PROPERTIES Answered DropCompletes
