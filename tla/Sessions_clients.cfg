SPECIFICATION Spec
CONSTANTS
  root = root
  bob = bob
  pass = pass
  word = word
  None = None
  Users = {1, 2, 3}
  Logins = {root, bob}
  Root = root
  Passwords = {pass, word}
  GroupNames <- MCGroupNames
  Channels = {"#c"}
  autojoin = TRUE
  chansync = TRUE
  allowchans = TRUE
  Tries <- MCTries
  Known = {root, bob}
  Secret = pass
  Menu <- MCMenu
  MaxCommands = 3
INVARIANTS TypeOK SessionsShared CacheCurrent GroupsMatchRecord SubscriptionsPaired NoDangling
CHECK_DEADLOCK FALSE
