SPECIFICATION Spec
CONSTANTS
  client = client
  other = other
  MaxReceived = 5
  Weight <- MCWeight
  Leavers = {other}
  None = None
  Users = {client, other}
  Registered = {client}
  Order <- MCOrder
  Menu <- MCMenu
  MaxLines <- MCMaxLines
  GroupsOf <- MCGroupsOf
  FlagsOf <- MCFlagsOf
INVARIANTS Accounted InOrder NoStrangers Contiguous OnlyLoginBefore
PROPERTIES Served
CHECK_DEADLOCK FALSE
