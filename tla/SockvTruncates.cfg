SPECIFICATION Spec
CONSTANTS
  NumMod = 16
  Isn = 9
  RemoteIsn = 14
  UsrLen = 2
  RemoteLen = 1
  Remotes <- MCRemotes
  Roles = {"cli", "ser"}
  MaxSyn = 1
  None = None
  SYN = SYN
  FIN = FIN
INVARIANT FinAfterAll
CHECK_DEADLOCK FALSE
