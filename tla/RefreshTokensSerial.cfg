CONSTANTS
  r1 = r1
  r2 = r2
  i1 = i1
  i2 = i2
  NoIP = NoIP
  Users = {u1}
  Requests <- OneRequest
  Addresses <- TwoAddresses
  RefreshTTL = 2
  MaxClock = 2
  MaxResets = 1
  MayCrash = FALSE
SPECIFICATION Spec
INVARIANTS
  OneSuccessor
  ReuseKillsFamily
  ResetEndsSessions
PROPERTIES
  ImplementsOneTimeToken
CHECK_DEADLOCK FALSE
