CONSTANTS
  r1 = r1
  r2 = r2
  i1 = i1
  i2 = i2
  NoIP = NoIP
  Users = {u1}
  Requests <- OneRequest
  Addresses <- OneAddress
  RefreshTTL = 2
  MaxClock = 1
  MaxResets = 0
  MayCrash = FALSE
SPECIFICATION Spec
INVARIANTS
  NoRotationLost
CHECK_DEADLOCK FALSE
