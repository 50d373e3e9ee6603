CONSTANTS
  r1 = r1
  r2 = r2
  i1 = i1
  i2 = i2
  NoIP = NoIP
  Users = {u1}
  Requests <- TwoRequests
  Addresses <- OneAddress
  RefreshTTL = 2
  MaxClock = 2
  MaxResets = 0
  MayCrash = FALSE
SPECIFICATION Spec
INVARIANTS
  OneSuccessor
CHECK_DEADLOCK FALSE
