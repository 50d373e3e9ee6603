CONSTANTS
  r1 = r1
  r2 = r2
  i1 = i1
  i2 = i2
  NoIP = NoIP
  AnyPurpose = AnyPurpose
  registration = registration
  Purposes <- OnePurpose
  ResendScopes <- OnePurpose
  Requests <- TwoRequests
  Addresses <- TwoAddresses
  TTL = 3
  Cooldown = 2
  Skew = 1
  MaxPerWindow = 2
  MaxCodes = 3
  MaxClock = 3
SPECIFICATION Spec
SYMMETRY Symmetry
INVARIANTS
  OnePendingPerPurpose
  ResendThrottled
PROPERTIES
  NewestIsAccepted
CHECK_DEADLOCK FALSE
