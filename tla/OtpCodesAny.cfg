CONSTANTS
  r1 = r1
  r2 = r2
  i1 = i1
  i2 = i2
  NoIP = NoIP
  AnyPurpose = AnyPurpose
  registration = registration
  Purposes <- OnePurpose
  ResendScopes <- NoScope
  Requests <- TwoRequests
  Addresses <- OneAddress
  TTL = 2
  Cooldown = 1
  Skew = 1
  MaxPerWindow = 2
  MaxCodes = 3
  MaxClock = 2
SPECIFICATION FairSpec
INVARIANTS
  TypeOK
  OnePendingPerLock
PROPERTIES
  ImplementsOneTimeToken
  EveryRequestEnds
CHECK_DEADLOCK FALSE
