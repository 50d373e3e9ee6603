CONSTANTS
  r1 = r1
  r2 = r2
  r3 = r3
  e1 = e1
  Identifiers <- OneIdentifier
  Requests <- ThreeRequests
  MaxAttempts = 3
  Window = 1
  Lockout = 2
  MaxClock = 4
SPECIFICATION FairSpec
INVARIANTS
  TypeOK
  NoLostAttempt
  GuessesBounded
PROPERTIES
  LockoutLasts
  EveryLoginEnds
CHECK_DEADLOCK FALSE
