CONSTANTS
  r1 = r1
  r2 = r2
  Users = {u1}
  Requests <- TwoRequests
  TTL = 1
  MaxTokens = 3
  MaxClock = 2
SPECIFICATION Spec
INVARIANTS
  TypeOK
  LiveTokensBounded
PROPERTIES
  SpentForGood
  ImplementsOneTimeToken
CHECK_DEADLOCK FALSE
