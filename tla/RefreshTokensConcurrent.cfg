CONSTANTS
  r1 = r1
  r2 = r2
  i1 = i1
  i2 = i2
  NoIP = NoIP
  Users = {u1}
  Requests <- TwoRequests
  Addresses <- OneAddress
  RefreshTTL = 2
  MaxClock = 2
  MaxResets = 0
  MayCrash = TRUE
SPECIFICATION Spec
SYMMETRY Symmetry
INVARIANTS
  TypeOK
  Lineage
  GrantsBoundedByOverlap
PROPERTIES
  OverIsForever
CHECK_DEADLOCK FALSE
