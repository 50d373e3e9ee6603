CONSTANTS
  usr = usr
  super = super
  k = k
  root = root
  ann = ann
  r1 = r1
  Roles = {usr, super}
  Keys = {k}
  RolePermissions <- RolePermissionsValue
  RoleOrder <- RoleOrderValue
  Default = usr
  Super = super
  Emails = {root, ann}
  SuperEmail = root
  RoleChoices = {{usr, super}}
  Requests = {r1}
  MaxIds = 2
  MaxUsers = 2
  MaxStamp = 2
  MaxChanges = 2
  Lists = {"users", "roles", "permissions"}
  Rank <- RankValue
  FilterableRoles = {usr}
  Queries <- QueriesValue
  PageInputs <- PageInputsValue
  PerPageInputs <- PerPageInputsValue
  NaN = NaN
  DefaultPerPage = 2
  MaxPerPage = 2
  MaxSkip = 6
SPECIFICATION Spec
INVARIANTS TypeOK SeedDelivers  WalkShowsEachOnce
CHECK_DEADLOCK FALSE
