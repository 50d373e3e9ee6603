CONSTANTS
  r1 = r1
  r2 = r2
  adm = adm
  usr = usr
  admin = admin
  editor = editor
  editor2 = editor2
  create = create
  delete = delete
  update = update
  assign = assign
  pCreate = pCreate
  pDelete = pDelete
  update2 = update2
  Users = {adm, usr}
  Roles = {admin, editor, editor2}
  Perms = {create, delete, update, assign, pCreate, pDelete, update2}
  RoleName <- Names
  Key <- Keys
  Ops <- AllOps
  Seeded <- First
  Requests <- TwoRequests
  MaxChanges = 2
SYMMETRY Symmetry
SPECIFICATION Spec
INVARIANTS
  TypeOK
  GrantsAccounted
  AuditNeverInvents
PROPERTIES
  RightsWereHeld
CHECK_DEADLOCK FALSE
