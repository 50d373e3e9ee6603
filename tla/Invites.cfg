CONSTANTS
  r1 = r1
  r2 = r2
  mail = mail
  editor = editor
  Requests = {r1, r2}
  Emails = {mail}
  Roles = {editor}
  InviteTTL = 1
  MaxInvites = 3
  MaxClock = 2
SPECIFICATION Spec
INVARIANTS
  TypeOK
  InvitedRoles
  SpentInvitesBearFruit
  LiveInvitesBounded
PROPERTIES
  ImplementsOneTimeToken
CHECK_DEADLOCK FALSE
