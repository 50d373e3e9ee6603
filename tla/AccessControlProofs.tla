------------------------- MODULE AccessControlProofs -------------------------
(***************************************************************************)
(* Theorems about AccessControl, for all users, roles, permissions,        *)
(* requests asked for and seeded tables, and every finite number of        *)
(* requests that run at the same time.                                     *)
(***************************************************************************)
EXTENDS AccessControl, FiniteSetTheorems, TLAPS

Pcs == {"idle", "roles", "permissions", "find", "write", "holders"}

Handlers == [pc: Pcs, actor: Users, op: Ops, roles: SUBSET Roles,
             held: SUBSET Roles, granted: SUBSET (Roles \X Perms)]

(* The variables have their types, without the constraints of the tables.  *)
Shapes ==
  /\ user \subseteq Users /\ role \subseteq Roles /\ perm \subseteq Perms
  /\ grant \subseteq Roles \X Perms /\ member \subseteq Users \X Roles
  /\ writing \in [Ops -> Nat] /\ audit \in [Ops -> Nat] /\ done \in [Ops -> Nat]
  /\ req \in [Requests -> Handlers]

(* The constraints of the tables: foreign keys and unique names. *)
RowsExist ==
  /\ \A g \in grant : g[1] \in role /\ g[2] \in perm
  /\ \A m \in member : m[1] \in user /\ m[2] \in role
Unique ==
  /\ \A x, y \in role : RoleName[x] = RoleName[y] => x = y
  /\ \A p, q \in perm : Key[p] = Key[q] => p = q

(* Nothing was done to a role or a permission that has not been created. *)
GrantKinds == {"assignPermission", "revokePermission"}
Seasoned ==
  /\ role \subseteq born /\ perm \subseteq born
  /\ Seeded.role \subseteq born /\ Seeded.perm \subseteq born
  /\ \A o \in Ops : o.kind \in GrantKinds /\ ~(o.role \in born /\ o.perm \in born) => done[o] = 0

(* While a request reads, its histories follow the tables. *)
Follows(h) ==
  /\ h.roles \subseteq h.held
  /\ h.pc \in {"roles", "permissions"} => RolesOf(h.actor) \subseteq h.held /\ grant \subseteq h.granted

IInv == /\ Shapes /\ RowsExist /\ Unique /\ Seasoned
        /\ \A r \in Requests : Follows(req[r])

-----------------------------------------------------------------------------
LEMMA IdleType == Idle \in Handlers /\ Idle.pc = "idle" /\ Follows(Idle)
BY AccessAssumption DEF Idle, Handlers, Pcs, Follows

(* What a step does to the requests: h takes the place of r, the others    *)
(* only write down what they could see. *)
LEMMA BecomeParts ==
  ASSUME Shapes, NEW r \in Requests, NEW h, Become(r, h)
  PROVE  /\ req'[r] = h
         /\ \A q \in Requests \ {r} :
              /\ req'[q].pc = req[q].pc /\ req'[q].actor = req[q].actor
              /\ req'[q].op = req[q].op /\ req'[q].roles = req[q].roles
              /\ req[q].pc \notin {"roles", "permissions"} => req'[q] = req[q]
BY DEF Become, Shapes, Handlers

LEMMA BecomeKeeps ==
  ASSUME IInv, NEW r \in Requests, NEW h, Become(r, h),
         h \in Handlers, Follows(h)',
         grant' \subseteq Roles \X Perms, member' \subseteq Users \X Roles
  PROVE  /\ req' \in [Requests -> Handlers]
         /\ \A q \in Requests : Follows(req[q])'
<1> DEFINE seen(q) == {x \in Roles : <<req[q].actor, x>> \in member'}
           new(q) == [req[q] EXCEPT !.held = @ \cup seen(q), !.granted = @ \cup grant']
<1>1. ASSUME NEW q \in Requests, q # r, req[q].pc \in {"roles", "permissions"}
      PROVE  req'[q] \in Handlers /\ Follows(req[q])'
  <2>1. req[q] \in Handlers /\ req[q].roles \subseteq req[q].held
    BY DEF IInv, Shapes, Follows
  <2>2. req'[q] = new(q)
    BY <1>1 DEF Become
  <2>3. new(q) \in Handlers
    BY <2>1 DEF Handlers
  <2>4. /\ req'[q].held = req[q].held \cup seen(q) /\ req'[q].granted = req[q].granted \cup grant'
        /\ req'[q].actor = req[q].actor /\ req'[q].roles = req[q].roles
    BY <2>1, <2>2 DEF Handlers
  <2>5. RolesOf(req[q].actor)' = seen(q)
    BY <2>4 DEF RolesOf
  <2> QED
    BY <2>1, <2>2, <2>3, <2>4, <2>5 DEF Follows
<1>2. ASSUME NEW q \in Requests, q # r, req[q].pc \notin {"roles", "permissions"}
      PROVE  req'[q] \in Handlers /\ Follows(req[q])'
  <2>1. req'[q] = req[q]
    BY <1>2 DEF Become
  <2> QED
    BY <1>2, <2>1 DEF IInv, Shapes, Follows
<1>3. req'[r] = h
  BY DEF Become
<1>4. \A q \in Requests : req'[q] \in Handlers /\ Follows(req[q])'
  BY <1>1, <1>2, <1>3 DEF Follows, RolesOf
<1>5. req' = [q \in Requests |-> req'[q]]
  BY DEF Become
<1> QED
  BY <1>4, <1>5

(* The other steps leave the requests alone. *)
LEMMA StandKeeps ==
  ASSUME IInv, req' = req, grant' = grant, member' \subseteq member
  PROVE  \A q \in Requests : Follows(req[q])'
BY DEF IInv, Follows, RolesOf

LEMMA InitIInv == Init => IInv
<1> SUFFICES ASSUME Init PROVE IInv
  OBVIOUS
<1>1. /\ Seeded.role \subseteq Roles /\ Seeded.perm \subseteq Perms
      /\ Seeded.grant \subseteq Roles \X Perms /\ Seeded.member \subseteq Users \X Roles
  BY AccessAssumption
<1>2. Shapes
  BY <1>1, IdleType DEF Init, Shapes
<1>3. RowsExist /\ Unique
  BY AccessAssumption DEF Init, RowsExist, Unique
<1>4. Seasoned
  BY DEF Init, Seasoned
<1>5. \A r \in Requests : Follows(req[r])
  BY IdleType DEF Init
<1> QED
  BY <1>2, <1>3, <1>4, <1>5 DEF IInv

-----------------------------------------------------------------------------
(* A step that leaves the tables, the audit rows and the count of changes. *)
LEMMA QuietIInv ==
  ASSUME IInv, UNCHANGED <<tables, logs, done>>,
         NEW r \in Requests, NEW h, Become(r, h), h \in Handlers, Follows(h)'
  PROVE  IInv'
<1> USE DEF tables, logs
<1>1. Shapes' /\ \A q \in Requests : Follows(req[q])'
  BY BecomeKeeps DEF IInv, Shapes
<1>2. RowsExist' /\ Unique' /\ Seasoned'
  BY DEF IInv, RowsExist, Unique, Seasoned
<1> QED
  BY <1>1, <1>2 DEF IInv

(* A handler that does not read has nothing to follow. *)
LEMMA Unread ==
  ASSUME NEW h \in Handlers, h.pc \notin {"roles", "permissions"}, h.roles \subseteq h.held
  PROVE  Follows(h)'
BY DEF Follows

(* The reads, the checks and the answers that change nothing. *)
QuietStep(r) ==
  \/ \E u \in Users, o \in Ops : Start(r, u, o)
  \/ ReadRoles(r) \/ ReadPermissions(r) \/ Find(r) \/ Refused(r) \/ Crash(r)

LEMMA QuietKeeps ==
  ASSUME IInv, NEW r \in Requests, QuietStep(r)
  PROVE  IInv' /\ UNCHANGED <<tables, logs, done>>
<1>0. UNCHANGED <<tables, logs, done>>
  BY DEF QuietStep, Start, ReadRoles, ReadPermissions, Find, Refused, Crash
<1>1. req[r] \in Handlers /\ Follows(req[r])
  BY DEF IInv, Shapes
<1>2. \A u \in Users : RolesOf(u) \subseteq Roles /\ RolesOf(u)' = RolesOf(u)
  BY <1>0 DEF RolesOf, tables
<1>3. ASSUME End(r) PROVE IInv'
  <2>0. PICK h : h = Idle
    OBVIOUS
  <2>1. h \in Handlers /\ h.pc = "idle" /\ h.roles \subseteq h.held
    BY <2>0, IdleType DEF Follows
  <2>2. Follows(h)'
    BY <2>1, Unread
  <2> QED
    BY <1>0, <1>3, <2>0, <2>1, <2>2, QuietIInv DEF End
<1>4. ASSUME NEW step \in {"find", "write"},
             Become(r, [Idle EXCEPT !.actor = req[r].actor, !.op = req[r].op, !.pc = step])
      PROVE  IInv'
  <2>0. PICK h : h = [Idle EXCEPT !.actor = req[r].actor, !.op = req[r].op, !.pc = step]
    OBVIOUS
  <2>1. h \in Handlers /\ h.pc = step /\ h.roles \subseteq h.held
    BY <1>1, <2>0, IdleType DEF Handlers, Pcs, Follows
  <2>2. Follows(h)'
    BY <2>1, Unread DEF Follows
  <2> QED
    BY <1>0, <1>4, <2>0, <2>1, <2>2, QuietIInv
<1>5. ASSUME NEW u \in Users, NEW o \in Ops, Start(r, u, o) PROVE IInv'
  <2>0. PICK h : h = [Idle EXCEPT !.pc = "roles", !.actor = u, !.op = o,
                                !.held = RolesOf(u), !.granted = grant]
    OBVIOUS
  <2>1. /\ h \in Handlers /\ h.held = RolesOf(u) /\ h.granted = grant /\ h.actor = u
        /\ h.roles = {}
    BY <1>2, <2>0, IdleType DEF Handlers, Pcs, IInv, Shapes, Idle
  <2>2. Follows(h)'
    BY <1>0, <1>2, <2>1 DEF Follows, tables
  <2> QED
    BY <1>0, <1>5, <2>0, <2>1, <2>2, QuietIInv DEF Start
<1>6. ASSUME ReadRoles(r) PROVE IInv'
  <2>0. PICK h : h = [req[r] EXCEPT !.pc = "permissions", !.roles = RolesOf(req[r].actor)]
    OBVIOUS
  <2>1. req[r].pc = "roles" /\ Become(r, h)
    BY <1>6, <2>0 DEF ReadRoles
  <2>2. /\ h \in Handlers /\ h.held = req[r].held /\ h.granted = req[r].granted
        /\ h.actor = req[r].actor /\ h.roles = RolesOf(req[r].actor) /\ req[r].actor \in Users
    BY <1>1, <1>2, <2>0 DEF Handlers, Pcs
  <2>3. RolesOf(req[r].actor) \subseteq req[r].held /\ grant \subseteq req[r].granted
    BY <1>1, <2>1 DEF Follows
  <2>4. Follows(h)'
    BY <1>0, <1>2, <2>2, <2>3 DEF Follows, tables
  <2> QED
    BY <1>0, <2>1, <2>2, <2>4, QuietIInv
<1>7. ASSUME ReadPermissions(r) PROVE IInv'
  BY <1>3, <1>4, <1>7 DEF ReadPermissions, Admit
<1>8. ASSUME Find(r) PROVE IInv'
  <2>0. PICK h : h = [req[r] EXCEPT !.pc = "write"]
    OBVIOUS
  <2>1. CASE Become(r, h)
    <3>1. h \in Handlers /\ h.pc = "write" /\ h.roles \subseteq h.held
      BY <1>1, <2>0 DEF Handlers, Pcs, Follows
    <3>2. Follows(h)'
      BY <3>1, Unread DEF Follows
    <3> QED
      BY <1>0, <2>1, <3>1, <3>2, QuietIInv
  <2> QED
    BY <1>3, <1>8, <2>0, <2>1 DEF Find, Goto
<1> QED
  BY <1>0, <1>3, <1>5, <1>6, <1>7, <1>8 DEF QuietStep, Refused, Crash

-----------------------------------------------------------------------------
(* The statements that change a table, and the audit row after holders.    *)
LEMMA WriteKeeps ==
  ASSUME IInv, NEW r \in Requests, NEW h \in {Idle, [req[r] EXCEPT !.pc = "holders"]},
         Become(r, h),
         user' \subseteq Users, role' \subseteq Roles, perm' \subseteq Perms,
         grant' \subseteq Roles \X Perms, member' \subseteq Users \X Roles,
         writing' \in [Ops -> Nat], audit' \in [Ops -> Nat], done' \in [Ops -> Nat],
         RowsExist', Unique', Seasoned'
  PROVE  IInv'
<1>1. req[r] \in Handlers /\ req[r].roles \subseteq req[r].held
  BY DEF IInv, Shapes, Follows
<1>2. PICK k : k = h
  OBVIOUS
<1>3. k \in Handlers /\ k.pc \in {"idle", "holders"} /\ k.roles \subseteq k.held
  BY <1>1, <1>2, IdleType DEF Handlers, Pcs, Follows
<1>4. Follows(k)'
  BY <1>3, Unread
<1>5. /\ req' \in [Requests -> Handlers]
      /\ \A q \in Requests : Follows(req[q])'
  BY <1>2, <1>3, <1>4, BecomeKeeps
<1> QED
  BY <1>5 DEF IInv, Shapes

(* What every change of the tables through a request has in common. *)
LEMMA CommitParts ==
  ASSUME IInv, NEW r \in Requests, NEW kind, Commits(r, kind)
  PROVE  /\ req[r].pc = "write" /\ req[r].op \in Ops /\ req[r].op.kind = kind
         /\ req[r].op.role \in Roles /\ req[r].op.perm \in Perms /\ req[r].op.user \in Users
         /\ TableTakes(req[r].op)
         /\ done' = [done EXCEPT ![req[r].op] = @ + 1] /\ done' \in [Ops -> Nat]
<1>1. req[r] \in Handlers /\ done \in [Ops -> Nat]
  BY DEF IInv, Shapes
<1>2. req[r].op \in [kind: Kinds, role: Roles, perm: Perms, user: Users]
  BY <1>1, AccessAssumption DEF Handlers
<1> QED
  BY <1>1, <1>2 DEF Commits, Handlers

(* A permission goes to, or leaves, a role only when both exist. *)
LEMMA SeasonedKeeps ==
  ASSUME IInv, NEW o \in Ops, done' = [done EXCEPT ![o] = @ + 1],
         o.kind \in GrantKinds => o.role \in role /\ o.perm \in perm,
         born \subseteq born', role' \subseteq born', perm' \subseteq born'
  PROVE  Seasoned'
<1>1. ASSUME NEW q \in Ops, q.kind \in GrantKinds, ~(q.role \in born' /\ q.perm \in born')
      PROVE  done'[q] = 0
  <2>1. done[q] = 0 /\ q # o
    BY <1>1 DEF IInv, Seasoned
  <2> QED
    BY <2>1 DEF IInv, Shapes
<1> QED
  BY <1>1 DEF IInv, Seasoned

LEMMA CreateRoleKeeps ==
  ASSUME IInv, NEW r \in Requests, CreateRole(r) PROVE IInv'
<1>1. /\ req[r].op \in Ops /\ req[r].op.kind = "createRole" /\ req[r].op.role \in Roles
      /\ ~NameTaken(req[r].op.role)
      /\ done' = [done EXCEPT ![req[r].op] = @ + 1] /\ done' \in [Ops -> Nat]
  BY CommitParts DEF CreateRole, TableTakes
<1>2. RowsExist' /\ Unique'
  BY <1>1 DEF CreateRole, IInv, RowsExist, Unique, NameTaken
<1>3. Seasoned'
  <2>1. born \subseteq born' /\ role' \subseteq born' /\ perm' \subseteq born'
    BY DEF CreateRole, IInv, Seasoned
  <2> QED
    BY <1>1, <2>1, SeasonedKeeps DEF GrantKinds
<1>4. Become(r, Idle)
  BY DEF CreateRole, End
<1> QED
  BY <1>1, <1>2, <1>3, <1>4, WriteKeeps DEF CreateRole, IInv, Shapes, logs

LEMMA CreatePermissionKeeps ==
  ASSUME IInv, NEW r \in Requests, CreatePermission(r) PROVE IInv'
<1>1. /\ req[r].op \in Ops /\ req[r].op.kind = "createPermission" /\ req[r].op.perm \in Perms
      /\ ~KeyTaken(req[r].op.perm)
      /\ done' = [done EXCEPT ![req[r].op] = @ + 1] /\ done' \in [Ops -> Nat]
  BY CommitParts DEF CreatePermission, TableTakes
<1>2. RowsExist' /\ Unique'
  BY <1>1 DEF CreatePermission, IInv, RowsExist, Unique, KeyTaken
<1>3. Seasoned'
  <2>1. born \subseteq born' /\ role' \subseteq born' /\ perm' \subseteq born'
    BY DEF CreatePermission, IInv, Seasoned
  <2> QED
    BY <1>1, <2>1, SeasonedKeeps DEF GrantKinds
<1>4. Become(r, Idle)
  BY DEF CreatePermission, End
<1> QED
  BY <1>1, <1>2, <1>3, <1>4, WriteKeeps DEF CreatePermission, IInv, Shapes, logs

LEMMA DeleteRoleKeeps ==
  ASSUME IInv, NEW r \in Requests, DeleteRole(r) PROVE IInv'
<1>1. /\ req[r].op \in Ops /\ req[r].op.kind = "deleteRole"
      /\ done' = [done EXCEPT ![req[r].op] = @ + 1] /\ done' \in [Ops -> Nat]
  BY CommitParts DEF DeleteRole
<1>2. RowsExist' /\ Unique'
  BY DEF DeleteRole, IInv, RowsExist, Unique
<1>3. Seasoned'
  <2>1. born' = born /\ role' \subseteq born' /\ perm' \subseteq born'
    BY DEF DeleteRole, IInv, Seasoned
  <2> QED
    BY <1>1, <2>1, SeasonedKeeps DEF GrantKinds
<1>4. Become(r, Idle)
  BY DEF DeleteRole, End
<1> QED
  BY <1>1, <1>2, <1>3, <1>4, WriteKeeps DEF DeleteRole, IInv, Shapes, logs

LEMMA DeletePermissionKeeps ==
  ASSUME IInv, NEW r \in Requests, DeletePermission(r) PROVE IInv'
<1>1. /\ req[r].op \in Ops /\ req[r].op.kind = "deletePermission"
      /\ done' = [done EXCEPT ![req[r].op] = @ + 1] /\ done' \in [Ops -> Nat]
  BY CommitParts DEF DeletePermission
<1>2. RowsExist' /\ Unique'
  BY DEF DeletePermission, IInv, RowsExist, Unique
<1>3. Seasoned'
  <2>1. born' = born /\ role' \subseteq born' /\ perm' \subseteq born'
    BY DEF DeletePermission, IInv, Seasoned
  <2> QED
    BY <1>1, <2>1, SeasonedKeeps DEF GrantKinds
<1>4. Become(r, Idle)
  BY DEF DeletePermission, End
<1> QED
  BY <1>1, <1>2, <1>3, <1>4, WriteKeeps DEF DeletePermission, IInv, Shapes, logs

LEMMA AssignPermissionKeeps ==
  ASSUME IInv, NEW r \in Requests, AssignPermission(r) PROVE IInv'
<1>1. /\ req[r].op \in Ops /\ req[r].op.role \in role /\ req[r].op.perm \in perm
      /\ req[r].op.role \in Roles /\ req[r].op.perm \in Perms
      /\ done' = [done EXCEPT ![req[r].op] = @ + 1] /\ done' \in [Ops -> Nat]
  BY CommitParts DEF AssignPermission, TableTakes
<1>2. RowsExist' /\ Unique'
  BY <1>1 DEF AssignPermission, IInv, RowsExist, Unique
<1>3. Seasoned'
  <2>1. born' = born /\ role' \subseteq born' /\ perm' \subseteq born'
    BY DEF AssignPermission, IInv, Seasoned
  <2> QED
    BY <1>1, <2>1, SeasonedKeeps
<1>4. Become(r, [req[r] EXCEPT !.pc = "holders"])
  BY DEF AssignPermission, Goto
<1> QED
  BY <1>1, <1>2, <1>3, <1>4, WriteKeeps DEF AssignPermission, IInv, Shapes, logs

LEMMA RevokePermissionKeeps ==
  ASSUME IInv, NEW r \in Requests, RevokePermission(r) PROVE IInv'
<1>1. /\ req[r].op \in Ops /\ <<req[r].op.role, req[r].op.perm>> \in grant
      /\ done' = [done EXCEPT ![req[r].op] = @ + 1] /\ done' \in [Ops -> Nat]
  BY CommitParts DEF RevokePermission, TableTakes
<1>2. RowsExist' /\ Unique'
  BY DEF RevokePermission, IInv, RowsExist, Unique
<1>3. Seasoned'
  <2>1. born' = born /\ role' \subseteq born' /\ perm' \subseteq born'
    BY DEF RevokePermission, IInv, Seasoned
  <2>2. req[r].op.role \in role /\ req[r].op.perm \in perm
    BY <1>1 DEF IInv, RowsExist
  <2> QED
    BY <1>1, <2>1, <2>2, SeasonedKeeps
<1>4. Become(r, [req[r] EXCEPT !.pc = "holders"])
  BY DEF RevokePermission, Goto
<1> QED
  BY <1>1, <1>2, <1>3, <1>4, WriteKeeps DEF RevokePermission, IInv, Shapes, logs

(* An audit row on its way is one more. *)
LEMMA SendParts ==
  ASSUME IInv, NEW r \in Requests, SendAudit(r)
  PROVE  writing' \in [Ops -> Nat] /\ audit' \in [Ops -> Nat]
BY DEF IInv, Shapes, Handlers, SendAudit

LEMMA AssignRoleKeeps ==
  ASSUME IInv, NEW r \in Requests, AssignRole(r) PROVE IInv'
<1>1. /\ req[r].op \in Ops /\ req[r].op.kind = "assignRole"
      /\ req[r].op.user \in user /\ req[r].op.role \in role
      /\ req[r].op.user \in Users /\ req[r].op.role \in Roles
      /\ done' = [done EXCEPT ![req[r].op] = @ + 1] /\ done' \in [Ops -> Nat]
  BY CommitParts DEF AssignRole, TableTakes
<1>2. RowsExist' /\ Unique'
  BY <1>1 DEF AssignRole, IInv, RowsExist, Unique
<1>3. Seasoned'
  <2>1. born' = born /\ role' \subseteq born' /\ perm' \subseteq born'
    BY DEF AssignRole, IInv, Seasoned
  <2> QED
    BY <1>1, <2>1, SeasonedKeeps DEF GrantKinds
<1>4. Become(r, Idle)
  BY DEF AssignRole, End
<1>5. writing' \in [Ops -> Nat] /\ audit' \in [Ops -> Nat]
  BY SendParts DEF AssignRole
<1>6. /\ user' \subseteq Users /\ role' \subseteq Roles /\ perm' \subseteq Perms
      /\ grant' \subseteq Roles \X Perms /\ member' \subseteq Users \X Roles
  BY <1>1 DEF AssignRole, IInv, Shapes
<1> QED
  BY <1>1, <1>2, <1>3, <1>4, <1>5, <1>6, WriteKeeps

LEMMA RevokeRoleKeeps ==
  ASSUME IInv, NEW r \in Requests, RevokeRole(r) PROVE IInv'
<1>1. /\ req[r].op \in Ops /\ req[r].op.kind = "revokeRole"
      /\ done' = [done EXCEPT ![req[r].op] = @ + 1] /\ done' \in [Ops -> Nat]
  BY CommitParts DEF RevokeRole
<1>2. RowsExist' /\ Unique'
  BY DEF RevokeRole, IInv, RowsExist, Unique
<1>3. Seasoned'
  <2>1. born' = born /\ role' \subseteq born' /\ perm' \subseteq born'
    BY DEF RevokeRole, IInv, Seasoned
  <2> QED
    BY <1>1, <2>1, SeasonedKeeps DEF GrantKinds
<1>4. Become(r, Idle)
  BY DEF RevokeRole, End
<1>5. writing' \in [Ops -> Nat] /\ audit' \in [Ops -> Nat]
  BY SendParts DEF RevokeRole
<1> QED
  BY <1>1, <1>2, <1>3, <1>4, <1>5, WriteKeeps DEF RevokeRole, IInv, Shapes

LEMMA HoldersKeeps ==
  ASSUME IInv, NEW r \in Requests, Holders(r) PROVE IInv'
<1>1. RowsExist' /\ Unique' /\ Seasoned'
  BY DEF Holders, tables, IInv, RowsExist, Unique, Seasoned
<1>2. Become(r, Idle)
  BY DEF Holders, End
<1>3. writing' \in [Ops -> Nat] /\ audit' \in [Ops -> Nat]
  BY SendParts DEF Holders
<1> QED
  BY <1>1, <1>2, <1>3, WriteKeeps DEF Holders, tables, IInv, Shapes

LEMMA WriteAuditKeeps ==
  ASSUME IInv, NEW o \in Ops, WriteAudit(o) PROVE IInv'
<1>1. Shapes'
  BY DEF WriteAudit, tables, IInv, Shapes
<1>2. RowsExist' /\ Unique' /\ Seasoned'
  BY DEF WriteAudit, tables, IInv, RowsExist, Unique, Seasoned
<1> QED
  BY <1>1, <1>2, StandKeeps DEF WriteAudit, tables, IInv

LEMMA DeleteAccountKeeps ==
  ASSUME IInv, NEW u \in Users, DeleteAccount(u) PROVE IInv'
<1>1. Shapes'
  BY DEF DeleteAccount, logs, IInv, Shapes
<1>2. RowsExist' /\ Unique' /\ Seasoned'
  BY DEF DeleteAccount, IInv, RowsExist, Unique, Seasoned
<1> QED
  BY <1>1, <1>2, StandKeeps DEF DeleteAccount, IInv

LEMMA StepIInv == IInv /\ [Next]_vars => IInv'
<1> SUFFICES ASSUME IInv, [Next]_vars PROVE IInv'
  OBVIOUS
<1>1. CASE UNCHANGED vars
  <2>1. Shapes' /\ RowsExist' /\ Unique' /\ Seasoned'
    BY <1>1 DEF vars, tables, logs, IInv, Shapes, RowsExist, Unique, Seasoned
  <2> QED
    BY <1>1, <2>1, StandKeeps DEF vars, tables, IInv
<1>2. ASSUME NEW r \in Requests, QuietStep(r) PROVE IInv'
  BY <1>2, QuietKeeps
<1> QED
  BY <1>1, <1>2, CreateRoleKeeps, CreatePermissionKeeps, DeleteRoleKeeps, DeletePermissionKeeps,
     AssignPermissionKeeps, RevokePermissionKeeps, AssignRoleKeeps, RevokeRoleKeeps, HoldersKeeps,
     WriteAuditKeeps, DeleteAccountKeeps DEF Next, QuietStep

LEMMA AlwaysIInv == Spec => []IInv
BY InitIInv, StepIInv, PTL DEF Spec

(* The tables keep their constraints under every interleaving of requests, *)
(* although the services check them in statements of their own. *)
THEOREM TypeCorrect == Spec => []TypeOK
<1>1. IInv => TypeOK
  <2> SUFFICES ASSUME IInv PROVE TypeOK
    OBVIOUS
  <2>1. grant \subseteq role \X perm /\ member \subseteq user \X role
    BY DEF IInv, Shapes, RowsExist
  <2>2. \A o \in Ops : {writing[o], audit[o], done[o]} \subseteq Nat
    BY DEF IInv, Shapes
  <2>3. ASSUME NEW r \in Requests
        PROVE  /\ req[r].pc \in Pcs /\ req[r].actor \in Users /\ req[r].op \in Ops
               /\ req[r].roles \subseteq req[r].held
    BY DEF IInv, Shapes, Handlers, Follows
  <2> QED
    BY <2>1, <2>2, <2>3 DEF IInv, Shapes, Unique, TypeOK, Pcs
<1> QED
  BY <1>1, AlwaysIInv, PTL

(* Who passes authorize does so by a role the user had, and a permission   *)
(* that role had, since the request began. *)
THEOREM AdmittedByRightsHeld == Spec => RightsWereHeld
<1> DEFINE Right(r) == req[r].pc = "permissions" /\ req'[r].pc \in {"find", "write"} =>
                         \E x \in req[r].held, p \in Perms :
                           <<x, p>> \in req[r].granted /\ Key[p] = Needs(req[r].op.kind)
<1>1. ASSUME IInv, Next, NEW r \in Requests,
             req[r].pc = "permissions", req'[r].pc \in {"find", "write"}
      PROVE  ReadPermissions(r)
  <2>1. ASSUME NEW q \in Requests, NEW h, Become(q, h), h.pc \notin {"find", "write"} PROVE FALSE
    BY <1>1, <2>1, BecomeParts DEF IInv
  <2>2. ASSUME NEW q \in Requests, q # r, NEW h, Become(q, h) PROVE FALSE
    BY <1>1, <2>2, BecomeParts DEF IInv
  <2>3. ASSUME NEW q \in Requests, End(q) PROVE FALSE
    BY <2>1, <2>3, IdleType DEF End
  <2>4. ASSUME NEW q \in Requests, q # r, NEW step, Goto(q, step) PROVE FALSE
    BY <2>2, <2>4 DEF Goto
  <2>5. ASSUME NEW q \in Requests, NEW u \in Users, NEW o \in Ops, Start(q, u, o) PROVE FALSE
    BY <1>1, <2>2, <2>5 DEF Start
  <2>6. ASSUME NEW q \in Requests, ReadRoles(q) PROVE FALSE
    BY <1>1, <2>2, <2>6 DEF ReadRoles
  <2>7. ASSUME NEW q \in Requests, Find(q) PROVE FALSE
    <3>1. q # r
      BY <1>1, <2>7 DEF Find
    <3> QED
      BY <2>3, <2>4, <2>7, <3>1 DEF Find
  <2>8. ASSUME NEW q \in Requests, q # r, ReadPermissions(q) PROVE FALSE
    BY <1>1, <2>2, <2>3, <2>8 DEF ReadPermissions, Admit
  <2>9. ASSUME NEW q \in Requests, AssignPermission(q) \/ RevokePermission(q) PROVE FALSE
    <3>1. q # r
      BY <1>1, <2>9 DEF AssignPermission, RevokePermission, Commits
    <3> QED
      BY <2>4, <2>9, <3>1 DEF AssignPermission, RevokePermission
  <2>10. ASSUME req' = req PROVE FALSE
    BY <1>1, <2>10
  <2> QED
    BY <1>1, <2>3, <2>5, <2>6, <2>7, <2>8, <2>9, <2>10
    DEF Next, Refused, CreateRole, CreatePermission, DeleteRole, DeletePermission, Holders,
        AssignRole, RevokeRole, Crash, WriteAudit, DeleteAccount
<1>2. ASSUME IInv, NEW r \in Requests, ReadPermissions(r), req'[r].pc \in {"find", "write"}
      PROVE  \E x \in req[r].held, p \in Perms :
               <<x, p>> \in req[r].granted /\ Key[p] = Needs(req[r].op.kind)
  <2>1. ~End(r)
    BY <1>2, BecomeParts, IdleType DEF End, IInv
  <2>2. Holds(r, Needs(req[r].op.kind)) /\ req[r].pc = "permissions"
    BY <1>2, <2>1 DEF ReadPermissions
  <2>3. PICK x \in req[r].roles, p \in perm : <<x, p>> \in grant /\ Key[p] = Needs(req[r].op.kind)
    BY <2>2 DEF Holds
  <2>4. req[r].roles \subseteq req[r].held /\ grant \subseteq req[r].granted /\ perm \subseteq Perms
    BY <1>2, <2>2 DEF IInv, Shapes, Follows
  <2> QED
    BY <2>3, <2>4
<1>3. IInv /\ [Next]_vars => [\A r \in Requests : Right(r)]_vars
  BY <1>1, <1>2
<1> QED
  BY <1>3, AlwaysIInv, PTL DEF Spec, RightsWereHeld

-----------------------------------------------------------------------------
(* Times, by what a step does to done. *)
LEMMA AsksOnce ==
  ASSUME NEW o \in Ops, o.kind \in GrantKinds, NEW q \in Asks(o.kind, o.role, o.perm)
  PROVE  q = o
BY AccessAssumption DEF Asks, GrantKinds

LEMMA TimesOf ==
  ASSUME NEW o \in Ops, o.kind \in GrantKinds
  PROVE  /\ Times(o.kind, o.role, o.perm) = done[o]
         /\ Times(o.kind, o.role, o.perm)' = done'[o]
<1>1. Asks(o.kind, o.role, o.perm) = {o}
  BY AsksOnce DEF Asks
<1>2. {o} # {} /\ (CHOOSE q \in {o} : TRUE) = o
  OBVIOUS
<1> QED
  BY <1>1, <1>2 DEF Times

LEMMA TimesSame ==
  ASSUME NEW kind, NEW x, NEW p,
         \A o \in Ops : o.kind = kind /\ o.role = x /\ o.perm = p => done'[o] = done[o]
  PROVE  Times(kind, x, p)' = Times(kind, x, p)
<1>1. CASE Asks(kind, x, p) = {}
  BY <1>1 DEF Times
<1>2. CASE Asks(kind, x, p) # {}
  <2>1. PICK o : o = CHOOSE q \in Asks(kind, x, p) : TRUE
    OBVIOUS
  <2>2. o \in Asks(kind, x, p)
    BY <1>2, <2>1
  <2>3. Times(kind, x, p) = done[o] /\ Times(kind, x, p)' = done'[o]
    BY <1>2, <2>1 DEF Times
  <2> QED
    BY <2>2, <2>3 DEF Asks
<1> QED
  BY <1>1, <1>2

LEMMA TimesNone ==
  ASSUME IInv, NEW kind \in GrantKinds, NEW x, NEW p, x \notin born \/ p \notin born
  PROVE  Times(kind, x, p) = 0
<1>1. CASE Asks(kind, x, p) # {}
  <2>1. PICK o : o = CHOOSE q \in Asks(kind, x, p) : TRUE
    OBVIOUS
  <2>2. o \in Ops /\ o.kind \in GrantKinds /\ ~(o.role \in born /\ o.perm \in born)
    BY <1>1, <2>1 DEF Asks
  <2> QED
    BY <1>1, <2>1, <2>2 DEF Times, IInv, Seasoned
<1> QED
  BY <1>1 DEF Times

LEMMA TimesType ==
  ASSUME IInv, NEW kind, NEW x, NEW p
  PROVE  Times(kind, x, p) \in Nat
<1>1. CASE Asks(kind, x, p) # {}
  <2>1. PICK o : o = CHOOSE q \in Asks(kind, x, p) : TRUE
    OBVIOUS
  <2>2. o \in Ops
    BY <1>1, <2>1 DEF Asks
  <2> QED
    BY <1>1, <2>1, <2>2 DEF Times, IInv, Shapes
<1> QED
  BY <1>1 DEF Times

Balanced(x, p) ==
  InTable(<<x, p>> \in Seeded.grant) + Times("assignPermission", x, p)
    = Times("revokePermission", x, p) + InTable(<<x, p>> \in grant)

(* Pairs whose members are new have no history; the others keep theirs     *)
(* when the step neither grants nor revokes them. *)
LEMMA BalanceKept ==
  ASSUME IInv, GrantsAccounted, NEW x \in role', NEW p \in perm',
         \A o \in Ops : o.kind \in GrantKinds /\ o.role = x /\ o.perm = p => done'[o] = done[o],
         \/ x \in role /\ p \in perm /\ (<<x, p>> \in grant' <=> <<x, p>> \in grant)
         \/ (x \notin born \/ p \notin born) /\ <<x, p>> \notin grant'
  PROVE  Balanced(x, p)'
<1>1. /\ Times("assignPermission", x, p)' = Times("assignPermission", x, p)
      /\ Times("revokePermission", x, p)' = Times("revokePermission", x, p)
  BY TimesSame DEF GrantKinds
<1>2. CASE x \in role /\ p \in perm /\ (<<x, p>> \in grant' <=> <<x, p>> \in grant)
  BY <1>1, <1>2 DEF GrantsAccounted, Balanced, InTable
<1>3. CASE (x \notin born \/ p \notin born) /\ <<x, p>> \notin grant'
  <2>1. Times("assignPermission", x, p) = 0 /\ Times("revokePermission", x, p) = 0
    BY <1>3, TimesNone DEF GrantKinds
  <2>2. <<x, p>> \notin Seeded.grant
    BY <1>3, AccessAssumption DEF IInv, Seasoned
  <2> QED
    BY <1>1, <1>3, <2>1, <2>2 DEF Balanced, InTable
<1> QED
  BY <1>2, <1>3

LEMMA NewPairs ==
  ASSUME IInv, NEW x, NEW p, <<x, p>> \in grant
  PROVE  x \in born /\ p \in born
BY DEF IInv, RowsExist, Seasoned

(* The pair an assignment or a revocation is about. *)
LEMMA AssignBalances ==
  ASSUME IInv, GrantsAccounted, NEW r \in Requests, AssignPermission(r),
         NEW o, o = req[r].op
  PROVE  Balanced(o.role, o.perm)'
<1>2. /\ o \in Ops /\ o.kind = "assignPermission" /\ o.role \in role /\ o.perm \in perm
      /\ <<o.role, o.perm>> \notin grant
      /\ done' = [done EXCEPT ![o] = @ + 1]
  BY CommitParts DEF AssignPermission, TableTakes
<1>3. <<o.role, o.perm>> \in grant'
  BY DEF AssignPermission
<1>4. Times("revokePermission", o.role, o.perm)' = Times("revokePermission", o.role, o.perm)
  <2>1. \A q \in Ops : q.kind = "revokePermission" /\ q.role = o.role /\ q.perm = o.perm => done'[q] = done[q]
    BY <1>2 DEF IInv, Shapes
  <2> QED
    BY <2>1, TimesSame
<1>5. /\ Times("assignPermission", o.role, o.perm) = done[o]
      /\ Times("assignPermission", o.role, o.perm)' = done[o] + 1
  <2>1. done'[o] = done[o] + 1
    BY <1>2 DEF IInv, Shapes
  <2> QED
    BY <1>2, <2>1, TimesOf DEF GrantKinds
<1>6. Balanced(o.role, o.perm)
  BY <1>2 DEF GrantsAccounted, Balanced
<1>7. done[o] \in Nat /\ Times("revokePermission", o.role, o.perm) \in Nat
  BY <1>2, TimesType DEF IInv, Shapes
<1> QED
  BY <1>2, <1>3, <1>4, <1>5, <1>6, <1>7 DEF Balanced, InTable

LEMMA RevokeBalances ==
  ASSUME IInv, GrantsAccounted, NEW r \in Requests, RevokePermission(r),
         NEW o, o = req[r].op
  PROVE  Balanced(o.role, o.perm)'
<1>2. /\ o \in Ops /\ o.kind = "revokePermission" /\ <<o.role, o.perm>> \in grant
      /\ done' = [done EXCEPT ![o] = @ + 1]
  BY CommitParts DEF RevokePermission, TableTakes
<1>3. <<o.role, o.perm>> \notin grant'
  BY DEF RevokePermission
<1>4. Times("assignPermission", o.role, o.perm)' = Times("assignPermission", o.role, o.perm)
  <2>1. \A q \in Ops : q.kind = "assignPermission" /\ q.role = o.role /\ q.perm = o.perm => done'[q] = done[q]
    BY <1>2 DEF IInv, Shapes
  <2> QED
    BY <2>1, TimesSame
<1>5. /\ Times("revokePermission", o.role, o.perm) = done[o]
      /\ Times("revokePermission", o.role, o.perm)' = done[o] + 1
  <2>1. done'[o] = done[o] + 1
    BY <1>2 DEF IInv, Shapes
  <2> QED
    BY <1>2, <2>1, TimesOf DEF GrantKinds
<1>6. Balanced(o.role, o.perm)
  <2>1. o.role \in role /\ o.perm \in perm
    BY <1>2 DEF IInv, RowsExist
  <2> QED
    BY <2>1 DEF GrantsAccounted, Balanced
<1>7. done[o] \in Nat /\ Times("assignPermission", o.role, o.perm) \in Nat
  BY <1>2, TimesType DEF IInv, Shapes
<1> QED
  BY <1>2, <1>3, <1>4, <1>5, <1>6, <1>7 DEF Balanced, InTable

LEMMA StepBalances == IInv /\ GrantsAccounted /\ [Next]_vars => GrantsAccounted'
<1> SUFFICES ASSUME IInv, GrantsAccounted, [Next]_vars, NEW x \in role', NEW p \in perm'
             PROVE  Balanced(x, p)'
  BY DEF GrantsAccounted, Balanced, InTable
<1>1. ASSUME done' = done, role' = role, perm' = perm, grant' = grant
      PROVE  Balanced(x, p)'
  BY <1>1, BalanceKept
<1>2. ASSUME NEW r \in Requests, NEW kind, kind \notin GrantKinds, Commits(r, kind)
      PROVE  \A o \in Ops : o.kind \in GrantKinds => done'[o] = done[o]
  BY <1>2, CommitParts DEF IInv, Shapes
<1>3. ASSUME NEW r \in Requests, CreateRole(r) PROVE Balanced(x, p)'
  <2>1. \A o \in Ops : o.kind \in GrantKinds => done'[o] = done[o]
    BY <1>2, <1>3 DEF CreateRole, GrantKinds
  <2>2. /\ grant' = grant /\ perm' = perm /\ role' = role \cup {req[r].op.role}
        /\ req[r].op.role \notin born
    BY <1>3 DEF CreateRole
  <2>3. CASE x \in role
    BY <2>1, <2>2, <2>3, BalanceKept
  <2>4. CASE x \notin role
    <3>1. x \notin born /\ <<x, p>> \notin grant'
      BY <2>2, <2>4, NewPairs
    <3> QED
      BY <2>1, <3>1, BalanceKept
  <2> QED
    BY <2>3, <2>4
<1>4. ASSUME NEW r \in Requests, CreatePermission(r) PROVE Balanced(x, p)'
  <2>1. \A o \in Ops : o.kind \in GrantKinds => done'[o] = done[o]
    BY <1>2, <1>4 DEF CreatePermission, GrantKinds
  <2>2. /\ grant' = grant /\ role' = role /\ perm' = perm \cup {req[r].op.perm}
        /\ req[r].op.perm \notin born
    BY <1>4 DEF CreatePermission
  <2>3. CASE p \in perm
    BY <2>1, <2>2, <2>3, BalanceKept
  <2>4. CASE p \notin perm
    <3>1. p \notin born /\ <<x, p>> \notin grant'
      BY <2>2, <2>4, NewPairs
    <3> QED
      BY <2>1, <3>1, BalanceKept
  <2> QED
    BY <2>3, <2>4
<1>5. ASSUME NEW r \in Requests, DeleteRole(r) PROVE Balanced(x, p)'
  <2>1. \A o \in Ops : o.kind \in GrantKinds => done'[o] = done[o]
    BY <1>2, <1>5 DEF DeleteRole, GrantKinds
  <2>2. x \in role /\ p \in perm /\ (<<x, p>> \in grant' <=> <<x, p>> \in grant)
    BY <1>5 DEF DeleteRole
  <2> QED
    BY <2>1, <2>2, BalanceKept
<1>6. ASSUME NEW r \in Requests, DeletePermission(r) PROVE Balanced(x, p)'
  <2>1. \A o \in Ops : o.kind \in GrantKinds => done'[o] = done[o]
    BY <1>2, <1>6 DEF DeletePermission, GrantKinds
  <2>2. x \in role /\ p \in perm /\ (<<x, p>> \in grant' <=> <<x, p>> \in grant)
    BY <1>6 DEF DeletePermission
  <2> QED
    BY <2>1, <2>2, BalanceKept
<1>7. ASSUME NEW r \in Requests, AssignPermission(r) \/ RevokePermission(r)
      PROVE  Balanced(x, p)'
  <2>1. PICK o : o = req[r].op
    OBVIOUS
  <2>2. CASE x = o.role /\ p = o.perm
    BY <1>7, <2>1, <2>2, AssignBalances, RevokeBalances
  <2>3. CASE ~(x = o.role /\ p = o.perm)
    <3>1. o \in Ops /\ done' = [done EXCEPT ![o] = @ + 1]
      BY <1>7, <2>1, CommitParts DEF AssignPermission, RevokePermission
    <3>2. \A q \in Ops : q.role = x /\ q.perm = p => done'[q] = done[q]
      BY <2>3, <3>1 DEF IInv, Shapes
    <3>3. role' = role /\ perm' = perm /\ (<<x, p>> \in grant' <=> <<x, p>> \in grant)
      BY <1>7, <2>1, <2>3 DEF AssignPermission, RevokePermission
    <3> QED
      BY <3>2, <3>3, BalanceKept
  <2> QED
    BY <2>2, <2>3
<1>8. ASSUME NEW r \in Requests, AssignRole(r) \/ RevokeRole(r) PROVE Balanced(x, p)'
  <2>1. \A o \in Ops : o.kind \in GrantKinds => done'[o] = done[o]
    BY <1>2, <1>8 DEF AssignRole, RevokeRole, GrantKinds
  <2>2. x \in role /\ p \in perm /\ grant' = grant
    BY <1>8 DEF AssignRole, RevokeRole
  <2> QED
    BY <2>1, <2>2, BalanceKept
<1>9. ASSUME NEW r \in Requests, QuietStep(r) PROVE Balanced(x, p)'
  BY <1>1, <1>9, QuietKeeps DEF tables
<1>10. ASSUME NEW r \in Requests, Holders(r) PROVE Balanced(x, p)'
  BY <1>1, <1>10 DEF Holders, tables
<1>11. ASSUME NEW o \in Ops, WriteAudit(o) PROVE Balanced(x, p)'
  BY <1>1, <1>11 DEF WriteAudit, tables
<1>12. ASSUME NEW u \in Users, DeleteAccount(u) PROVE Balanced(x, p)'
  BY <1>1, <1>12 DEF DeleteAccount
<1>13. CASE UNCHANGED vars
  BY <1>1, <1>13 DEF vars, tables
<1> QED
  BY <1>3, <1>4, <1>5, <1>6, <1>7, <1>8, <1>9, <1>10, <1>11, <1>12, <1>13 DEF Next, QuietStep

LEMMA InitBalances == Init => GrantsAccounted
<1> SUFFICES ASSUME Init, NEW x \in role, NEW p \in perm PROVE Balanced(x, p)
  BY DEF GrantsAccounted, Balanced
<1>1. ASSUME NEW kind PROVE Times(kind, x, p) = 0
  <2>1. CASE Asks(kind, x, p) # {}
    <3>1. PICK o : o = CHOOSE q \in Asks(kind, x, p) : TRUE
      OBVIOUS
    <3>2. o \in Ops
      BY <2>1, <3>1 DEF Asks
    <3> QED
      BY <2>1, <3>1, <3>2 DEF Times, Init
  <2> QED
    BY <2>1 DEF Times
<1> QED
  BY <1>1 DEF Init, Balanced, InTable

(* Each answer of success of assigning or revoking a permission stands for *)
(* one change of role_permissions. *)
THEOREM EveryGrantAccounted == Spec => []GrantsAccounted
BY InitBalances, StepBalances, AlwaysIInv, PTL DEF Spec

-----------------------------------------------------------------------------
(* The requests that committed a change and still have to send its row. *)
Waiting(o) == {r \in Requests : req[r].pc = "holders" /\ req[r].op = o}
Owed(o) == audit[o] + writing[o] + Cardinality(Waiting(o)) <= done[o]

LEMMA WaitingFinite ==
  ASSUME NEW o
  PROVE  /\ IsFiniteSet(Waiting(o)) /\ Cardinality(Waiting(o)) \in Nat
         /\ IsFiniteSet(Waiting(o)') /\ Cardinality(Waiting(o)') \in Nat
<1>1. Waiting(o) \subseteq Requests /\ Waiting(o)' \subseteq Requests
  BY DEF Waiting
<1> QED
  BY <1>1, AccessAssumption, FS_Subset, FS_CardinalityType

LEMMA FewerWait ==
  ASSUME NEW o, Waiting(o)' \subseteq Waiting(o)
  PROVE  Cardinality(Waiting(o)') <= Cardinality(Waiting(o))
BY WaitingFinite, FS_Subset

(* A request that goes on to anything else does not wait any more. *)
LEMMA OthersWait ==
  ASSUME IInv, NEW r \in Requests, NEW h, Become(r, h), h.pc # "holders", NEW o
  PROVE  Waiting(o)' = Waiting(o) \ {r}
BY BecomeParts DEF Waiting, IInv

(* A step that takes no request to holders owes no more than before. *)
LEMMA OwesNoMore ==
  ASSUME IInv, NEW o \in Ops, Owed(o), Waiting(o)' \subseteq Waiting(o),
         audit'[o] \in Nat, writing'[o] \in Nat, done'[o] \in Nat,
         audit'[o] + writing'[o] + done[o] <= audit[o] + writing[o] + done'[o]
  PROVE  Owed(o)'
<1>1. /\ Cardinality(Waiting(o)') \in Nat /\ Cardinality(Waiting(o)) \in Nat
      /\ Cardinality(Waiting(o)') <= Cardinality(Waiting(o))
  BY FewerWait, WaitingFinite
<1>2. audit[o] \in Nat /\ writing[o] \in Nat /\ done[o] \in Nat
  BY DEF IInv, Shapes
<1> QED
  BY <1>1, <1>2 DEF Owed

LEMMA QuietWait ==
  ASSUME IInv, NEW r \in Requests, QuietStep(r), NEW o
  PROVE  Waiting(o)' \subseteq Waiting(o)
<1>1. ASSUME NEW h, Become(r, h), h.pc # "holders" PROVE Waiting(o)' \subseteq Waiting(o)
  BY <1>1, OthersWait
<1>2. ASSUME End(r) PROVE Waiting(o)' \subseteq Waiting(o)
  BY <1>1, <1>2, IdleType DEF End
<1>3. ASSUME NEW u \in Users, NEW p \in Ops, Start(r, u, p) PROVE Waiting(o)' \subseteq Waiting(o)
  BY <1>1, <1>3, IdleType DEF Start, Handlers
<1>4. ASSUME ReadRoles(r) PROVE Waiting(o)' \subseteq Waiting(o)
  BY <1>1, <1>4 DEF ReadRoles, IInv, Shapes, Handlers
<1>5. ASSUME Admit(r) PROVE Waiting(o)' \subseteq Waiting(o)
  BY <1>1, <1>5, IdleType DEF Admit, Handlers
<1>6. ASSUME Find(r) PROVE Waiting(o)' \subseteq Waiting(o)
  <2>1. ASSUME Goto(r, "write") PROVE Waiting(o)' \subseteq Waiting(o)
    BY <1>1, <2>1 DEF Goto, IInv, Shapes, Handlers
  <2> QED
    BY <1>2, <1>6, <2>1 DEF Find
<1> QED
  BY <1>2, <1>3, <1>4, <1>5, <1>6 DEF QuietStep, ReadPermissions, Refused, Crash

(* A commit that goes on to holders owes the row it was counted for. *)
LEMMA HoldersOwe ==
  ASSUME IInv, NEW r \in Requests, AssignPermission(r) \/ RevokePermission(r),
         NEW o \in Ops, Owed(o)
  PROVE  Owed(o)'
<1>1. PICK p \in Ops : p = req[r].op
  BY DEF IInv, Shapes, Handlers
<1>2. req[r].pc = "write" /\ done' = [done EXCEPT ![p] = @ + 1] /\ UNCHANGED logs
  BY <1>1, CommitParts DEF AssignPermission, RevokePermission
<1>3. Become(r, [req[r] EXCEPT !.pc = "holders"])
  BY DEF AssignPermission, RevokePermission, Goto
<1>4. PICK h : h = [req[r] EXCEPT !.pc = "holders"]
  OBVIOUS
<1>5. h.pc = "holders" /\ h.op = p
  BY <1>1, <1>4 DEF IInv, Shapes, Handlers
<1>6. /\ req'[r].pc = "holders" /\ req'[r].op = p
      /\ \A q \in Requests \ {r} : req'[q].pc = req[q].pc /\ req'[q].op = req[q].op
  <2>1. Shapes /\ Become(r, h)
    BY <1>3, <1>4 DEF IInv
  <2> QED
    BY <1>5, <2>1, BecomeParts
<1>7. audit[o] \in Nat /\ writing[o] \in Nat /\ done[o] \in Nat
  BY DEF IInv, Shapes
<1>8. CASE o # p
  <2>1. Waiting(o)' = Waiting(o)
    BY <1>2, <1>6, <1>8 DEF Waiting
  <2>2. done'[o] = done[o]
    BY <1>2, <1>8 DEF IInv, Shapes
  <2> QED
    BY <1>2, <2>1, <2>2 DEF Owed, logs
<1>9. CASE o = p
  <2>1. Waiting(o)' = Waiting(o) \cup {r} /\ r \notin Waiting(o)
    BY <1>2, <1>6, <1>9 DEF Waiting
  <2>2. Cardinality(Waiting(o)') = Cardinality(Waiting(o)) + 1
    BY <2>1, WaitingFinite, FS_AddElement
  <2>3. done'[o] = done[o] + 1
    BY <1>2, <1>9 DEF IInv, Shapes
  <2> QED
    BY <1>2, <1>7, <2>2, <2>3, WaitingFinite DEF Owed, logs
<1> QED
  BY <1>8, <1>9

(* The request sends the row it owes. *)
LEMMA SendsOwed ==
  ASSUME IInv, NEW r \in Requests, Holders(r), NEW o \in Ops, Owed(o)
  PROVE  Owed(o)'
<1>1. PICK p \in Ops : p = req[r].op
  BY DEF IInv, Shapes, Handlers
<1>2. req[r].pc = "holders" /\ writing' = [writing EXCEPT ![p] = @ + 1] /\ audit' = audit /\ done' = done
  BY <1>1 DEF Holders, SendAudit
<1>3. Waiting(o)' = Waiting(o) \ {r}
  BY IdleType, OthersWait DEF Holders, End
<1>4. audit[o] \in Nat /\ writing[o] \in Nat /\ done[o] \in Nat
  BY DEF IInv, Shapes
<1>5. CASE o # p
  <2>1. writing'[o] = writing[o]
    BY <1>2, <1>5 DEF IInv, Shapes
  <2> QED
    BY <1>2, <1>3, <1>4, <2>1, OwesNoMore
<1>6. CASE o = p
  <2>1. r \in Waiting(o)
    BY <1>1, <1>2, <1>6 DEF Waiting
  <2>2. Cardinality(Waiting(o)') = Cardinality(Waiting(o)) - 1
    BY <1>3, <2>1, WaitingFinite, FS_RemoveElement
  <2>3. writing'[o] = writing[o] + 1
    BY <1>2, <1>6 DEF IInv, Shapes
  <2> QED
    BY <1>2, <1>4, <2>2, <2>3, WaitingFinite DEF Owed
<1> QED
  BY <1>5, <1>6

LEMMA StepOwed == IInv /\ AuditNeverInvents /\ [Next]_vars => AuditNeverInvents'
<1> SUFFICES ASSUME IInv, AuditNeverInvents, [Next]_vars, NEW o \in Ops PROVE Owed(o)'
  BY DEF AuditNeverInvents, Owed, Waiting
<1>1. Owed(o)
  BY DEF AuditNeverInvents, Owed, Waiting
<1>2. audit[o] \in Nat /\ writing[o] \in Nat /\ done[o] \in Nat
  BY DEF IInv, Shapes
<1>3. ASSUME UNCHANGED <<logs, done>>, Waiting(o)' \subseteq Waiting(o) PROVE Owed(o)'
  BY <1>1, <1>2, <1>3, OwesNoMore DEF logs
<1>4. ASSUME NEW r \in Requests, QuietStep(r) PROVE Owed(o)'
  BY <1>3, <1>4, QuietKeeps, QuietWait
<1>5. ASSUME NEW r \in Requests, End(r) PROVE Waiting(o)' \subseteq Waiting(o)
  BY <1>5, IdleType, OthersWait DEF End
<1>6. ASSUME NEW r \in Requests, NEW kind, Commits(r, kind), UNCHANGED logs, End(r) PROVE Owed(o)'
  <2>1. done'[o] \in {done[o], done[o] + 1}
    BY <1>6, CommitParts DEF IInv, Shapes
  <2> QED
    BY <1>1, <1>2, <1>5, <1>6, <2>1, OwesNoMore DEF logs
<1>7. ASSUME NEW r \in Requests, NEW kind, Commits(r, kind), SendAudit(r), End(r) PROVE Owed(o)'
  <2>1. PICK p \in Ops : p = req[r].op
    BY DEF IInv, Shapes, Handlers
  <2>2. /\ done' = [done EXCEPT ![p] = @ + 1] /\ writing' = [writing EXCEPT ![p] = @ + 1]
        /\ audit' = audit
    BY <1>7, <2>1, CommitParts DEF SendAudit
  <2>3. \/ done'[o] = done[o] /\ writing'[o] = writing[o]
        \/ done'[o] = done[o] + 1 /\ writing'[o] = writing[o] + 1
    BY <2>2 DEF IInv, Shapes
  <2> QED
    BY <1>1, <1>2, <1>5, <1>7, <2>2, <2>3, OwesNoMore
<1>8. ASSUME NEW r \in Requests,
             \/ CreateRole(r) \/ CreatePermission(r) \/ DeleteRole(r) \/ DeletePermission(r)
             \/ AssignRole(r) \/ RevokeRole(r)
      PROVE  Owed(o)'
  BY <1>6, <1>7, <1>8
  DEF CreateRole, CreatePermission, DeleteRole, DeletePermission, AssignRole, RevokeRole
<1>9. ASSUME NEW r \in Requests, AssignPermission(r) \/ RevokePermission(r) \/ Holders(r)
      PROVE  Owed(o)'
  BY <1>1, <1>9, HoldersOwe, SendsOwed
<1>10. ASSUME NEW p \in Ops, WriteAudit(p) PROVE Owed(o)'
  <2>1. /\ writing[p] > 0 /\ writing' = [writing EXCEPT ![p] = @ - 1] /\ done' = done
        /\ audit' = [audit EXCEPT ![p] = @ + 1] \/ audit' = audit
    BY <1>10 DEF WriteAudit
  <2>2. audit'[o] \in Nat /\ writing'[o] \in Nat /\ audit'[o] + writing'[o] <= audit[o] + writing[o]
    BY <1>2, <2>1 DEF IInv, Shapes
  <2>3. Waiting(o)' = Waiting(o)
    BY <1>10 DEF WriteAudit, Waiting
  <2> QED
    BY <1>1, <1>2, <2>1, <2>2, <2>3, OwesNoMore
<1>11. ASSUME NEW u \in Users, DeleteAccount(u) PROVE Owed(o)'
  BY <1>3, <1>11 DEF DeleteAccount, Waiting
<1>12. CASE UNCHANGED vars
  BY <1>3, <1>12 DEF vars, Waiting
<1> QED
  BY <1>4, <1>8, <1>9, <1>10, <1>11, <1>12 DEF Next, QuietStep

LEMMA InitOwed == Init => AuditNeverInvents
<1> SUFFICES ASSUME Init, NEW o \in Ops PROVE Owed(o)
  BY DEF AuditNeverInvents, Owed, Waiting
<1>1. Waiting(o) = {}
  BY IdleType DEF Init, Waiting
<1> QED
  BY <1>1, FS_EmptySet DEF Init, Owed

(* The audit log never tells of a change that was not committed. *)
THEOREM AuditIsTrue == Spec => []AuditNeverInvents
BY InitOwed, StepOwed, AlwaysIInv, PTL DEF Spec
=============================================================================
