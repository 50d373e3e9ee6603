---------------------------- MODULE AccessControl ----------------------------
(***************************************************************************)
(* Roles and permissions: the administrative requests of roles.service,    *)
(* each behind requireAuth and authorize, which rest on a context that     *)
(* loadUserContext reads in several statements, and the audit rows the     *)
(* requests leave without waiting for them.  Each action is one statement  *)
(* with the synchronous code around it.                                    *)
(*                                                                         *)
(* A role or permission row is named by its id; ids never come back, and   *)
(* RoleName and Key give the unique name a row has.  A row that vanishes   *)
(* between two statements of one nested read is an error of Prisma, hence  *)
(* a Crash.                                                                *)
(***************************************************************************)
EXTENDS Naturals, FiniteSetsExt

CONSTANTS Users, Roles, Perms,
          RoleName, Key,   \* RoleName[x], Key[p]: the unique name of a row
          Ops,             \* the requests made: [kind, role, perm, user]
          Seeded,          \* the tables after the seed: [role, perm, grant, member]
          Requests,        \* slots for concurrently running requests
          MaxChanges       \* bound: changes committed through requests

Kinds == {"createRole", "deleteRole", "createPermission", "deletePermission",
          "assignPermission", "revokePermission", "assignRole", "revokeRole"}

(* roles.routes: the key authorize asks for, by kind of request. *)
Needs(kind) ==
  CASE kind = "createRole" -> "roles.create"
    [] kind = "deleteRole" -> "roles.delete"
    [] kind \in {"assignPermission", "revokePermission"} -> "roles.update"
    [] kind \in {"assignRole", "revokeRole"} -> "roles.assign"
    [] kind = "createPermission" -> "permissions.create"
    [] kind = "deletePermission" -> "permissions.delete"

ASSUME AccessAssumption ==
  /\ Ops # {} /\ Users # {}
  /\ Ops \subseteq [kind: Kinds, role: Roles, perm: Perms, user: Users]
  /\ DOMAIN RoleName = Roles /\ DOMAIN Key = Perms
  /\ \A o, q \in Ops :        \* these two kinds name no user
       /\ o.kind \in {"assignPermission", "revokePermission"}
       /\ o.kind = q.kind /\ o.role = q.role /\ o.perm = q.perm
       => o = q
  /\ Seeded \in [role: SUBSET Roles, perm: SUBSET Perms,
                 grant: SUBSET (Roles \X Perms), member: SUBSET (Users \X Roles)]
  /\ Seeded.grant \subseteq Seeded.role \X Seeded.perm
  /\ Seeded.member \subseteq Users \X Seeded.role
  /\ \A x, y \in Seeded.role : RoleName[x] = RoleName[y] => x = y
  /\ \A p, q \in Seeded.perm : Key[p] = Key[q] => p = q
  /\ IsFiniteSet(Requests) /\ MaxChanges \in Nat

VARIABLES
  user,      \* users rows; no code clears isActive, so all are active
  role,      \* roles rows
  perm,      \* permissions rows
  grant,     \* role_permissions: pairs of role and permission
  member,    \* user_roles: pairs of user and role
  born,      \* role and permission ids ever used
  writing,   \* writing[o]: audit rows on their way
  audit,     \* audit[o]: audit_logs rows
  done,      \* history: done[o], how often o was committed
  req        \* req[r]: the request in slot r

tables == <<user, role, perm, grant, member, born>>
logs == <<writing, audit>>
vars == <<tables, logs, done, req>>

(* held and granted are history: the user_roles of the actor, and the      *)
(* role_permissions, that existed at some time since the request started.  *)
Idle == [pc |-> "idle", actor |-> CHOOSE u \in Users : TRUE,
         op |-> CHOOSE o \in Ops : TRUE, roles |-> {}, held |-> {}, granted |-> {}]

RolesOf(u) == {x \in Roles : <<u, x>> \in member}

(* The histories of the other requests follow every change of the tables. *)
Become(r, h) ==
  req' = [q \in Requests |->
            IF q = r THEN h
            ELSE IF req[q].pc \in {"roles", "permissions"}
            THEN [req[q] EXCEPT !.held = @ \cup {x \in Roles : <<req[q].actor, x>> \in member'},
                                !.granted = @ \cup grant']
            ELSE req[q]]
Goto(r, step) == Become(r, [req[r] EXCEPT !.pc = step])
End(r) == Become(r, Idle)

Init ==
  /\ user = Users
  /\ role = Seeded.role /\ perm = Seeded.perm
  /\ grant = Seeded.grant /\ member = Seeded.member
  /\ born = Seeded.role \cup Seeded.perm
  /\ writing = [o \in Ops |-> 0] /\ audit = [o \in Ops |-> 0] /\ done = [o \in Ops |-> 0]
  /\ req = [r \in Requests |-> Idle]

-----------------------------------------------------------------------------
(* requireAuth and loadUserContext: the users row of the token's subject,  *)
Start(r, u, o) ==
  /\ req[r].pc = "idle"
  /\ u \in user
  /\ UNCHANGED <<tables, logs, done>>
  /\ Become(r, [Idle EXCEPT !.pc = "roles", !.actor = u, !.op = o,
                            !.held = RolesOf(u), !.granted = grant])

(* the roles the user has when they are read,                              *)
ReadRoles(r) ==
  /\ req[r].pc = "roles"
  /\ UNCHANGED <<tables, logs, done>>
  /\ Become(r, [req[r] EXCEPT !.pc = "permissions", !.roles = RolesOf(req[r].actor)])

(* and the permissions those roles have when they are read; authorize      *)
(* follows without a pause.  A revocation has nothing to look up first.    *)
Holds(r, key) == \E x \in req[r].roles, p \in perm : <<x, p>> \in grant /\ Key[p] = key

Admit(r) ==
  Become(r, [Idle EXCEPT !.actor = req[r].actor, !.op = req[r].op,
               !.pc = IF req[r].op.kind \in {"revokePermission", "revokeRole"}
                      THEN "write" ELSE "find"])

(* Mutant: authorize is given the context before the permissions are known. *)
ReadPermissionsAdmitsAll(r) ==
  /\ req[r].pc = "permissions"
  /\ UNCHANGED <<tables, logs, done>>
  /\ Admit(r)

ReadPermissions(r) ==
  /\ req[r].pc = "permissions"
  /\ UNCHANGED <<tables, logs, done>>
  /\ IF Holds(r, Needs(req[r].op.kind)) THEN Admit(r) ELSE End(r)

-----------------------------------------------------------------------------
NameTaken(x) == \E y \in role : RoleName[y] = RoleName[x]
KeyTaken(p) == \E q \in perm : Key[q] = Key[p]
RoleFound(x) == x \in role
PermissionFound(p) == p \in perm

(* The look-up of the services: 409 for a name or key in use, 404 for a    *)
(* missing role or permission.  assignPermissionToRole looks up both at    *)
(* once; rows do not come back, so which is first only shows in the answer. *)
LooksRight(o) ==
  CASE o.kind = "createRole" -> ~NameTaken(o.role)
    [] o.kind = "createPermission" -> ~KeyTaken(o.perm)
    [] o.kind = "deletePermission" -> PermissionFound(o.perm)
    [] o.kind = "assignPermission" -> RoleFound(o.role) /\ PermissionFound(o.perm)
    [] o.kind \in {"deleteRole", "assignRole"} -> RoleFound(o.role)

Find(r) ==
  /\ req[r].pc = "find"
  /\ UNCHANGED <<tables, logs, done>>
  /\ IF LooksRight(req[r].op) THEN Goto(r, "write") ELSE End(r)

(* What the constraints of the tables say of the statement that follows.   *)
TableTakes(o) ==
  CASE o.kind = "createRole" -> ~NameTaken(o.role)
    [] o.kind = "createPermission" -> ~KeyTaken(o.perm)
    [] o.kind = "deleteRole" -> o.role \in role
    [] o.kind = "deletePermission" -> o.perm \in perm
    [] o.kind = "assignPermission" -> o.role \in role /\ o.perm \in perm /\ <<o.role, o.perm>> \notin grant
    [] o.kind = "revokePermission" -> <<o.role, o.perm>> \in grant
    [] o.kind = "assignRole" -> o.user \in user /\ o.role \in role /\ <<o.user, o.role>> \notin member
    [] o.kind = "revokeRole" -> <<o.user, o.role>> \in member

(* writeAuditLog without await: the row is on its way, the answer is sent. *)
SendAudit(r) == writing' = [writing EXCEPT ![req[r].op] = @ + 1] /\ UNCHANGED audit

(* Mutant: the error of the insert is swallowed, the audit row is sent. *)
RefusedButAudited(r) ==
  /\ req[r].pc = "write"
  /\ ~TableTakes(req[r].op)
  /\ SendAudit(r)
  /\ UNCHANGED <<tables, done>>
  /\ End(r)

(* P2002, P2003 or P2025: 409, 404 or 500, and nothing is changed. *)
Refused(r) ==
  /\ req[r].pc = "write"
  /\ ~TableTakes(req[r].op)
  /\ UNCHANGED <<tables, logs, done>>
  /\ End(r)

Changes == MapThenSumSet(LAMBDA o : done[o], Ops)

(* The common part of the statements that succeed. *)
Commits(r, kind) ==
  /\ req[r].pc = "write"
  /\ req[r].op.kind = kind
  /\ TableTakes(req[r].op)
  /\ Changes < MaxChanges
  /\ done' = [done EXCEPT ![req[r].op] = @ + 1]

CreateRole(r) ==
  LET x == req[r].op.role IN
  /\ Commits(r, "createRole")
  /\ x \notin born
  /\ role' = role \cup {x} /\ born' = born \cup {x}
  /\ UNCHANGED <<user, perm, grant, member, logs>>
  /\ End(r)

CreatePermission(r) ==
  LET p == req[r].op.perm IN
  /\ Commits(r, "createPermission")
  /\ p \notin born
  /\ perm' = perm \cup {p} /\ born' = born \cup {p}
  /\ UNCHANGED <<user, role, grant, member, logs>>
  /\ End(r)

(* Mutant: user_roles does not cascade with its role. *)
DeleteRoleKeepsMembers(r) ==
  LET x == req[r].op.role IN
  /\ Commits(r, "deleteRole")
  /\ role' = role \ {x}
  /\ grant' = {g \in grant : g[1] # x}
  /\ UNCHANGED <<user, perm, member, born, logs>>
  /\ End(r)

(* The rows that refer to a deleted one go with it. *)
DeleteRole(r) ==
  LET x == req[r].op.role IN
  /\ Commits(r, "deleteRole")
  /\ role' = role \ {x}
  /\ grant' = {g \in grant : g[1] # x}
  /\ member' = {m \in member : m[2] # x}
  /\ UNCHANGED <<user, perm, born, logs>>
  /\ End(r)

DeletePermission(r) ==
  LET p == req[r].op.perm IN
  /\ Commits(r, "deletePermission")
  /\ perm' = perm \ {p}
  /\ grant' = {g \in grant : g[2] # p}
  /\ UNCHANGED <<user, role, member, born, logs>>
  /\ End(r)

(* Permissions of a role: findUserIdsByRoleId is still to come, for a      *)
(* cache that is switched off, before the audit row is sent.               *)
AssignPermission(r) ==
  /\ Commits(r, "assignPermission")
  /\ grant' = grant \cup {<<req[r].op.role, req[r].op.perm>>}
  /\ UNCHANGED <<user, role, perm, member, born, logs>>
  /\ Goto(r, "holders")

(* Mutant: a revocation that finds nothing to delete counts as done. *)
RevokePermissionBlind(r) ==
  /\ req[r].pc = "write" /\ req[r].op.kind = "revokePermission"
  /\ Changes < MaxChanges
  /\ done' = [done EXCEPT ![req[r].op] = @ + 1]
  /\ grant' = grant \ {<<req[r].op.role, req[r].op.perm>>}
  /\ UNCHANGED <<user, role, perm, member, born, logs>>
  /\ Goto(r, "holders")

RevokePermission(r) ==
  /\ Commits(r, "revokePermission")
  /\ grant' = grant \ {<<req[r].op.role, req[r].op.perm>>}
  /\ UNCHANGED <<user, role, perm, member, born, logs>>
  /\ Goto(r, "holders")

Holders(r) ==
  /\ req[r].pc = "holders"
  /\ SendAudit(r)
  /\ UNCHANGED <<tables, done>>
  /\ End(r)

AssignRole(r) ==
  /\ Commits(r, "assignRole")
  /\ member' = member \cup {<<req[r].op.user, req[r].op.role>>}
  /\ SendAudit(r)
  /\ UNCHANGED <<user, role, perm, grant, born>>
  /\ End(r)

RevokeRole(r) ==
  /\ Commits(r, "revokeRole")
  /\ member' = member \ {<<req[r].op.user, req[r].op.role>>}
  /\ SendAudit(r)
  /\ UNCHANGED <<user, role, perm, grant, born>>
  /\ End(r)

-----------------------------------------------------------------------------
(* auditLog.create of an unawaited call; a failure is only logged. *)
WriteAudit(o) ==
  /\ writing[o] > 0
  /\ writing' = [writing EXCEPT ![o] = @ - 1]
  /\ \/ audit' = [audit EXCEPT ![o] = @ + 1]
     \/ UNCHANGED audit
  /\ UNCHANGED <<tables, done, req>>

(* deleteAccount: user_roles go with the users row. *)
DeleteAccount(u) ==
  /\ u \in user
  /\ user' = user \ {u}
  /\ member' = {m \in member : m[1] # u}
  /\ UNCHANGED <<role, perm, grant, born, logs, done, req>>

(* A handler dies with its process, its connection or a throwing call. *)
Crash(r) ==
  /\ req[r].pc # "idle"
  /\ UNCHANGED <<tables, logs, done>>
  /\ End(r)

Next ==
  \/ \E r \in Requests :
       \/ \E u \in Users, o \in Ops : Start(r, u, o)
       \/ ReadRoles(r) \/ ReadPermissions(r) \/ Find(r) \/ Refused(r)
       \/ CreateRole(r) \/ CreatePermission(r) \/ DeleteRole(r) \/ DeletePermission(r)
       \/ AssignPermission(r) \/ RevokePermission(r) \/ Holders(r)
       \/ AssignRole(r) \/ RevokeRole(r)
       \/ Crash(r)
  \/ \E o \in Ops : WriteAudit(o)
  \/ \E u \in Users : DeleteAccount(u)

Spec == Init /\ [][Next]_vars

-----------------------------------------------------------------------------
(* The tables are well-typed; names and keys are unique among the rows,    *)
(* and every pair of role_permissions and user_roles refers to rows, though *)
(* the look-ups are made in other statements than the writes.              *)
TypeOK ==
  /\ user \subseteq Users /\ role \subseteq Roles /\ perm \subseteq Perms
  /\ grant \subseteq role \X perm /\ member \subseteq user \X role
  /\ \A x, y \in role : RoleName[x] = RoleName[y] => x = y
  /\ \A p, q \in perm : Key[p] = Key[q] => p = q
  /\ \A o \in Ops : {writing[o], audit[o], done[o]} \subseteq Nat
  /\ \A r \in Requests :
       /\ req[r].pc \in {"idle", "roles", "permissions", "find", "write", "holders"}
       /\ req[r].actor \in Users /\ req[r].op \in Ops /\ req[r].roles \subseteq req[r].held

(* A request passes requireAuth and authorize only by a role its user had, *)
(* and a permission that role had, at some time since the request began:   *)
(* what was revoked before is never used, although the context is read in  *)
(* several statements and other requests change it in between.             *)
RightsWereHeld ==
  [][\A r \in Requests :
       req[r].pc = "permissions" /\ req'[r].pc \in {"find", "write"} =>
         \E x \in req[r].held, p \in Perms :
           <<x, p>> \in req[r].granted /\ Key[p] = Needs(req[r].op.kind)]_vars

(* How often a permission was assigned to, or revoked from, a role: at     *)
(* most one of Ops asks for that.                                          *)
Asks(kind, x, p) == {o \in Ops : o.kind = kind /\ o.role = x /\ o.perm = p}
Times(kind, x, p) ==
  IF Asks(kind, x, p) = {} THEN 0 ELSE done[CHOOSE o \in Asks(kind, x, p) : TRUE]
InTable(b) == IF b THEN 1 ELSE 0

(* Each answer of success of assignPermissionToRole and                    *)
(* revokePermissionFromRole stands for one change of the table: a pair is  *)
(* there exactly when it was assigned once more than revoked, as long as   *)
(* its role and its permission exist.  Overlapping requests for one pair   *)
(* never both succeed.                                                     *)
GrantsAccounted ==
  \A x \in role, p \in perm :
    InTable(<<x, p>> \in Seeded.grant) + Times("assignPermission", x, p)
      = Times("revokePermission", x, p) + InTable(<<x, p>> \in grant)

(* The audit log never tells of a change that was not committed, whatever  *)
(* is refused, overlaps or dies; it may miss one.                          *)
AuditNeverInvents ==
  \A o \in Ops :
    audit[o] + writing[o]
      + Cardinality({r \in Requests : req[r].pc = "holders" /\ req[r].op = o}) <= done[o]
=============================================================================
