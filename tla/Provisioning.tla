---------------------------- MODULE Provisioning ----------------------------
(***************************************************************************)
(* Where accounts get their roles from: the seed (prisma/seed.ts), which   *)
(* may die anywhere and be run again, register and a first social login,   *)
(* which look a role up by name and grant it by id later, and the          *)
(* administrators who change the same tables meanwhile.  Each action is    *)
(* one database call with the code around it; a $transaction is one        *)
(* action.                                                                 *)
(*                                                                         *)
(* A role or permission is named by its unique name; its id is how often a *)
(* row of that name was made, since ids never come back.                   *)
(***************************************************************************)
EXTENDS Naturals, Sequences, FiniteSets

CONSTANTS Roles, Keys,       \* names of roles, keys of permissions
          RolePermissions,   \* ROLE_PERMISSIONS: what the seed grants to whom
          RoleOrder,         \* and in which order
          Default, Super,    \* "user" and "super_admin"
          Emails, SuperEmail,
          RoleChoices,           \* the sets of roles that register may ask for
          Requests,
          MaxIds,            \* bound: rows ever made of one name
          MaxUsers,          \* bound: users rows ever made
          MaxStamp,          \* bound: values of createdAt
          MaxChanges         \* bound: changes by administrators and owners

Names == Roles \cup Keys
Seeded == DOMAIN RolePermissions

ASSUME ProvisioningAssumption ==
  /\ Roles \cap Keys = {} /\ SuperEmail \in Emails
  /\ {Default, Super} \subseteq Seeded /\ Seeded \subseteq Roles
  /\ RolePermissions \in [Seeded -> (SUBSET Keys) \ {{}}] /\ Keys # {}
  /\ RoleOrder \in Seq(Seeded)
  /\ {RoleOrder[i] : i \in DOMAIN RoleOrder} = Seeded
  /\ RoleChoices \subseteq (SUBSET Roles) \ {{}}
  /\ {MaxIds, MaxUsers, MaxStamp, MaxChanges} \subseteq Nat

None == 0
Uids == 1 .. MaxUsers

VARIABLES
  row,       \* row[x]: the id of the role or permission x, None without one
  ids,       \* ids[x]: how many rows of that name were made
  grant,     \* role_permissions: pairs of role and permission
  user,      \* ids of the users rows
  made,      \* users rows ever made
  email,     \* email[u]
  stamp,     \* stamp[u]: createdAt
  member,    \* user_roles: pairs of user and role
  seed,      \* the process that runs the seed
  stripped,  \* history: accounts that lost a role to a deletion or revocation
  changes,   \* history: changes by administrators and owners
  req        \* req[r]: the registration or first social login in slot r

users == <<user, made, email, stamp>>
tables == <<row, ids, grant, users, member>>
history == <<stripped, changes>>
provVars == <<tables, seed, history, req>>

UserOf(e) == {u \in user : email[u] = e}
RolesOf(u) == {n \in Roles : <<u, n>> \in member}

NoIds == [x \in Names |-> None]
NoSeed == [pc |-> "idle", at |-> 1, todo |-> {}, found |-> NoIds, admin |-> None,
           clean |-> TRUE]
Idle == [pc |-> "idle", kind |-> "none", email |-> SuperEmail, names |-> {},
         found |-> NoIds]

ProvInit ==
  /\ row = NoIds /\ ids = NoIds /\ grant = {} /\ member = {}
  /\ user = {} /\ made = 0
  /\ email = [u \in Uids |-> SuperEmail] /\ stamp = [u \in Uids |-> 0]
  /\ seed = NoSeed
  /\ stripped = {} /\ changes = 0
  /\ req = [r \in Requests |-> Idle]

Become(r, h) == req' = [req EXCEPT ![r] = h]
End(r) == Become(r, Idle)

(* The name and key of a role or permission are unique. *)
MakeRow(x) ==
  /\ row[x] = None /\ ids[x] < MaxIds
  /\ row' = [row EXCEPT ![x] = ids[x] + 1]
  /\ ids' = [ids EXCEPT ![x] = @ + 1]

(* createdAt is the time a statement or transaction began, not the order   *)
(* of the commits, and in milliseconds: accounts may share it.             *)
MakeUser(e) ==
  /\ UserOf(e) = {} /\ made < MaxUsers
  /\ made' = made + 1
  /\ user' = user \cup {made + 1}
  /\ email' = [email EXCEPT ![made + 1] = e]
  /\ \E t \in 1 .. MaxStamp : stamp' = [stamp EXCEPT ![made + 1] = t]

-----------------------------------------------------------------------------
(* The seed, run by hand or by a deployment, and again after it failed.    *)
StartSeed ==
  /\ seed.pc \in {"idle", "done"}
  /\ seed' = [NoSeed EXCEPT !.pc = "permissions", !.todo = Keys]
  /\ UNCHANGED <<tables, history, req>>

(* upsert with an empty update: the row of that name, made if need be. *)
Upsert(x) == MakeRow(x) \/ (row[x] # None /\ UNCHANGED <<row, ids>>)

(* The permissions are sent all at once, *)
UpsertPermission(k) ==
  /\ seed.pc = "permissions" /\ k \in seed.todo
  /\ Upsert(k)
  /\ seed' = [seed EXCEPT !.todo = @ \ {k}, !.found[k] = row'[k],
                          !.pc = IF seed.todo = {k} THEN "role" ELSE @]
  /\ UNCHANGED <<grant, users, member, history, req>>

AfterGrants == IF seed.at = Len(RoleOrder)
               THEN [seed EXCEPT !.pc = "admin", !.todo = {}]
               ELSE [seed EXCEPT !.pc = "role", !.todo = {}, !.at = @ + 1]

(* Mutant: only a role that was just made gets its permissions. *)
UpsertRoleOnce ==
  LET n == RoleOrder[seed.at] IN
  /\ seed.pc = "role"
  /\ Upsert(n)
  /\ seed' = IF row[n] = None
             THEN [seed EXCEPT !.pc = "grants", !.found[n] = row'[n], !.todo = RolePermissions[n]]
             ELSE [AfterGrants EXCEPT !.found[n] = row[n]]
  /\ UNCHANGED <<grant, users, member, history, req>>

(* then role by role: the role, *)
UpsertRole ==
  LET n == RoleOrder[seed.at] IN
  /\ seed.pc = "role"
  /\ Upsert(n)
  /\ seed' = [seed EXCEPT !.pc = "grants", !.found[n] = row'[n], !.todo = RolePermissions[n]]
  /\ UNCHANGED <<grant, users, member, history, req>>

(* and its permissions at once.  The ids come from the earlier upserts:    *)
(* a role or permission deleted since breaks the foreign key, and the      *)
(* process exits with 1.                                                   *)
StillThere(found, x) == found[x] # None /\ row[x] = found[x]

UpsertGrant(k) ==
  LET n == RoleOrder[seed.at] IN
  /\ seed.pc = "grants" /\ k \in seed.todo
  /\ IF StillThere(seed.found, n) /\ StillThere(seed.found, k)
     THEN /\ grant' = grant \cup {<<n, k>>}
          /\ seed' = IF seed.todo = {k} THEN AfterGrants ELSE [seed EXCEPT !.todo = @ \ {k}]
     ELSE seed' = NoSeed /\ UNCHANGED grant
  /\ UNCHANGED <<row, ids, users, member, history, req>>

(* The super administrator: an account that has the e-mail already is      *)
(* taken as it is, with its password. *)
UpsertSuper ==
  /\ seed.pc = "admin"
  /\ MakeUser(SuperEmail) \/ (UserOf(SuperEmail) # {} /\ UNCHANGED users)
  /\ \E u \in {v \in user' : email'[v] = SuperEmail} :
       seed' = [seed EXCEPT !.pc = "member", !.admin = u]
  /\ UNCHANGED <<row, ids, grant, member, history, req>>

UpsertMember ==
  /\ seed.pc = "member"
  /\ IF seed.admin \in user /\ StillThere(seed.found, Super)
     THEN member' = member \cup {<<seed.admin, Super>>} /\ seed' = [seed EXCEPT !.pc = "done"]
     ELSE seed' = NoSeed /\ UNCHANGED member
  /\ UNCHANGED <<row, ids, grant, users, history, req>>

(* The process is killed, loses its connection, or finds no SUPER_ADMIN_*  *)
(* in its environment, after the roles are committed.                      *)
SeedDies ==
  /\ seed.pc \notin {"idle", "done"}
  /\ seed' = NoSeed
  /\ UNCHANGED <<tables, history, req>>

-----------------------------------------------------------------------------
(* register: 409 when the e-mail is taken now. *)
StartRegister(r, e, N) ==
  /\ req[r].pc = "idle"
  /\ UserOf(e) = {}
  /\ Become(r, [Idle EXCEPT !.pc = "roles", !.kind = "register", !.email = e, !.names = N])
  /\ UNCHANGED <<tables, seed, history>>

(* resolveOrProvisionSocialUser, when neither the subject nor the e-mail   *)
(* has an account. *)
StartSocial(r, e) ==
  /\ req[r].pc = "idle"
  /\ UserOf(e) = {}
  /\ Become(r, [Idle EXCEPT !.pc = "roles", !.kind = "social", !.email = e,
                            !.names = {Default}])
  /\ UNCHANGED <<tables, seed, history>>

(* findRolesByNames: a missing role is answered 404 to a registration and  *)
(* 500 to a social login. *)
FindRoles(r) ==
  /\ req[r].pc = "roles"
  /\ IF \E n \in req[r].names : row[n] = None THEN End(r)
     ELSE Become(r, [req[r] EXCEPT !.pc = "create",
                       !.found = [x \in Names |-> IF x \in req[r].names THEN row[x] ELSE None]])
  /\ UNCHANGED <<tables, seed, history>>

(* Mutant: a role that is gone is left out. *)
CreateWithWhatIsLeft(r) ==
  LET left == {n \in req[r].names : StillThere(req[r].found, n)} IN
  /\ req[r].pc = "create"
  /\ \/ MakeUser(req[r].email) /\ member' = member \cup ({made + 1} \X left)
     \/ UserOf(req[r].email) # {} /\ UNCHANGED <<users, member>>
  /\ End(r)
  /\ UNCHANGED <<row, ids, grant, seed, history>>

(* createUserWithRolesAndOtp and createUserWithRoles: the account with all *)
(* its roles, or, when the e-mail is taken or a role gone, nothing.        *)
CreateAccount(r) ==
  LET there == \A n \in req[r].names : StillThere(req[r].found, n) IN
  /\ req[r].pc = "create"
  /\ \/ there /\ MakeUser(req[r].email) /\ member' = member \cup ({made + 1} \X req[r].names)
     \/ ~there /\ UNCHANGED <<users, member>>
     \/ UserOf(req[r].email) # {} /\ UNCHANGED <<users, member>>
  /\ End(r)
  /\ UNCHANGED <<row, ids, grant, seed, history>>

Crash(r) ==
  /\ req[r].pc # "idle"
  /\ End(r)
  /\ UNCHANGED <<tables, seed, history>>

-----------------------------------------------------------------------------
(* The administrators' requests, as AccessControl has them in detail, and  *)
(* deleteAccount.  What is taken away disturbs a seed that is running.     *)
Takes ==
  /\ changes < MaxChanges /\ changes' = changes + 1
  /\ seed' = [seed EXCEPT !.clean = FALSE]
  /\ UNCHANGED <<ids, made, email, stamp, req>>

DeleteRole(n) ==
  /\ row[n] # None
  /\ row' = [row EXCEPT ![n] = None]
  /\ grant' = {g \in grant : g[1] # n}
  /\ member' = {m \in member : m[2] # n}
  /\ stripped' = stripped \cup {u \in user : <<u, n>> \in member}
  /\ Takes /\ UNCHANGED user

DeletePermission(k) ==
  /\ row[k] # None
  /\ row' = [row EXCEPT ![k] = None]
  /\ grant' = {g \in grant : g[2] # k}
  /\ Takes /\ UNCHANGED <<user, member, stripped>>

RevokePermission(n, k) ==
  /\ <<n, k>> \in grant
  /\ grant' = grant \ {<<n, k>>}
  /\ Takes /\ UNCHANGED <<row, user, member, stripped>>

RevokeRole(u, n) ==
  /\ <<u, n>> \in member
  /\ member' = member \ {<<u, n>>}
  /\ stripped' = stripped \cup {u}
  /\ Takes /\ UNCHANGED <<row, grant, user>>

DeleteAccount(u) ==
  /\ u \in user
  /\ user' = user \ {u}
  /\ member' = {m \in member : m[1] # u}
  /\ Takes /\ UNCHANGED <<row, grant, stripped>>

CreateRole(n) ==
  /\ changes < MaxChanges /\ changes' = changes + 1
  /\ MakeRow(n)
  /\ UNCHANGED <<grant, users, member, seed, stripped, req>>

AssignRole(u, n) ==
  /\ changes < MaxChanges /\ changes' = changes + 1
  /\ u \in user /\ row[n] # None /\ <<u, n>> \notin member
  /\ member' = member \cup {<<u, n>>}
  /\ UNCHANGED <<row, ids, grant, users, seed, stripped, req>>

Seeding ==
  \/ StartSeed \/ UpsertRole \/ UpsertSuper \/ UpsertMember \/ SeedDies
  \/ \E k \in Keys : UpsertPermission(k) \/ UpsertGrant(k)

Administering ==
  \/ \E n \in Roles : CreateRole(n) \/ DeleteRole(n)
  \/ \E k \in Keys : DeletePermission(k)
  \/ \E n \in Roles, k \in Keys : RevokePermission(n, k)
  \/ \E u \in Uids, n \in Roles : AssignRole(u, n) \/ RevokeRole(u, n)
  \/ \E u \in Uids : DeleteAccount(u)

Joining ==
  \E r \in Requests :
    \/ \E e \in Emails, N \in RoleChoices : StartRegister(r, e, N)
    \/ \E e \in Emails : StartSocial(r, e)
    \/ FindRoles(r) \/ CreateAccount(r) \/ Crash(r)

ProvNext == Seeding \/ Administering \/ Joining

ProvSpec == ProvInit /\ [][ProvNext]_provVars

-----------------------------------------------------------------------------
SeedSteps == {"idle", "permissions", "role", "grants", "admin", "member", "done"}

SeedRun == [pc: SeedSteps, at: DOMAIN RoleOrder, todo: SUBSET Keys,
            found: [Names -> 0 .. MaxIds], admin: 0 .. MaxUsers, clean: BOOLEAN]
Request == [pc: {"idle", "roles", "create"}, kind: {"none", "register", "social"},
            email: Emails, names: SUBSET Roles, found: [Names -> 0 .. MaxIds]]

(* The tables and their foreign keys; e-mails are unique.  A handler asks  *)
(* for some role, and past its look-up names the ids it found.             *)
ProvTypeOK ==
  /\ row \in [Names -> 0 .. MaxIds] /\ ids \in [Names -> 0 .. MaxIds]
  /\ \A x \in Names : row[x] \in {None, ids[x]}
  /\ grant \subseteq {n \in Roles : row[n] # None} \X {k \in Keys : row[k] # None}
  /\ made \in 0 .. MaxUsers /\ user \subseteq 1 .. made
  /\ email \in [Uids -> Emails] /\ stamp \in [Uids -> 0 .. MaxStamp]
  /\ \A u, v \in user : email[u] = email[v] => u = v
  /\ member \subseteq user \X {n \in Roles : row[n] # None}
  /\ seed \in SeedRun
  /\ stripped \subseteq 1 .. made /\ changes \in 0 .. MaxChanges
  /\ req \in [Requests -> Request]
  /\ \A r \in Requests : req[r].pc # "idle" => req[r].names # {}
  /\ \A r \in Requests : req[r].pc = "create" =>
       \A n \in req[r].names : req[r].found[n] \in 1 .. ids[n]

(* A run of the seed that ends, and during or after which nothing was      *)
(* taken away, leaves all it promises: every role and permission, every    *)
(* grant, and a super administrator in its role.  Whatever earlier runs    *)
(* left behind when they died, and whoever registers or creates roles      *)
(* meanwhile.                                                              *)
Promised ==
  /\ \A x \in Keys \cup Seeded : row[x] # None
  /\ \A n \in Seeded, k \in Keys : k \in RolePermissions[n] => <<n, k>> \in grant
  /\ \E u \in UserOf(SuperEmail) : <<u, Super>> \in member
SeedDelivers == seed.pc = "done" /\ seed.clean => Promised

(* No account lives without a role, unless a deletion or revocation took   *)
(* one from it, or it is the super administrator's, whom the seed makes    *)
(* before it has the role: although the roles of an account are looked up  *)
(* in another call than the one that grants them.                          *)
AccountsHaveRoles ==
  \A u \in user \ stripped : RolesOf(u) # {} \/ email[u] = SuperEmail
=============================================================================
