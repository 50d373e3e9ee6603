------------------------- MODULE ProvisioningProofs -------------------------
(***************************************************************************)
(* Theorems about Provisioning, for every set of roles, permissions and    *)
(* e-mails, every ROLE_PERMISSIONS and every number of requests; and about *)
(* Listing, which walks the same tables, for every number of rows and      *)
(* every page size.                                                        *)
(***************************************************************************)
EXTENDS Listing, FiniteSetTheorems, TLAPS

(* What a run of the seed has done so far, as long as nothing was taken    *)
(* away since it began: the permissions it is through with, the roles      *)
(* before the current one with all they get, and the account it found.     *)
Served(n) ==
  /\ StillThere(seed.found, n)
  /\ \A k \in RolePermissions[n] : <<n, k>> \in grant

PermissionsOnTrack ==
  \A k \in Keys :
    \/ seed.pc = "idle"
    \/ seed.pc = "permissions" /\ k \in seed.todo
    \/ StillThere(seed.found, k)

RolesOnTrack ==
  \A i \in DOMAIN RoleOrder :
    \/ seed.pc \in {"idle", "permissions"}
    \/ seed.pc \in {"role", "grants"} /\ i >= seed.at
    \/ Served(RoleOrder[i])

GrantsOnTrack ==
  seed.pc = "grants" =>
    /\ StillThere(seed.found, RoleOrder[seed.at])
    /\ \A k \in RolePermissions[RoleOrder[seed.at]] \ seed.todo :
         <<RoleOrder[seed.at], k>> \in grant

AdminOnTrack ==
  /\ seed.pc \in {"member", "done"} => seed.admin \in UserOf(SuperEmail)
  /\ seed.pc = "done" => <<seed.admin, Super>> \in member

SeedOnTrack ==
  /\ seed.pc = "permissions" => seed.at = 1
  /\ seed.clean => PermissionsOnTrack /\ RolesOnTrack /\ GrantsOnTrack /\ AdminOnTrack

IInv == ProvTypeOK /\ AccountsHaveRoles /\ SeedOnTrack

-----------------------------------------------------------------------------
(* The tables alone. *)
TablesOK ==
  /\ row \in [Names -> 0 .. MaxIds] /\ ids \in [Names -> 0 .. MaxIds]
  /\ \A x \in Names : row[x] \in {None, ids[x]}
  /\ grant \subseteq {n \in Roles : row[n] # None} \X {k \in Keys : row[k] # None}
  /\ made \in 0 .. MaxUsers /\ user \subseteq 1 .. made
  /\ email \in [Uids -> Emails] /\ stamp \in [Uids -> 0 .. MaxStamp]
  /\ \A u, v \in user : email[u] = email[v] => u = v
  /\ member \subseteq user \X {n \in Roles : row[n] # None}
  /\ stripped \subseteq 1 .. made /\ changes \in 0 .. MaxChanges

(* A handler that is past its look-up. *)
ReqOK ==
  /\ req \in [Requests -> Request]
  /\ \A r \in Requests : req[r].pc # "idle" => req[r].names # {}
  /\ \A r \in Requests : req[r].pc = "create" =>
       \A n \in req[r].names : req[r].found[n] \in 1 .. ids[n]

LEMMA TypeParts ==
  /\ ProvTypeOK <=> TablesOK /\ seed \in SeedRun /\ ReqOK
  /\ ProvTypeOK' <=> (TablesOK /\ seed \in SeedRun /\ ReqOK)'
BY DEF ProvTypeOK, TablesOK, ReqOK

LEMMA Constants ==
  /\ Default \in Seeded /\ Super \in Seeded /\ Seeded \subseteq Roles
  /\ Roles \subseteq Names /\ Keys \subseteq Names /\ Roles \cap Keys = {}
  /\ SuperEmail \in Emails
  /\ \A n \in Seeded : RolePermissions[n] \subseteq Keys
  /\ Len(RoleOrder) \in Nat \ {0} /\ DOMAIN RoleOrder = 1 .. Len(RoleOrder)
  /\ \A i \in DOMAIN RoleOrder : RoleOrder[i] \in Seeded
  /\ \A n \in Seeded : \E i \in DOMAIN RoleOrder : RoleOrder[i] = n
  /\ \A N \in RoleChoices : N \subseteq Roles /\ N # {}
  /\ MaxIds \in Nat /\ MaxUsers \in Nat /\ MaxStamp \in Nat /\ MaxChanges \in Nat
<1>1. RoleOrder \in Seq(Seeded)
  BY ProvisioningAssumption
<1>2. Len(RoleOrder) \in Nat /\ DOMAIN RoleOrder = 1 .. Len(RoleOrder)
  BY <1>1
<1>3. {RoleOrder[i] : i \in DOMAIN RoleOrder} = Seeded /\ Default \in Seeded
  BY ProvisioningAssumption
<1>4. Len(RoleOrder) # 0
  BY <1>2, <1>3
<1>5. \A n \in Seeded : RolePermissions[n] \subseteq Keys
  BY ProvisioningAssumption DEF Seeded
<1> QED
  BY <1>2, <1>3, <1>4, <1>5, ProvisioningAssumption DEF Names

(* A new row has a new id, and disturbs no other. *)
LEMMA MakeRowStep ==
  ASSUME TablesOK, NEW x \in Names, MakeRow(x)
  PROVE  /\ row' \in [Names -> 0 .. MaxIds] /\ ids' \in [Names -> 0 .. MaxIds]
         /\ \A y \in Names : row'[y] \in {None, ids'[y]} /\ ids[y] <= ids'[y]
         /\ \A y \in Names : row[y] # None => row'[y] = row[y]
         /\ row'[x] \in 1 .. ids'[x]
BY Constants DEF TablesOK, MakeRow, None

LEMMA UpsertStep ==
  ASSUME TablesOK, NEW x \in Names, Upsert(x)
  PROVE  /\ row' \in [Names -> 0 .. MaxIds] /\ ids' \in [Names -> 0 .. MaxIds]
         /\ \A y \in Names : row'[y] \in {None, ids'[y]} /\ ids[y] <= ids'[y]
         /\ \A y \in Names : row[y] # None => row'[y] = row[y]
         /\ row'[x] # None
<1>1. CASE MakeRow(x)
  BY <1>1, MakeRowStep DEF None
<1>2. CASE row[x] # None /\ UNCHANGED <<row, ids>>
  BY <1>2, Constants DEF TablesOK
<1> QED
  BY <1>1, <1>2 DEF Upsert

(* A new account has a new id, and its e-mail is its own. *)
LEMMA MakeUserStep ==
  ASSUME TablesOK, NEW e \in Emails, MakeUser(e)
  PROVE  /\ made' = made + 1 /\ made' \in 0 .. MaxUsers /\ user' \subseteq 1 .. made'
         /\ user' = user \cup {made + 1} /\ made + 1 \notin user
         /\ email' \in [Uids -> Emails] /\ stamp' \in [Uids -> 0 .. MaxStamp]
         /\ email'[made + 1] = e
         /\ \A u \in user : email'[u] = email[u]
         /\ \A u, v \in user' : email'[u] = email'[v] => u = v
<1>1. made + 1 \in Uids /\ made + 1 \notin user /\ user \subseteq Uids
  BY Constants DEF TablesOK, MakeUser, Uids
<1>2. \A u \in user : email[u] # e
  BY DEF MakeUser, UserOf
<1>3. email' \in [Uids -> Emails] /\ email'[made + 1] = e /\ \A u \in user : email'[u] = email[u]
  BY <1>1 DEF TablesOK, MakeUser
<1>4. stamp' \in [Uids -> 0 .. MaxStamp]
  BY <1>1, Constants DEF TablesOK, MakeUser
<1>5. made' = made + 1 /\ made' \in 0 .. MaxUsers /\ user' = user \cup {made + 1}
      /\ user' \subseteq 1 .. made'
  BY <1>1, Constants DEF TablesOK, MakeUser
<1> QED
  BY <1>1, <1>2, <1>3, <1>4, <1>5 DEF TablesOK

(* Tables that only grew are tables. *)
LEMMA RowsGrow ==
  ASSUME TablesOK, NEW x \in Names, Upsert(x), UNCHANGED <<grant, users, member, stripped>>,
         changes' \in 0 .. MaxChanges
  PROVE  TablesOK'
<1>1. \A y \in Names : row[y] # None => row'[y] # None
  BY UpsertStep
<1>2. grant' \subseteq {n \in Roles : row'[n] # None} \X {k \in Keys : row'[k] # None}
  BY <1>1, Constants DEF TablesOK
<1>3. member' \subseteq user' \X {n \in Roles : row'[n] # None}
  BY <1>1, Constants DEF TablesOK, users
<1>4. /\ row' \in [Names -> 0 .. MaxIds] /\ ids' \in [Names -> 0 .. MaxIds]
      /\ \A y \in Names : row'[y] \in {None, ids'[y]}
  BY UpsertStep
<1> QED
  BY <1>2, <1>3, <1>4 DEF TablesOK, users

(* The ids a handler found stay ids that were given. *)
LEMMA ReqKept ==
  ASSUME ReqOK, ids \in [Names -> 0 .. MaxIds], ids' \in [Names -> 0 .. MaxIds],
         \A x \in Names : ids[x] <= ids'[x], UNCHANGED req
  PROVE  ReqOK'
<1> SUFFICES ASSUME NEW r \in Requests, req[r].pc = "create", NEW n \in req[r].names
             PROVE  req[r].found[n] \in 1 .. ids'[n]
  BY DEF ReqOK
<1>1. n \in Names
  BY Constants DEF ReqOK, Request
<1>2. req[r].found[n] \in 1 .. ids[n] /\ ids[n] <= ids'[n]
  BY <1>1 DEF ReqOK
<1> QED
  BY <1>1, <1>2, Constants

LEMMA ReqMoved ==
  ASSUME ReqOK, NEW r \in Requests, NEW h \in Request, Become(r, h), UNCHANGED ids,
         h.pc # "idle" => h.names # {},
         h.pc = "create" => \A n \in h.names : h.found[n] \in 1 .. ids[n]
  PROVE  ReqOK'
BY DEF ReqOK, Become

LEMMA IdleType == Idle \in Request /\ Idle.pc = "idle" /\ NoIds \in [Names -> 0 .. MaxIds]
BY Constants DEF Idle, Request, NoIds, None

LEMMA NoSeedType == NoSeed \in SeedRun /\ NoSeed.pc = "idle" /\ NoSeed.at = 1
BY Constants, IdleType DEF NoSeed, SeedRun, SeedSteps, None

(* Where nothing was taken away, what the seed achieved is still there. *)
Grew ==
  /\ \A x \in Names : row[x] # None => row'[x] = row[x]
  /\ grant \subseteq grant' /\ member \subseteq member' /\ user \subseteq user'
  /\ \A u \in user : email'[u] = email[u]

LEMMA TrackKept ==
  ASSUME SeedOnTrack, seed \in SeedRun, UNCHANGED seed, Grew
  PROVE  SeedOnTrack'
<1> SUFFICES ASSUME seed.clean
             PROVE  (PermissionsOnTrack /\ RolesOnTrack /\ GrantsOnTrack /\ AdminOnTrack)'
  BY DEF SeedOnTrack
<1>1. \A x \in Names : StillThere(seed.found, x) => StillThere(seed.found, x)'
  BY DEF Grew, StillThere
<1>2. PermissionsOnTrack'
  BY <1>1, Constants DEF SeedOnTrack, PermissionsOnTrack
<1>3. RolesOnTrack'
  BY <1>1, Constants DEF SeedOnTrack, RolesOnTrack, Served, Grew
<1>4. GrantsOnTrack'
  <2>1. seed.at \in DOMAIN RoleOrder
    BY DEF SeedRun
  <2> QED
    BY <1>1, <2>1, Constants DEF SeedOnTrack, GrantsOnTrack, Grew
<1>5. AdminOnTrack'
  BY DEF SeedOnTrack, AdminOnTrack, Grew, UserOf
<1> QED
  BY <1>2, <1>3, <1>4, <1>5

(* A seed that was disturbed, or stopped, has promised nothing. *)
LEMMA TrackOff ==
  ASSUME SeedOnTrack, seed \in SeedRun,
         seed' = [seed EXCEPT !.clean = FALSE] \/ seed' = NoSeed
  PROVE  SeedOnTrack' /\ seed' \in SeedRun
<1>1. CASE seed' = [seed EXCEPT !.clean = FALSE]
  BY <1>1 DEF SeedOnTrack, SeedRun
<1>2. CASE seed' = NoSeed
  BY <1>2, NoSeedType DEF SeedOnTrack, PermissionsOnTrack, RolesOnTrack, GrantsOnTrack,
     AdminOnTrack
<1> QED
  BY <1>1, <1>2

LEMMA RolesKept ==
  ASSUME AccountsHaveRoles, UNCHANGED <<user, email, member, stripped>>
  PROVE  AccountsHaveRoles'
BY DEF AccountsHaveRoles, RolesOf

-----------------------------------------------------------------------------
LEMMA InitIInv == ProvInit => IInv
<1> SUFFICES ASSUME ProvInit PROVE IInv
  OBVIOUS
<1>1. TablesOK
  BY IdleType, Constants DEF ProvInit, TablesOK, NoIds, Uids, None
<1>2. ReqOK
  BY IdleType DEF ProvInit, ReqOK
<1>3. seed \in SeedRun /\ SeedOnTrack
  BY NoSeedType DEF ProvInit, SeedOnTrack, PermissionsOnTrack, RolesOnTrack, GrantsOnTrack,
     AdminOnTrack
<1> QED
  BY <1>1, <1>2, <1>3, TypeParts DEF IInv, ProvInit, AccountsHaveRoles

(* The steps of the seed, one by one. *)
LEMMA StartSeedStep ==
  ASSUME IInv, StartSeed
  PROVE  IInv'
<1>1. seed' \in SeedRun /\ seed'.pc = "permissions" /\ seed'.at = 1 /\ seed'.todo = Keys
  BY NoSeedType DEF StartSeed, SeedRun, SeedSteps
<1>2. SeedOnTrack'
  BY <1>1 DEF SeedOnTrack, PermissionsOnTrack, RolesOnTrack, GrantsOnTrack, AdminOnTrack
<1>3. ProvTypeOK'
  BY <1>1 DEF StartSeed, IInv, ProvTypeOK, tables, users, history
<1> QED
  BY <1>2, <1>3, RolesKept DEF StartSeed, IInv, tables, users, history

LEMMA UpsertPermissionStep ==
  ASSUME IInv, NEW k \in Keys, UpsertPermission(k)
  PROVE  IInv'
<1> DEFINE last == seed.todo = {k}
<1> USE TypeParts DEF IInv
<1>1. k \in Names /\ Upsert(k) /\ seed.pc = "permissions" /\ k \in seed.todo
  BY Constants DEF UpsertPermission
<1>2. TablesOK'
  BY <1>1, RowsGrow DEF UpsertPermission, history, TablesOK
<1>3. ReqOK'
  BY <1>1, UpsertStep, ReqKept DEF UpsertPermission, TablesOK
<1>4. Grew /\ row'[k] # None /\ row'[k] \in 0 .. MaxIds
  BY <1>1, UpsertStep DEF UpsertPermission, Grew, users
<1>5. /\ seed' \in SeedRun
      /\ seed'.todo = seed.todo \ {k} /\ seed'.at = seed.at
      /\ seed'.pc = IF last THEN "role" ELSE "permissions"
      /\ seed'.found[k] = row'[k] /\ \A x \in Names \ {k} : seed'.found[x] = seed.found[x]
      /\ seed'.clean = seed.clean
  BY <1>1, <1>4 DEF UpsertPermission, SeedRun, SeedSteps
<1>6. SeedOnTrack'
  <2>1. seed'.at = 1
    BY <1>1, <1>5 DEF SeedOnTrack
  <2>2. ASSUME seed.clean PROVE PermissionsOnTrack'
    <3> SUFFICES ASSUME NEW j \in Keys, j \notin seed'.todo PROVE StillThere(seed.found, j)'
      BY <1>1, <1>5 DEF PermissionsOnTrack
    <3>1. CASE j = k
      BY <1>4, <1>5, <3>1 DEF StillThere
    <3>2. CASE j # k
      BY <1>1, <1>4, <1>5, <2>2, <3>2, Constants
         DEF SeedOnTrack, PermissionsOnTrack, StillThere, Grew
    <3> QED
      BY <3>1, <3>2
  <2>3. RolesOnTrack' /\ GrantsOnTrack' /\ AdminOnTrack'
    BY <1>5, <2>1, Constants DEF RolesOnTrack, GrantsOnTrack, AdminOnTrack
  <2> QED
    BY <1>5, <2>1, <2>2, <2>3 DEF SeedOnTrack
<1>7. AccountsHaveRoles'
  BY RolesKept DEF UpsertPermission, users, history
<1> QED
  BY <1>2, <1>3, <1>5, <1>6, <1>7

LEMMA UpsertRoleStep ==
  ASSUME IInv, UpsertRole
  PROVE  IInv'
<1> DEFINE n == RoleOrder[seed.at]
<1> USE TypeParts DEF IInv
<1>1. /\ n \in Names /\ n \in Seeded /\ n \notin Keys /\ Upsert(n)
      /\ seed.pc = "role" /\ seed.at \in DOMAIN RoleOrder
  BY Constants DEF UpsertRole, SeedRun
<1>2. TablesOK'
  BY <1>1, RowsGrow DEF UpsertRole, history, TablesOK
<1>3. ReqOK'
  BY <1>1, UpsertStep, ReqKept DEF UpsertRole, TablesOK
<1>4. Grew /\ row'[n] # None /\ row'[n] \in 0 .. MaxIds
  BY <1>1, UpsertStep DEF UpsertRole, Grew, users
<1>5. /\ seed' \in SeedRun /\ seed'.at = seed.at /\ seed'.clean = seed.clean
      /\ seed'.pc = "grants" /\ seed'.todo = RolePermissions[n]
      /\ seed'.found[n] = row'[n] /\ \A x \in Names \ {n} : seed'.found[x] = seed.found[x]
  <2>1. PICK v \in 0 .. MaxIds : v = row'[n]
    BY <1>4
  <2>2. PICK f \in [Names -> 0 .. MaxIds] : f = [seed.found EXCEPT ![n] = v]
    BY DEF SeedRun
  <2>3. f[n] = v /\ \A x \in Names \ {n} : f[x] = seed.found[x]
    BY <1>1, <2>2 DEF SeedRun
  <2>4. PICK T \in SUBSET Keys : T = RolePermissions[n]
    BY <1>1, Constants
  <2>5. seed' = [seed EXCEPT !.pc = "grants", !.found = f, !.todo = T]
    BY <2>1, <2>2, <2>4 DEF UpsertRole, SeedRun
  <2>6. /\ seed' \in SeedRun /\ seed'.at = seed.at /\ seed'.clean = seed.clean
        /\ seed'.pc = "grants" /\ seed'.todo = T /\ seed'.found = f
    BY <2>5 DEF SeedRun, SeedSteps
  <2> QED
    BY <2>1, <2>3, <2>4, <2>6
<1>6. \A x \in Names : StillThere(seed.found, x) \/ x = n => StillThere(seed.found, x)'
  BY <1>4, <1>5 DEF StillThere, Grew
<1>7. SeedOnTrack'
  <2> SUFFICES ASSUME seed.clean
               PROVE  (PermissionsOnTrack /\ RolesOnTrack /\ GrantsOnTrack /\ AdminOnTrack)'
    BY <1>5 DEF SeedOnTrack
  <2>1. PermissionsOnTrack'
    BY <1>1, <1>6, Constants DEF SeedOnTrack, PermissionsOnTrack
  <2>2. RolesOnTrack'
    BY <1>1, <1>5, <1>6, Constants DEF SeedOnTrack, RolesOnTrack, Served, UpsertRole
  <2>3. GrantsOnTrack'
    BY <1>1, <1>5, <1>6 DEF GrantsOnTrack
  <2>4. AdminOnTrack'
    BY <1>5 DEF AdminOnTrack
  <2> QED
    BY <2>1, <2>2, <2>3, <2>4
<1>8. AccountsHaveRoles'
  BY RolesKept DEF UpsertRole, users, history
<1> QED
  BY <1>2, <1>3, <1>5, <1>7, <1>8

(* A role is served when its last permission is granted. *)
LEMMA UpsertGrantStep ==
  ASSUME IInv, NEW k \in Keys, UpsertGrant(k)
  PROVE  IInv'
<1> DEFINE n == RoleOrder[seed.at]
<1> USE TypeParts DEF IInv
<1>1. /\ n \in Names /\ n \in Seeded /\ n \in Roles /\ k \in Names
      /\ seed.pc = "grants" /\ k \in seed.todo /\ seed.at \in DOMAIN RoleOrder
      /\ seed.at \in Nat
  BY Constants DEF UpsertGrant, SeedRun
<1>2. UNCHANGED <<row, ids, users, member, stripped, changes, req>>
  BY DEF UpsertGrant, history
<1>3. AccountsHaveRoles' /\ ReqOK'
  BY <1>2, RolesKept DEF users, ReqOK
<1>4. CASE StillThere(seed.found, n) /\ StillThere(seed.found, k)
  <2>1. grant' = grant \cup {<<n, k>>}
    BY <1>4 DEF UpsertGrant
  <2>2. TablesOK'
    BY <1>1, <1>2, <1>4, <2>1 DEF TablesOK, users, StillThere
  <2>4. CASE seed.todo # {k}
    <3>1. /\ seed' \in SeedRun /\ seed'.at = seed.at /\ seed'.clean = seed.clean
          /\ seed'.pc = "grants" /\ seed'.todo = seed.todo \ {k} /\ seed'.found = seed.found
      BY <1>1, <1>4, <2>4 DEF UpsertGrant, SeedRun, SeedSteps
    <3>2. SeedOnTrack'
      <4> SUFFICES ASSUME seed.clean
                   PROVE  (PermissionsOnTrack /\ RolesOnTrack /\ GrantsOnTrack /\ AdminOnTrack)'
        BY <3>1 DEF SeedOnTrack
      <4>1. PermissionsOnTrack'
        BY <1>1, <1>2, <3>1 DEF SeedOnTrack, PermissionsOnTrack, StillThere
      <4>2. RolesOnTrack'
        BY <1>1, <1>2, <2>1, <3>1 DEF SeedOnTrack, RolesOnTrack, Served, StillThere
      <4>3. GrantsOnTrack' /\ AdminOnTrack'
        BY <1>1, <1>2, <2>1, <3>1 DEF SeedOnTrack, GrantsOnTrack, AdminOnTrack, StillThere
      <4> QED
        BY <4>1, <4>2, <4>3
    <3> QED
      BY <1>3, <2>2, <3>1, <3>2
  <2>5. CASE seed.todo = {k}
    <3>1. seed' = AfterGrants
      BY <1>4, <2>5 DEF UpsertGrant
    <3>2. /\ seed' \in SeedRun /\ seed'.clean = seed.clean /\ seed'.found = seed.found
          /\ \/ seed'.pc = "admin" /\ seed.at = Len(RoleOrder)
             \/ seed'.pc = "role" /\ seed'.at = seed.at + 1
      <4>1. CASE seed.at = Len(RoleOrder)
        BY <1>1, <3>1, <4>1 DEF AfterGrants, SeedRun, SeedSteps
      <4>2. CASE seed.at # Len(RoleOrder)
        <5>1. seed.at + 1 \in DOMAIN RoleOrder
          BY <1>1, <4>2, Constants
        <5> QED
          BY <1>1, <3>1, <4>2, <5>1 DEF AfterGrants, SeedRun, SeedSteps
      <4> QED
        BY <4>1, <4>2
    <3>3. SeedOnTrack'
      <4> SUFFICES ASSUME seed.clean
                   PROVE  (PermissionsOnTrack /\ RolesOnTrack /\ GrantsOnTrack /\ AdminOnTrack)'
        BY <3>2 DEF SeedOnTrack
      <4>1. PermissionsOnTrack'
        BY <1>1, <1>2, <3>2 DEF SeedOnTrack, PermissionsOnTrack, StillThere
      <4>0. PICK m \in Seeded : m = n
        BY <1>1
      <4>2. Served(m)'
        BY <1>1, <1>2, <2>1, <2>5, <3>2, <4>0
           DEF SeedOnTrack, GrantsOnTrack, Served, StillThere
      <4>3. ASSUME NEW i \in DOMAIN RoleOrder, i < seed.at PROVE Served(RoleOrder[i])'
        BY <1>1, <1>2, <2>1, <3>2, <4>3, Constants
           DEF SeedOnTrack, RolesOnTrack, Served, StillThere
      <4>4. RolesOnTrack'
        <5> SUFFICES ASSUME NEW i \in DOMAIN RoleOrder, i <= seed.at
                     PROVE  Served(RoleOrder[i])'
          BY <1>1, <3>2, Constants DEF RolesOnTrack
        <5>1. CASE i = seed.at
          BY <4>0, <4>2, <5>1
        <5> QED
          BY <1>1, <4>3, <5>1, Constants
      <4>5. GrantsOnTrack' /\ AdminOnTrack'
        BY <3>2 DEF GrantsOnTrack, AdminOnTrack
      <4> QED
        BY <4>1, <4>4, <4>5
    <3> QED
      BY <1>3, <2>2, <3>2, <3>3
  <2> QED
    BY <2>4, <2>5
<1>5. CASE ~(StillThere(seed.found, n) /\ StillThere(seed.found, k))
  <2>1. seed' = NoSeed /\ UNCHANGED grant
    BY <1>5 DEF UpsertGrant
  <2> QED
    BY <1>2, <1>3, <2>1, TrackOff DEF TablesOK, users
<1> QED
  BY <1>4, <1>5

LEMMA UpsertSuperStep ==
  ASSUME IInv, UpsertSuper
  PROVE  IInv'
<1> USE TypeParts DEF IInv
<1>1. UNCHANGED <<row, ids, grant, member, stripped, changes, req>> /\ seed.pc = "admin"
  BY DEF UpsertSuper, history
<1>2. MakeUser(SuperEmail) \/ UNCHANGED users
  BY DEF UpsertSuper
<1>3. /\ made' \in 0 .. MaxUsers /\ user' \subseteq 1 .. made' /\ user \subseteq user'
      /\ email' \in [Uids -> Emails] /\ stamp' \in [Uids -> 0 .. MaxStamp]
      /\ \A u \in user : email'[u] = email[u]
      /\ \A u \in user' \ user : email'[u] = SuperEmail
      /\ \A u, v \in user' : email'[u] = email'[v] => u = v
      /\ made <= made'
  <2>1. CASE MakeUser(SuperEmail)
    <3>1. SuperEmail \in Emails /\ made \in Nat
      BY Constants DEF TablesOK
    <3>2. /\ made' = made + 1 /\ made' \in 0 .. MaxUsers /\ user' \subseteq 1 .. made'
          /\ user' = user \cup {made + 1} /\ email'[made + 1] = SuperEmail
          /\ email' \in [Uids -> Emails] /\ stamp' \in [Uids -> 0 .. MaxStamp]
          /\ \A u \in user : email'[u] = email[u]
          /\ \A u, v \in user' : email'[u] = email'[v] => u = v
      BY <2>1, <3>1, MakeUserStep
    <3>3. user \subseteq user' /\ made <= made' /\ \A u \in user' \ user : u = made + 1
      BY <3>1, <3>2
    <3> QED
      BY <3>2, <3>3
  <2>2. CASE UNCHANGED users
    BY <2>2 DEF users, TablesOK
  <2> QED
    BY <1>2, <2>1, <2>2
<1>4. TablesOK'
  <2>1. member' \subseteq user' \X {n \in Roles : row'[n] # None}
    BY <1>1, <1>3 DEF TablesOK
  <2>2. stripped' \subseteq 1 .. made'
    BY <1>1, <1>3, Constants DEF TablesOK
  <2> QED
    BY <1>1, <1>3, <2>1, <2>2 DEF TablesOK
<1>5. AccountsHaveRoles'
  BY <1>1, <1>3 DEF AccountsHaveRoles, RolesOf
<1>6. PICK u \in user' : /\ email'[u] = SuperEmail
                         /\ seed' = [seed EXCEPT !.pc = "member", !.admin = u]
  BY DEF UpsertSuper
<1>7. u \in 0 .. MaxUsers
  BY <1>3, Constants
<1>8. /\ seed' \in SeedRun /\ seed'.clean = seed.clean /\ seed'.pc = "member"
      /\ seed'.admin = u /\ seed'.found = seed.found
  BY <1>6, <1>7 DEF SeedRun, SeedSteps
<1>9. SeedOnTrack'
  <2> SUFFICES ASSUME seed.clean
               PROVE  (PermissionsOnTrack /\ RolesOnTrack /\ GrantsOnTrack /\ AdminOnTrack)'
    BY <1>8 DEF SeedOnTrack
  <2>1. PermissionsOnTrack' /\ RolesOnTrack'
    BY <1>1, <1>8 DEF SeedOnTrack, PermissionsOnTrack, RolesOnTrack, Served, StillThere
  <2>2. GrantsOnTrack' /\ AdminOnTrack'
    BY <1>6, <1>8 DEF GrantsOnTrack, AdminOnTrack, UserOf
  <2> QED
    BY <2>1, <2>2
<1> QED
  BY <1>1, <1>4, <1>5, <1>8, <1>9 DEF ReqOK

LEMMA UpsertMemberStep ==
  ASSUME IInv, UpsertMember
  PROVE  IInv'
<1> USE TypeParts DEF IInv
<1>1. UNCHANGED <<row, ids, grant, users, stripped, changes, req>> /\ seed.pc = "member"
  BY DEF UpsertMember, history
<1>2. ReqOK'
  BY <1>1 DEF ReqOK
<1>3. CASE seed.admin \in user /\ StillThere(seed.found, Super)
  <2>1. /\ member' = member \cup {<<seed.admin, Super>>}
        /\ seed' = [seed EXCEPT !.pc = "done"]
    BY <1>3 DEF UpsertMember
  <2>2. TablesOK'
    <3>1. Super \in {n \in Roles : row[n] # None}
      BY <1>3, Constants DEF StillThere
    <3> QED
      BY <1>1, <1>3, <2>1, <3>1 DEF TablesOK, users
  <2>3. /\ seed' \in SeedRun /\ seed'.clean = seed.clean /\ seed'.pc = "done"
        /\ seed'.admin = seed.admin /\ seed'.found = seed.found
    BY <2>1 DEF SeedRun, SeedSteps
  <2>4. SeedOnTrack'
    <3> SUFFICES ASSUME seed.clean
                 PROVE  (PermissionsOnTrack /\ RolesOnTrack /\ GrantsOnTrack /\ AdminOnTrack)'
      BY <2>3 DEF SeedOnTrack
    <3>1. PermissionsOnTrack' /\ RolesOnTrack'
      BY <1>1, <2>3 DEF SeedOnTrack, PermissionsOnTrack, RolesOnTrack, Served, StillThere
    <3>2. GrantsOnTrack' /\ AdminOnTrack'
      BY <1>1, <2>1, <2>3 DEF SeedOnTrack, GrantsOnTrack, AdminOnTrack, UserOf, users
    <3> QED
      BY <3>1, <3>2
  <2>5. AccountsHaveRoles'
    BY <1>1, <2>1 DEF AccountsHaveRoles, RolesOf, users
  <2> QED
    BY <1>2, <2>2, <2>3, <2>4, <2>5
<1>4. CASE ~(seed.admin \in user /\ StillThere(seed.found, Super))
  <2>1. seed' = NoSeed /\ UNCHANGED member
    BY <1>4 DEF UpsertMember
  <2> QED
    BY <1>1, <1>2, <2>1, TrackOff, RolesKept DEF TablesOK, users
<1> QED
  BY <1>3, <1>4

LEMMA SeedDiesStep ==
  ASSUME IInv, SeedDies
  PROVE  IInv'
BY TypeParts, TrackOff, RolesKept
   DEF IInv, SeedDies, TablesOK, ReqOK, tables, users, history

-----------------------------------------------------------------------------
(* Registrations and first social logins. *)
LEMMA MovedStep ==
  ASSUME IInv, NEW r \in Requests, NEW h \in Request, Become(r, h),
         UNCHANGED <<tables, seed, history>>,
         h.pc # "idle" => h.names # {},
         h.pc = "create" => \A n \in h.names : h.found[n] \in 1 .. ids[n]
  PROVE  IInv'
<1> USE TypeParts DEF IInv, tables, users, history
<1>1. ReqOK'
  BY ReqMoved
<1>2. SeedOnTrack'
  BY TrackKept DEF Grew
<1> QED
  BY <1>1, <1>2, RolesKept DEF TablesOK

LEMMA StartStep ==
  ASSUME IInv, NEW r \in Requests, NEW e \in Emails,
         StartSocial(r, e) \/ \E N \in RoleChoices : StartRegister(r, e, N)
  PROVE  IInv'
<1>1. CASE StartSocial(r, e)
  <2> DEFINE h == [Idle EXCEPT !.pc = "roles", !.kind = "social", !.email = e,
                               !.names = {Default}]
  <2>1. h \in Request /\ h.pc = "roles" /\ h.names # {}
    <3>1. {Default} \in SUBSET Roles /\ {Default} # {}
      BY Constants
    <3> QED
      BY <3>1, IdleType DEF Idle, Request
  <2>2. Become(r, h) /\ UNCHANGED <<tables, seed, history>>
    BY <1>1 DEF StartSocial
  <2> HIDE DEF h
  <2> QED
    BY <2>1, <2>2, MovedStep
<1>2. ASSUME NEW N \in RoleChoices, StartRegister(r, e, N) PROVE IInv'
  <2> DEFINE h == [Idle EXCEPT !.pc = "roles", !.kind = "register", !.email = e, !.names = N]
  <2>1. h \in Request /\ h.pc = "roles" /\ h.names # {}
    BY IdleType, Constants DEF Idle, Request
  <2>2. Become(r, h) /\ UNCHANGED <<tables, seed, history>>
    BY <1>2 DEF StartRegister
  <2> HIDE DEF h
  <2> QED
    BY <2>1, <2>2, MovedStep
<1> QED
  BY <1>1, <1>2

LEMMA FindRolesStep ==
  ASSUME IInv, NEW r \in Requests, FindRoles(r)
  PROVE  IInv'
<1> DEFINE found == [x \in Names |-> IF x \in req[r].names THEN row[x] ELSE None]
           h == [req[r] EXCEPT !.pc = "create", !.found = found]
<1>1. ReqOK /\ TablesOK /\ req[r] \in Request
  BY TypeParts DEF IInv, ReqOK
<1>2. CASE \E n \in req[r].names : row[n] = None
  <2>1. Become(r, Idle) /\ UNCHANGED <<tables, seed, history>>
    BY <1>2 DEF FindRoles, End
  <2> QED
    BY <2>1, IdleType, MovedStep
<1>3. CASE ~ \E n \in req[r].names : row[n] = None
  <2>1. found \in [Names -> 0 .. MaxIds]
    BY <1>1, Constants DEF TablesOK, None
  <2>2. h \in Request /\ h.pc = "create" /\ h.names = req[r].names /\ h.found = found
    BY <1>1, <2>1 DEF Request
  <2>3. \A n \in req[r].names : found[n] \in 1 .. ids[n]
    <3> TAKE n \in req[r].names
    <3>1. n \in Names /\ row[n] # None
      BY <1>1, <1>3, Constants DEF Request
    <3> QED
      BY <1>1, <3>1, Constants DEF TablesOK, None
  <2>4. h.names # {}
    BY <1>1, <2>2 DEF ReqOK, FindRoles
  <2> QED
    BY <1>3, <2>2, <2>3, <2>4, MovedStep DEF FindRoles
<1> QED
  BY <1>2, <1>3

(* The one place where an account and its roles come to be. *)
LEMMA CreateAccountStep ==
  ASSUME IInv, NEW r \in Requests, CreateAccount(r)
  PROVE  IInv'
<1> USE TypeParts DEF IInv
<1>1. req[r] \in Request /\ req[r].names # {} /\ req[r].names \subseteq Roles
  BY DEF CreateAccount, ReqOK, Request
<1>2. UNCHANGED <<row, ids, grant, seed, stripped, changes>> /\ Become(r, Idle)
  BY DEF CreateAccount, End, history
<1>3. ReqOK'
  BY <1>2, IdleType, ReqMoved
<1>4. CASE UNCHANGED <<users, member>>
  <2>1. TablesOK' /\ Grew
    BY <1>2, <1>4 DEF TablesOK, users, Grew
  <2> QED
    BY <1>2, <1>3, <1>4, <2>1, TrackKept, RolesKept DEF users
<1>5. CASE /\ \A n \in req[r].names : StillThere(req[r].found, n)
           /\ MakeUser(req[r].email) /\ member' = member \cup ({made + 1} \X req[r].names)
  <2>1. req[r].email \in Emails
    BY <1>1 DEF Request
  <2>2. /\ made \in Nat /\ made' = made + 1 /\ user' = user \cup {made + 1}
        /\ \A u \in user : email'[u] = email[u]
    <3>1. TablesOK
      OBVIOUS
    <3>2. made \in Nat
      <4>1. MaxUsers \in Nat
        BY ProvisioningAssumption
      <4>2. made \in 0 .. MaxUsers
        BY <3>1 DEF TablesOK
      <4> HIDE TypeParts DEF IInv
      <4> QED
        BY <4>1, <4>2
    <3> HIDE TypeParts DEF IInv
    <3> QED
      BY <1>5, <2>1, <3>1, <3>2, MakeUserStep
  <2>3. TablesOK'
    <3>1. \A n \in req[r].names : row[n] # None
      BY <1>5 DEF StillThere
    <3>2. member' \subseteq user' \X {n \in Roles : row'[n] # None}
      BY <1>1, <1>2, <1>5, <2>2, <3>1 DEF TablesOK
    <3>3. stripped' \subseteq 1 .. made'
      BY <1>2, <2>2 DEF TablesOK
    <3> QED
      BY <1>2, <1>5, <2>1, <3>2, <3>3, MakeUserStep DEF TablesOK
  <2>4. Grew
    BY <1>2, <1>5, <2>2 DEF Grew
  <2>5. AccountsHaveRoles'
    <3> SUFFICES ASSUME NEW u \in user' \ stripped'
                 PROVE  RolesOf(u)' # {} \/ email'[u] = SuperEmail
      BY DEF AccountsHaveRoles
    <3>1. CASE u = made + 1
      <4>1. PICK n \in req[r].names : TRUE
        BY <1>1
      <4>2. n \in RolesOf(u)'
        BY <1>1, <1>5, <3>1, <4>1 DEF RolesOf
      <4> QED
        BY <4>2
    <3>2. CASE u # made + 1
      <4>1. u \in user \ stripped /\ email'[u] = email[u]
        BY <1>2, <2>2, <3>2
      <4> QED
        BY <1>5, <4>1 DEF AccountsHaveRoles, RolesOf
    <3> QED
      BY <3>1, <3>2
  <2> QED
    BY <1>2, <1>3, <2>3, <2>4, <2>5, TrackKept
<1> QED
  BY <1>4, <1>5 DEF CreateAccount

LEMMA CrashStep ==
  ASSUME IInv, NEW r \in Requests, Crash(r)
  PROVE  IInv'
BY IdleType, MovedStep DEF Crash, End

-----------------------------------------------------------------------------
(* What administrators and owners take away: the running seed is disturbed *)
(* and handlers keep the ids they found.                                   *)
LEMMA TakesStep ==
  ASSUME IInv, Takes
  PROVE  /\ ReqOK' /\ SeedOnTrack' /\ seed' \in SeedRun /\ changes' \in 0 .. MaxChanges
         /\ UNCHANGED <<ids, made, email, stamp, req>>
<1>1. ReqOK /\ seed \in SeedRun /\ SeedOnTrack /\ TablesOK
  BY TypeParts DEF IInv
<1>2. changes' \in 0 .. MaxChanges
  BY <1>1, Constants DEF Takes, TablesOK
<1>3. SeedOnTrack' /\ seed' \in SeedRun
  BY <1>1, TrackOff DEF Takes
<1> QED
  BY <1>1, <1>2, <1>3 DEF Takes, ReqOK

LEMMA DeleteRoleStep ==
  ASSUME IInv, NEW n \in Roles, DeleteRole(n)
  PROVE  IInv'
<1>1. TablesOK /\ AccountsHaveRoles /\ Takes /\ UNCHANGED user
  BY TypeParts DEF IInv, DeleteRole
<1>2. UNCHANGED <<ids, made, email, stamp>> /\ changes' \in 0 .. MaxChanges
  BY <1>1, TakesStep
<1>3. n \in Names /\ row' = [row EXCEPT ![n] = None]
  BY Constants DEF DeleteRole
<1>4. /\ row' \in [Names -> 0 .. MaxIds]
      /\ \A x \in Names : row'[x] \in {None, ids'[x]}
      /\ \A x \in Names \ {n} : row'[x] = row[x]
  BY <1>1, <1>2, <1>3, Constants DEF TablesOK, None
<1>5. grant' \subseteq {m \in Roles : row'[m] # None} \X {k \in Keys : row'[k] # None}
  BY <1>1, <1>4, Constants DEF TablesOK, DeleteRole
<1>6. member' \subseteq user' \X {m \in Roles : row'[m] # None}
  BY <1>1, <1>4, Constants DEF TablesOK, DeleteRole
<1>7. stripped' \subseteq 1 .. made'
  BY <1>1, <1>2 DEF TablesOK, DeleteRole
<1>8. TablesOK'
  BY <1>1, <1>2, <1>4, <1>5, <1>6, <1>7 DEF TablesOK
<1>9. AccountsHaveRoles'
  <2> SUFFICES ASSUME NEW u \in user' \ stripped'
               PROVE  RolesOf(u)' # {} \/ email'[u] = SuperEmail
    BY DEF AccountsHaveRoles
  <2>1. u \in user \ stripped /\ <<u, n>> \notin member
    BY <1>1 DEF DeleteRole
  <2>2. RolesOf(u)' = RolesOf(u)
    BY <2>1 DEF RolesOf, DeleteRole
  <2> QED
    BY <1>1, <1>2, <2>1, <2>2 DEF AccountsHaveRoles
<1> QED
  BY <1>1, <1>8, <1>9, TakesStep, TypeParts DEF IInv

LEMMA DeletePermissionStep ==
  ASSUME IInv, NEW k \in Keys, DeletePermission(k)
  PROVE  IInv'
<1>1. TablesOK /\ AccountsHaveRoles /\ Takes /\ UNCHANGED <<user, member, stripped>>
  BY TypeParts DEF IInv, DeletePermission
<1>2. UNCHANGED <<ids, made, email, stamp>> /\ changes' \in 0 .. MaxChanges
  BY <1>1, TakesStep
<1>3. k \in Names /\ k \notin Roles /\ row' = [row EXCEPT ![k] = None]
  BY Constants DEF DeletePermission
<1>4. /\ row' \in [Names -> 0 .. MaxIds]
      /\ \A x \in Names : row'[x] \in {None, ids'[x]}
      /\ \A x \in Names \ {k} : row'[x] = row[x]
  BY <1>1, <1>2, <1>3, Constants DEF TablesOK, None
<1>5. grant' \subseteq {m \in Roles : row'[m] # None} \X {j \in Keys : row'[j] # None}
  BY <1>1, <1>3, <1>4, Constants DEF TablesOK, DeletePermission
<1>6. member' \subseteq user' \X {m \in Roles : row'[m] # None}
  BY <1>1, <1>3, <1>4, Constants DEF TablesOK
<1>7. TablesOK'
  BY <1>1, <1>2, <1>4, <1>5, <1>6 DEF TablesOK
<1> QED
  BY <1>1, <1>2, <1>7, TakesStep, TypeParts, RolesKept DEF IInv

LEMMA RevokeStep ==
  ASSUME IInv, \/ \E n \in Roles, k \in Keys : RevokePermission(n, k)
               \/ \E u \in Uids, n \in Roles : RevokeRole(u, n)
  PROVE  IInv'
<1>1. TablesOK /\ AccountsHaveRoles
  BY TypeParts DEF IInv
<1>2. ASSUME NEW n \in Roles, NEW k \in Keys, RevokePermission(n, k) PROVE IInv'
  <2>1. Takes /\ UNCHANGED <<row, user, member, stripped>> /\ grant' \subseteq grant
    BY <1>2 DEF RevokePermission
  <2>2. UNCHANGED <<ids, made, email, stamp>> /\ changes' \in 0 .. MaxChanges
    BY <2>1, TakesStep
  <2>3. TablesOK'
    BY <1>1, <2>1, <2>2 DEF TablesOK
  <2> QED
    BY <1>1, <2>1, <2>2, <2>3, TakesStep, TypeParts, RolesKept DEF IInv
<1>3. ASSUME NEW u \in Uids, NEW n \in Roles, RevokeRole(u, n) PROVE IInv'
  <2>1. /\ Takes /\ UNCHANGED <<row, grant, user>>
        /\ member' = member \ {<<u, n>>} /\ stripped' = stripped \cup {u} /\ u \in user
    BY <1>1, <1>3 DEF RevokeRole, TablesOK
  <2>2. UNCHANGED <<ids, made, email, stamp>> /\ changes' \in 0 .. MaxChanges
    BY <2>1, TakesStep
  <2>3. TablesOK'
    BY <1>1, <2>1, <2>2 DEF TablesOK
  <2>4. AccountsHaveRoles'
    BY <1>1, <2>1, <2>2 DEF AccountsHaveRoles, RolesOf
  <2> QED
    BY <2>1, <2>3, <2>4, TakesStep, TypeParts DEF IInv
<1> QED
  BY <1>2, <1>3

LEMMA DeleteAccountStep ==
  ASSUME IInv, NEW u \in Uids, DeleteAccount(u)
  PROVE  IInv'
<1>1. /\ TablesOK /\ AccountsHaveRoles /\ Takes /\ UNCHANGED <<row, grant, stripped>>
      /\ user' = user \ {u} /\ member' = {m \in member : m[1] # u}
  BY TypeParts DEF IInv, DeleteAccount
<1>2. UNCHANGED <<ids, made, email, stamp>> /\ changes' \in 0 .. MaxChanges
  BY <1>1, TakesStep
<1>3. TablesOK'
  BY <1>1, <1>2 DEF TablesOK
<1>4. AccountsHaveRoles'
  BY <1>1, <1>2 DEF AccountsHaveRoles, RolesOf
<1> QED
  BY <1>1, <1>3, <1>4, TakesStep, TypeParts DEF IInv

(* and what they add, *)
LEMMA CreateRoleStep ==
  ASSUME IInv, NEW n \in Roles, CreateRole(n)
  PROVE  IInv'
<1>1. TablesOK /\ AccountsHaveRoles /\ ReqOK /\ seed \in SeedRun /\ SeedOnTrack
  BY TypeParts DEF IInv
<1>2. /\ n \in Names /\ Upsert(n) /\ changes' \in 0 .. MaxChanges
      /\ UNCHANGED <<grant, users, member, seed, stripped, req>>
  BY <1>1, Constants DEF CreateRole, Upsert, TablesOK
<1>3. TablesOK'
  BY <1>1, <1>2, RowsGrow
<1>4. Grew
  BY <1>1, <1>2, UpsertStep DEF Grew, users
<1>5. ReqOK'
  BY <1>1, <1>2, UpsertStep, ReqKept DEF TablesOK
<1> QED
  BY <1>1, <1>2, <1>3, <1>4, <1>5, TrackKept, RolesKept, TypeParts DEF IInv, users

LEMMA AssignRoleStep ==
  ASSUME IInv, NEW u \in Uids, NEW n \in Roles, AssignRole(u, n)
  PROVE  IInv'
<1>1. TablesOK /\ AccountsHaveRoles /\ ReqOK /\ seed \in SeedRun /\ SeedOnTrack
  BY TypeParts DEF IInv
<1>2. /\ UNCHANGED <<row, ids, grant, users, seed, stripped, req>>
      /\ changes' \in 0 .. MaxChanges
      /\ u \in user /\ row[n] # None /\ member' = member \cup {<<u, n>>}
  BY <1>1, Constants DEF AssignRole, TablesOK
<1>3. TablesOK' /\ Grew /\ AccountsHaveRoles' /\ ReqOK'
  BY <1>1, <1>2 DEF TablesOK, Grew, AccountsHaveRoles, RolesOf, ReqOK, users
<1> QED
  BY <1>1, <1>2, <1>3, TrackKept, TypeParts DEF IInv

LEMMA StepIInv == IInv /\ [ProvNext]_provVars => IInv'
<1> SUFFICES ASSUME IInv, [ProvNext]_provVars PROVE IInv'
  OBVIOUS
<1>1. CASE Seeding
  BY <1>1, StartSeedStep, UpsertPermissionStep, UpsertRoleStep, UpsertGrantStep,
     UpsertSuperStep, UpsertMemberStep, SeedDiesStep DEF Seeding
<1>2. CASE Joining
  BY <1>2, StartStep, FindRolesStep, CreateAccountStep, CrashStep DEF Joining
<1>3. CASE Administering
  BY <1>3, DeleteRoleStep, DeletePermissionStep, RevokeStep, DeleteAccountStep,
     CreateRoleStep, AssignRoleStep DEF Administering
<1>4. CASE UNCHANGED provVars
  <2>1. TablesOK' /\ ReqOK' /\ seed' \in SeedRun /\ Grew
    BY <1>4, TypeParts
       DEF IInv, provVars, tables, users, history, TablesOK, ReqOK, Grew
  <2> QED
    BY <1>4, <2>1, TypeParts, TrackKept, RolesKept DEF IInv, provVars, tables, users, history
<1> QED
  BY <1>1, <1>2, <1>3, <1>4 DEF ProvNext

(* A seed that ran through has nothing left to do. *)
LEMMA OnTrackDelivers == ProvTypeOK /\ SeedOnTrack => SeedDelivers
<1> SUFFICES ASSUME ProvTypeOK, SeedOnTrack, seed.pc = "done", seed.clean
             PROVE  Promised
  BY DEF SeedDelivers
<1>1. \A k \in Keys : row[k] # None
  BY DEF SeedOnTrack, PermissionsOnTrack, StillThere
<1>2. \A n \in Seeded : Served(n)
  BY Constants DEF SeedOnTrack, RolesOnTrack
<1>3. \E u \in UserOf(SuperEmail) : <<u, Super>> \in member
  BY DEF SeedOnTrack, AdminOnTrack
<1> QED
  BY <1>1, <1>2, <1>3 DEF Promised, Served, StillThere

(* The tables keep their types, foreign keys and unique e-mails under any  *)
(* interleaving of the seed, registrations and administrators.             *)
THEOREM ProvTypeCorrect == ProvSpec => []ProvTypeOK
<1>1. IInv => ProvTypeOK
  BY DEF IInv
<1> QED
  BY InitIInv, StepIInv, <1>1, PTL DEF ProvSpec

(* prisma/seed.ts, which may die at any upsert and be run again, leaves    *)
(* every role, permission, grant and the super administrator when it ends, *)
(* unless something was taken away meanwhile or since.                     *)
THEOREM SeedAlwaysDelivers == ProvSpec => []SeedDelivers
<1>1. IInv => SeedDelivers
  BY OnTrackDelivers DEF IInv
<1> QED
  BY InitIInv, StepIInv, <1>1, PTL DEF ProvSpec

(* register and a first social login look roles up and grant them in two   *)
(* calls, and still no account comes to be without a role.                 *)
THEOREM AccountsAlwaysHaveRoles == ProvSpec => []AccountsHaveRoles
<1>1. IInv => AccountsHaveRoles
  BY DEF IInv
<1> QED
  BY InitIInv, StepIInv, <1>1, PTL DEF ProvSpec

-----------------------------------------------------------------------------
(* Listing: a walk over the lists of these tables only reads them, so all  *)
(* that is said above holds with walks as well.                            *)
LEMMA WalkReads == [Next]_listVars => [ProvNext]_provVars
<1>1. Walking => UNCHANGED provVars
  BY DEF Walking, Ask, FindMany, Count, AskNext, FollowLink, Stop
<1> QED
  BY <1>1 DEF Next, ProvNext, listVars

(* Only one row of a name is made or deleted in a step, and createdAt      *)
(* never changes.                                                          *)
RowsStep ==
  /\ made \in Nat /\ made <= made'
  /\ \A u \in 1 .. made : stamp'[u] = stamp[u]
  /\ \E x : \A y \in Names \ {x} : row'[y] = row[y]

LEMMA MakeUserRows ==
  ASSUME ProvTypeOK, NEW e, MakeUser(e), UNCHANGED row
  PROVE  RowsStep
<1>1. made \in Nat /\ made' = made + 1
  BY Constants DEF ProvTypeOK, MakeUser
<1>2. \A u \in 1 .. made : stamp'[u] = stamp[u]
  BY <1>1 DEF ProvTypeOK, MakeUser
<1> QED
  BY <1>1, <1>2 DEF RowsStep

LEMMA MakeRowRows ==
  ASSUME ProvTypeOK, NEW x, MakeRow(x), UNCHANGED users
  PROVE  RowsStep
<1>1. \A y \in Names \ {x} : row'[y] = row[y]
  BY DEF ProvTypeOK, MakeRow
<1>2. made \in Nat /\ made' = made /\ stamp' = stamp
  BY Constants DEF users, ProvTypeOK
<1> QED
  BY <1>1, <1>2 DEF RowsStep

LEMMA SameRows ==
  ASSUME ProvTypeOK, UNCHANGED <<row, made, stamp>>
  PROVE  RowsStep
BY Constants DEF ProvTypeOK, RowsStep

LEMMA SeedingRows == ProvTypeOK /\ Seeding => RowsStep
<1> SUFFICES ASSUME ProvTypeOK, Seeding PROVE RowsStep
  OBVIOUS
<1>1. CASE StartSeed \/ SeedDies \/ UpsertMember \/ \E k \in Keys : UpsertGrant(k)
  BY <1>1, SameRows DEF StartSeed, SeedDies, UpsertMember, UpsertGrant, tables, users
<1>2. ASSUME NEW x, Upsert(x), UNCHANGED users PROVE RowsStep
  BY <1>2, MakeRowRows, SameRows DEF Upsert, users
<1>3. CASE UpsertRole \/ \E k \in Keys : UpsertPermission(k)
  BY <1>2, <1>3 DEF UpsertRole, UpsertPermission
<1>4. CASE UpsertSuper
  BY <1>4, MakeUserRows, SameRows DEF UpsertSuper, users
<1> QED
  BY <1>1, <1>3, <1>4 DEF Seeding

LEMMA JoiningRows == ProvTypeOK /\ Joining => RowsStep
<1> SUFFICES ASSUME ProvTypeOK, NEW r \in Requests,
                    \/ \E e \in Emails, N \in RoleChoices : StartRegister(r, e, N)
                    \/ \E e \in Emails : StartSocial(r, e)
                    \/ FindRoles(r) \/ CreateAccount(r) \/ Crash(r)
             PROVE  RowsStep
  BY DEF Joining
<1>1. CASE CreateAccount(r)
  BY <1>1, MakeUserRows, SameRows DEF CreateAccount, users
<1>2. CASE ~CreateAccount(r)
  BY <1>2, SameRows DEF StartRegister, StartSocial, FindRoles, Crash, tables, users
<1> QED
  BY <1>1, <1>2

LEMMA AdministeringRows == ProvTypeOK /\ Administering => RowsStep
<1> SUFFICES ASSUME ProvTypeOK, Administering PROVE RowsStep
  OBVIOUS
<1>1. ASSUME NEW x, row' = [row EXCEPT ![x] = None], UNCHANGED <<made, stamp>> PROVE RowsStep
  <2>1. \A y \in Names \ {x} : row'[y] = row[y]
    BY <1>1 DEF ProvTypeOK
  <2> QED
    BY <1>1, <2>1, Constants DEF RowsStep, ProvTypeOK
<1>2. ASSUME NEW n \in Roles, CreateRole(n) \/ DeleteRole(n) PROVE RowsStep
  BY <1>1, <1>2, MakeRowRows DEF CreateRole, DeleteRole, Takes, users
<1>3. ASSUME NEW k \in Keys, DeletePermission(k) PROVE RowsStep
  BY <1>1, <1>3 DEF DeletePermission, Takes
<1>4. ASSUME NEW n \in Roles, NEW k \in Keys, RevokePermission(n, k) PROVE RowsStep
  BY <1>4, SameRows DEF RevokePermission, Takes
<1>5. ASSUME NEW u \in Uids, NEW n \in Roles, AssignRole(u, n) \/ RevokeRole(u, n) PROVE RowsStep
  BY <1>5, SameRows DEF AssignRole, RevokeRole, Takes, users
<1>6. ASSUME NEW u \in Uids, DeleteAccount(u) PROVE RowsStep
  BY <1>6, SameRows DEF DeleteAccount, Takes
<1> QED
  BY <1>2, <1>3, <1>4, <1>5, <1>6 DEF Administering

LEMMA EveryStepRows == ProvTypeOK /\ [ProvNext]_provVars => RowsStep
BY SeedingRows, JoiningRows, AdministeringRows, SameRows DEF ProvNext, provVars, tables, users

(* There may be any number of names; the rows are finitely many. *)
FiniteRows == IsFiniteSet({x \in Names : row[x] # None})

LEMMA FiniteRowsKept == FiniteRows /\ RowsStep => FiniteRows'
<1> SUFFICES ASSUME FiniteRows, RowsStep PROVE FiniteRows'
  OBVIOUS
<1> DEFINE S == {x \in Names : row[x] # None}
<1>1. PICK x : \A y \in Names \ {x} : row'[y] = row[y]
  BY DEF RowsStep
<1>2. {y \in Names : row'[y] # None} \subseteq S \cup {x}
  BY <1>1
<1>3. IsFiniteSet(S \cup {x})
  BY FS_AddElement DEF FiniteRows
<1> HIDE DEF S
<1>4. IsFiniteSet({y \in Names : row'[y] # None})
  BY <1>2, <1>3, FS_Subset
<1> QED
  BY <1>4 DEF FiniteRows

(* A list has finitely many rows, and none precedes itself. *)
LEMMA ListedRows ==
  ASSUME ProvTypeOK, FiniteRows, NEW list \in {"users", "roles", "permissions"}, NEW fs
  PROVE  /\ IsFiniteSet(Listed(list, fs))
         /\ \A x \in Listed(list, fs) : ~Precedes(list, x, x)
         /\ list = "users" => \A x \in Listed(list, fs) : x[1] \in 1 .. made
<1>1. CASE list = "users"
  <2>1. Listed(list, fs) \subseteq (1 .. made) \X (1 .. made)
    BY <1>1 DEF Listed, ProvTypeOK
  <2>2. IsFiniteSet((1 .. made) \X (1 .. made))
    <3>1. made \in Int
      BY Constants DEF ProvTypeOK
    <3>2. IsFiniteSet(1 .. made)
      BY <3>1, FS_Interval
    <3> QED
      BY <3>2, FS_Product
  <2>3. IsFiniteSet(Listed(list, fs))
    BY <2>1, <2>2, FS_Subset
  <2>4. \A x \in Listed(list, fs) : x[1] \in 1 .. made /\ x[1] \in Uids /\ stamp[x[1]] \in Nat
    <3> TAKE x \in Listed(list, fs)
    <3>1. x[1] \in 1 .. made
      BY <2>1
    <3>2. made \in 0 .. MaxUsers /\ stamp \in [Uids -> 0 .. MaxStamp]
      BY DEF ProvTypeOK
    <3>3. MaxUsers \in Nat /\ MaxStamp \in Nat
      BY ProvisioningAssumption
    <3>4. x[1] \in Uids
      BY <3>1, <3>2, <3>3 DEF Uids
    <3> QED
      BY <3>1, <3>2, <3>3, <3>4
  <2> QED
    BY <1>1, <2>3, <2>4 DEF Precedes
<1>2. CASE list \in {"roles", "permissions"}
  <2> DEFINE S == {x \in Names : row[x] # None}
  <2>1. Listed(list, fs) \subseteq S \X (0 .. MaxIds)
    BY <1>2, Constants DEF Listed, ProvTypeOK
  <2>2. IsFiniteSet(S \X (0 .. MaxIds))
    <3>1. IsFiniteSet(0 .. MaxIds)
      <4>1. 0 \in Int /\ MaxIds \in Int
        BY Constants
      <4> QED
        BY <4>1, FS_Interval
    <3>2. IsFiniteSet(S)
      BY DEF FiniteRows
    <3> HIDE DEF S
    <3> QED
      BY <3>1, <3>2, FS_Product
  <2>3. IsFiniteSet(Listed(list, fs))
    BY <2>1, <2>2, FS_Subset
  <2>4. \A x \in Listed(list, fs) : Rank[x[1]] \in Nat
    BY <2>1, ListingAssumption
  <2> QED
    BY <1>2, <2>3, <2>4 DEF Precedes
<1> QED
  BY <1>1, <1>2

(* Whatever order the database chooses among ties, a row that ties with    *)
(* none has its place: behind those that precede it.                       *)
LEMMA PlaceInOrder ==
  ASSUME NEW list, NEW S, IsFiniteSet(S), NEW o \in Ordered(list, S), NEW x \in S,
         ~Precedes(list, x, x),
         \A y \in S \ {x} : Precedes(list, x, y) \/ Precedes(list, y, x)
  PROVE  LET place == Cardinality({y \in S : Precedes(list, y, x)}) + 1 IN
         /\ place \in DOMAIN o /\ place \in Nat /\ place <= Cardinality(S)
         /\ \A i \in DOMAIN o : o[i] = x <=> i = place
<1> DEFINE n == Cardinality(S)
<1> DEFINE A == {y \in S : Precedes(list, y, x)}
<1>1. n \in Nat /\ Cardinality(1 .. n) = n
  BY FS_CardinalityType, FS_Interval
<1>2. o \in [1 .. n -> S] /\ \A i, j \in 1 .. n : i # j => o[i] # o[j]
  BY DEF Ordered, SetToSeqs
<1>3. \A i, j \in 1 .. n : i < j => ~Precedes(list, o[j], o[i])
  BY <1>2 DEF Ordered
<1> HIDE DEF n, A
<1>4. o \in Injection(1 .. n, S)
  BY <1>2 DEF Injection, IsInjective
<1>5. o \in Surjection(1 .. n, S)
  BY <1>1, <1>4, FS_Injection DEF n
<1>6. PICK k \in 1 .. n : o[k] = x
  BY <1>5 DEF Surjection
<1>7. \A j \in 1 .. n : Precedes(list, o[j], x) <=> j < k
  <2> TAKE j \in 1 .. n
  <2>1. CASE j = k
    BY <1>6, <2>1
  <2>2. CASE j < k
    BY <1>2, <1>3, <1>6, <2>2
  <2>3. CASE k < j
    BY <1>3, <1>6, <2>3
  <2> QED
    BY <2>1, <2>2, <2>3
<1>8. Cardinality(A) = k - 1
  <2> DEFINE f == [j \in 1 .. k - 1 |-> o[j]]
  <2>1. \A j \in 1 .. k - 1 : j \in 1 .. n /\ j < k /\ o[j] \in A
    BY <1>1, <1>2, <1>7 DEF A
  <2>2. f \in [1 .. k - 1 -> A] /\ \A i, j \in 1 .. k - 1 : f[i] = f[j] => i = j
    BY <1>2, <2>1
  <2>3. \A y \in A : \E j \in 1 .. k - 1 : f[j] = y
    <3> TAKE y \in A
    <3>1. PICK j \in 1 .. n : o[j] = y
      BY <1>5 DEF Surjection, A
    <3>2. j < k /\ j \in 1 .. k - 1
      BY <1>1, <1>7, <3>1 DEF A
    <3> QED
      BY <3>1, <3>2
  <2> HIDE DEF f
  <2>4. f \in Bijection(1 .. k - 1, A)
    BY <2>2, <2>3 DEF Bijection, Injection, IsInjective, Surjection
  <2>5. ExistsBijection(1 .. k - 1, A)
    BY <2>4 DEF ExistsBijection
  <2> QED
    BY <1>1, <2>5, FS_CountingElements
<1>9. DOMAIN o = 1 .. n /\ \A i \in 1 .. n : o[i] = x <=> i = k
  BY <1>2, <1>6
<1>10. Cardinality(A) + 1 = k /\ k \in Nat /\ k <= n
  BY <1>1, <1>8
<1> QED
  BY <1>9, <1>10 DEF A, n

-----------------------------------------------------------------------------
(* The walk.  Its list and filters are named by list and fs.               *)
WalkTypes ==
  /\ walk = [pc |-> walk.pc, list |-> walk.list, filters |-> walk.filters,
             page |-> walk.page, perPage |-> walk.perPage, shown |-> walk.shown,
             came |-> walk.came, went |-> walk.went, faithful |-> walk.faithful]
  /\ walk.pc \in {"idle", "findMany", "count", "next", "end"}
  /\ walk.list \in Lists \cup {"users"} /\ walk.faithful \in BOOLEAN
  /\ walk.page \in Nat \ {0} /\ walk.perPage \in 1 .. MaxPerPage
  /\ \A x \in DOMAIN walk.shown : walk.shown[x] \in Nat

(* What stands ahead of row x now. *)
Ahead(list, fs, x) == {y \in Listed(list, fs) : Precedes(list, y, x)}

(* In the list from the first page on, and tied with no row ever seen.     *)
Stayed(list, fs) == Listed(list, fs) \ (walk.came \cup walk.went)
Untied(list, fs, x) ==
  \A y \in (Listed(list, fs) \cup walk.came \cup walk.went) \ {x} :
    Precedes(list, x, y) \/ Precedes(list, y, x)

(* The rows that the pages shown so far had room for. *)
Covered == (IF walk.pc = "findMany" THEN walk.page - 1 ELSE walk.page) * walk.perPage

(* While nothing ahead of x left, x is unseen only if it still stands      *)
(* beyond the pages shown; the last page leaves nothing beyond it.         *)
NotMissed(list, fs, x) ==
  (\A y \in walk.went : ~Precedes(list, y, x)) /\ Times(x) = 0 =>
    walk.pc # "end" /\ Cardinality(Ahead(list, fs, x)) >= Covered

(* While nothing arrived ahead of x, x once shown stands in pages shown.   *)
NotRepeated(list, fs, x) ==
  (\A y \in walk.came : ~Precedes(list, y, x)) =>
    Times(x) = 0 \/ (Times(x) = 1 /\ Cardinality(Ahead(list, fs, x)) < Covered)

WalkOnTrack == walk.pc # "idle" /\ walk.faithful =>
  \A list \in {walk.list}, fs \in {walk.filters} :
    \A x \in Stayed(list, fs) :
      Untied(list, fs, x) => NotMissed(list, fs, x) /\ NotRepeated(list, fs, x)

(* The rows that came and went are of accounts that were made. *)
RowsMade == walk.list = "users" => \A y \in walk.came \cup walk.went : y[1] \in 1 .. made

ListInv == IInv /\ FiniteRows /\ WalkTypes /\ RowsMade /\ WalkOnTrack

LEMMA PageArithmetic ==
  ASSUME NEW page \in Nat \ {0}, NEW perPage \in Nat \ {0}
  PROVE  /\ page * perPage \in Nat /\ (page - 1) * perPage \in Nat
         /\ (page - 1) * perPage + perPage = page * perPage
OBVIOUS

LEMMA MaxOfOne ==
  ASSUME NEW q \in Nat
  PROVE  Max({1, q}) \in {1, q} /\ Max({1, q}) >= q
<1> DEFINE Top(m) == m \in {1, q} /\ \A y \in {1, q} : m >= y
<1>1. Top(1) \/ Top(q)
  OBVIOUS
<1> HIDE DEF Top
<1>2. Top(CHOOSE m : Top(m))
  BY <1>1, Zenon
<1>3. Max({1, q}) = CHOOSE m : Top(m)
  BY DEF Max, Top
<1> QED
  BY <1>2, <1>3 DEF Top

LEMMA LastPage ==
  ASSUME NEW page \in Nat \ {0}, NEW perPage \in Nat \ {0}, NEW total \in Nat,
         ~(page < TotalPages(total, perPage))
  PROVE  total <= page * perPage
<1> DEFINE q == (total + perPage - 1) \div perPage
<1>1. q \in Nat /\ total + perPage - 1 < (q + 1) * perPage
  OBVIOUS
<1>2. Max({1, q}) \in {1, q} /\ Max({1, q}) >= q
  BY <1>1, MaxOfOne
<1>3. Max({1, q}) \in Nat
  BY <1>1, <1>2
<1>4. page >= q
  BY <1>1, <1>2, <1>3 DEF TotalPages
<1> HIDE DEF q
<1>5. q * perPage <= page * perPage
  BY <1>1, <1>4
<1>6. (q + 1) * perPage = q * perPage + perPage
  BY <1>1
<1>7. q * perPage \in Nat /\ page * perPage \in Nat
  BY <1>1
<1> QED
  BY <1>1, <1>5, <1>6, <1>7

LEMMA CoveredNat == WalkTypes => Covered \in Nat
BY ListingAssumption, PageArithmetic DEF WalkTypes, Covered

LEMMA TimesNat == WalkTypes => \A x : Times(x) \in Nat
BY DEF WalkTypes, Times

LEMMA ParseBounds ==
  /\ \A x \in PageInputs : ParsePage(x) \in Nat \ {0}
  /\ \A x \in PerPageInputs : ParsePerPage(x) \in 1 .. MaxPerPage
BY ListingAssumption DEF ParsePage, ParsePerPage

LEMMA NoWalkStep ==
  ASSUME walk' = NoWalk
  PROVE  WalkTypes' /\ RowsMade' /\ WalkOnTrack'
<1>1. WalkTypes'
  BY ListingAssumption DEF WalkTypes, NoWalk
<1>2. RowsMade' /\ WalkOnTrack'
  BY DEF RowsMade, WalkOnTrack, NoWalk
<1> QED
  BY <1>1, <1>2

LEMMA InitList == Init => ListInv
<1> SUFFICES ASSUME Init PROVE ListInv
  OBVIOUS
<1>1. IInv
  BY InitIInv DEF Init
<1>2. FiniteRows
  <2>1. {x \in Names : row[x] # None} = {}
    BY DEF Init, ProvInit, NoIds
  <2> QED
    BY <2>1, FS_EmptySet DEF FiniteRows
<1>3. WalkTypes
  BY ListingAssumption DEF Init, WalkTypes, NoWalk
<1>4. RowsMade /\ WalkOnTrack
  BY DEF Init, RowsMade, WalkOnTrack, NoWalk
<1> QED
  BY <1>1, <1>2, <1>3, <1>4 DEF ListInv

LEMMA ListKinds == WalkTypes => walk.list \in {"users", "roles", "permissions"}
BY ListingAssumption DEF WalkTypes

AllListsFinite ==
  \A list \in {"users", "roles", "permissions"} : \A fs : IsFiniteSet(Listed(list, fs))

LEMMA FiniteLists == ProvTypeOK /\ FiniteRows => AllListsFinite
BY ListedRows DEF AllListsFinite

LEMMA FiniteListsNext == ProvTypeOK' /\ FiniteRows' => AllListsFinite'
BY FiniteLists, PTL

LEMMA AheadFinite ==
  ASSUME NEW S, IsFiniteSet(S), NEW T, T \subseteq S
  PROVE  IsFiniteSet(T) /\ Cardinality(T) \in Nat /\ Cardinality(T) <= Cardinality(S)
BY FS_Subset, FS_CardinalityType

-----------------------------------------------------------------------------
(* The tables change under the walk. *)
LEMMA ShiftStep ==
  ASSUME ListInv, RowsStep, ProvTypeOK', FiniteRows', Shift
  PROVE  WalkTypes' /\ RowsMade' /\ WalkOnTrack'
<1>1. CASE walk' = walk /\ walk.pc = "idle"
  <2>1. WalkTypes'
    BY <1>1 DEF ListInv, WalkTypes
  <2>2. RowsMade'
    <3>1. made \in Nat /\ made' \in Nat /\ made <= made'
      BY Constants DEF RowsStep, ProvTypeOK
    <3> QED
      BY <1>1, <3>1 DEF ListInv, RowsMade
  <2>3. WalkOnTrack'
    BY <1>1 DEF WalkOnTrack
  <2> QED
    BY <2>1, <2>2, <2>3
<1>2. CASE walk.pc # "idle"
  <2>1. PICK list, fs, before : list = walk.list /\ fs = walk.filters /\ before = Listed(list, fs)
    OBVIOUS
  <2>2. PICK after : after = Listed(list, fs)'
    OBVIOUS
  <2>3. walk' = [walk EXCEPT !.came = @ \cup (after \ before), !.went = @ \cup (before \ after)]
    BY <1>2, <2>1, <2>2 DEF Shift
  <2>4. /\ walk'.came = walk.came \cup (after \ before)
        /\ walk'.went = walk.went \cup (before \ after)
        /\ walk'.pc = walk.pc /\ walk'.list = list /\ walk'.filters = fs
        /\ walk'.page = walk.page /\ walk'.perPage = walk.perPage /\ walk'.shown = walk.shown
        /\ walk'.faithful = walk.faithful /\ WalkTypes'
    BY <2>1, <2>3 DEF ListInv, WalkTypes
  <2>5. /\ list \in {"users", "roles", "permissions"}
        /\ list = "users" => \A y \in before \cup walk.came \cup walk.went : y[1] \in 1 .. made
        /\ IsFiniteSet(before)
    BY <2>1, ListKinds, ListedRows DEF ListInv, IInv, RowsMade
  <2>6. IsFiniteSet(after)
    BY <2>2, <2>5, FiniteListsNext DEF AllListsFinite
  <2>7. list = "users" => \A y \in after : y[1] \in 1 .. made'
    BY <2>2 DEF Listed, ProvTypeOK
  <2>8. RowsMade'
    <3>1. made \in Nat /\ made' \in Nat /\ made <= made'
      BY Constants DEF RowsStep, ProvTypeOK
    <3>2. list = "users" => \A y \in walk'.came \cup walk'.went : y[1] \in 1 .. made'
      BY <2>4, <2>5, <2>7, <3>1
    <3> QED
      BY <2>4, <3>2 DEF RowsMade
  <2>9. \A x, y \in before \cup walk.came \cup walk.went :
          Precedes(list, x, y)' <=> Precedes(list, x, y)
    BY <2>5 DEF Precedes, RowsStep
  <2>10. Covered' = Covered /\ \A x : Times(x)' = Times(x)
    BY <2>4 DEF Covered, Times
  <2>11. ASSUME walk.faithful, NEW x \in Stayed(list, fs)', Untied(list, fs, x)'
         PROVE  NotMissed(list, fs, x)' /\ NotRepeated(list, fs, x)'
    <3>1. x \in after /\ x \in before /\ x \notin walk.came \cup walk.went
      BY <2>2, <2>4, <2>11 DEF Stayed
    <3>2. Untied(list, fs, x)
      <4> SUFFICES ASSUME NEW y \in (before \cup walk.came \cup walk.went) \ {x}
                   PROVE  Precedes(list, x, y) \/ Precedes(list, y, x)
        BY <2>1 DEF Untied
      <4>1. y \in (after \cup walk'.came \cup walk'.went) \ {x}
        BY <2>4
      <4>2. Precedes(list, x, y)' \/ Precedes(list, y, x)'
        BY <2>2, <2>11, <4>1 DEF Untied
      <4> QED
        BY <2>9, <3>1, <4>2
    <3>3. NotMissed(list, fs, x) /\ NotRepeated(list, fs, x)
      BY <1>2, <2>1, <2>11, <3>1, <3>2 DEF ListInv, WalkOnTrack, Stayed
    <3>4. PICK A, B : /\ A = {y \in before : Precedes(list, y, x)}
                      /\ B = {y \in after : Precedes(list, y, x)'}
      OBVIOUS
    <3>5. Ahead(list, fs, x) = A /\ Ahead(list, fs, x)' = B
      BY <2>1, <2>2, <3>4 DEF Ahead
    <3>6. /\ IsFiniteSet(A) /\ Cardinality(A) \in Nat
          /\ IsFiniteSet(B) /\ Cardinality(B) \in Nat /\ Covered \in Nat
      BY <2>5, <2>6, <3>4, AheadFinite, CoveredNat DEF ListInv
    <3>7. ASSUME \A y \in walk'.went : ~Precedes(list, y, x)', Times(x) = 0
          PROVE  walk.pc # "end" /\ Cardinality(B) >= Covered
      <4>1. A \subseteq B
        BY <2>4, <2>9, <3>1, <3>4, <3>7
      <4>2. Cardinality(A) <= Cardinality(B)
        BY <3>6, <4>1, AheadFinite
      <4>3. walk.pc # "end" /\ Cardinality(A) >= Covered
        BY <2>4, <2>9, <3>1, <3>3, <3>5, <3>7 DEF NotMissed
      <4> QED
        BY <3>6, <4>2, <4>3
    <3>8. ASSUME \A y \in walk'.came : ~Precedes(list, y, x)'
          PROVE  Times(x) = 0 \/ (Times(x) = 1 /\ Cardinality(B) < Covered)
      <4>1. B \subseteq A
        BY <2>4, <2>9, <3>1, <3>4, <3>8
      <4>2. Cardinality(B) <= Cardinality(A)
        BY <3>6, <4>1, AheadFinite
      <4>3. Times(x) = 0 \/ (Times(x) = 1 /\ Cardinality(A) < Covered)
        BY <2>4, <2>9, <3>1, <3>3, <3>5, <3>8 DEF NotRepeated
      <4> QED
        BY <3>6, <4>2, <4>3
    <3> QED
      BY <2>4, <2>10, <3>5, <3>7, <3>8 DEF NotMissed, NotRepeated
  <2>12. WalkOnTrack'
    BY <2>4, <2>11 DEF WalkOnTrack
  <2> QED
    BY <2>4, <2>8, <2>12
<1> QED
  BY <1>1, <1>2 DEF Shift

-----------------------------------------------------------------------------
(* The steps of the walk itself, under which no table changes. *)
LEMMA SameLists ==
  ASSUME UNCHANGED provVars, NEW list, NEW fs
  PROVE  /\ Listed(list, fs)' = Listed(list, fs)
         /\ \A x, y : Precedes(list, x, y)' <=> Precedes(list, x, y)
         /\ \A x : Ahead(list, fs, x)' = Ahead(list, fs, x)
         /\ made' = made
<1>1. UNCHANGED <<row, user, made, email, stamp, member>>
  BY DEF provVars, tables, users
<1>2. \A x, y : Precedes(list, x, y)' <=> Precedes(list, x, y)
  BY <1>1 DEF Precedes
<1>3. Listed(list, fs)' = Listed(list, fs)
  BY <1>1 DEF Listed, Meets
<1>4. \A x : Ahead(list, fs, x)' = Ahead(list, fs, x)
  BY <1>2, <1>3 DEF Ahead
<1> QED
  BY <1>1, <1>2, <1>3, <1>4

(* A step that shows and forgets nothing, and after which the pages shown  *)
(* cover what they did. *)
LEMMA TurnStep ==
  ASSUME ListInv, UNCHANGED provVars,
         NEW pc \in {"next", "findMany"}, NEW page \in Nat \ {0},
         walk' = [walk EXCEPT !.pc = pc, !.page = page],
         walk.pc \in {"count", "next"},
         page = IF pc = "next" THEN walk.page ELSE walk.page + 1
  PROVE  WalkTypes' /\ RowsMade' /\ WalkOnTrack'
<1>1. /\ walk'.pc = pc /\ walk'.page = page
      /\ walk'.came = walk.came /\ walk'.went = walk.went
      /\ walk'.list = walk.list /\ walk'.filters = walk.filters
      /\ walk'.perPage = walk.perPage /\ walk'.shown = walk.shown
      /\ walk'.faithful = walk.faithful /\ WalkTypes'
  BY DEF ListInv, WalkTypes
<1>2. Covered' = Covered
  <2>1. walk.page \in Nat
    BY DEF ListInv, WalkTypes
  <2>2. (IF walk'.pc = "findMany" THEN walk'.page - 1 ELSE walk'.page) = walk.page
    BY <1>1, <2>1
  <2>3. (IF walk.pc = "findMany" THEN walk.page - 1 ELSE walk.page) = walk.page
    OBVIOUS
  <2> QED
    BY <1>1, <2>2, <2>3 DEF Covered
<1>3. \A x : Times(x)' = Times(x)
  BY <1>1 DEF Times
<1>4. RowsMade'
  BY <1>1, SameLists DEF ListInv, RowsMade
<1>5. ASSUME walk.faithful, NEW list \in {walk.list}, NEW fs \in {walk.filters},
             NEW x \in Stayed(list, fs)', Untied(list, fs, x)'
      PROVE  NotMissed(list, fs, x)' /\ NotRepeated(list, fs, x)'
  <2>1. x \in Stayed(list, fs) /\ Untied(list, fs, x)
    BY <1>1, <1>5, SameLists DEF Stayed, Untied
  <2>2. NotMissed(list, fs, x) /\ NotRepeated(list, fs, x)
    BY <1>5, <2>1 DEF ListInv, WalkOnTrack
  <2>3. NotMissed(list, fs, x)'
    BY <1>1, <1>2, <1>3, <2>2, SameLists DEF NotMissed
  <2>4. NotRepeated(list, fs, x)'
    BY <1>1, <1>2, <1>3, <2>2, SameLists DEF NotRepeated
  <2> QED
    BY <2>3, <2>4
<1>6. WalkOnTrack'
  BY <1>1, <1>5 DEF WalkOnTrack
<1> QED
  BY <1>1, <1>4, <1>6

LEMMA AskNextStep ==
  ASSUME ListInv, AskNext
  PROVE  WalkTypes' /\ RowsMade' /\ WalkOnTrack'
<1>1. PICK page : page = walk.page + 1
  OBVIOUS
<1>2. page \in Nat \ {0} /\ walk.pc = "next" /\ UNCHANGED provVars
  BY <1>1 DEF AskNext, ListInv, WalkTypes
<1>3. walk' = [walk EXCEPT !.pc = "findMany", !.page = page]
  BY <1>1 DEF AskNext
<1> QED
  BY <1>1, <1>2, <1>3, TurnStep

LEMMA FollowLinkStep ==
  ASSUME ListInv, FollowLink
  PROVE  WalkTypes' /\ RowsMade' /\ WalkOnTrack'
<1>1. PICK page : page = walk.page + 1 /\ page \in Nat \ {0}
  BY DEF ListInv, WalkTypes
<1>2. /\ walk'.came = walk.came /\ walk'.went = walk.went /\ walk'.list = walk.list
      /\ ~walk'.faithful /\ WalkTypes'
  <2>1. walk' = [walk EXCEPT !.pc = "findMany", !.page = page, !.filters = {}, !.faithful = FALSE]
    BY <1>1 DEF FollowLink
  <2>2. walk' = [pc |-> "findMany", list |-> walk.list, filters |-> {},
                 page |-> page, perPage |-> walk.perPage, shown |-> walk.shown,
                 came |-> walk.came, went |-> walk.went, faithful |-> FALSE]
    BY <1>1, <2>1 DEF ListInv, WalkTypes
  <2> QED
    BY <1>1, <2>2 DEF ListInv, WalkTypes
<1>3. made' = made
  BY DEF FollowLink, provVars, tables, users
<1> QED
  BY <1>2, <1>3 DEF ListInv, RowsMade, WalkOnTrack

(* On the first page nothing was shown, and nothing was covered. *)
LEMMA AskStep ==
  ASSUME ListInv, NEW list \in Lists, NEW q, NEW p \in PageInputs, NEW n \in PerPageInputs,
         Ask(list, q, p, n)
  PROVE  WalkTypes' /\ RowsMade' /\ WalkOnTrack'
<1>1. PICK fs, page, perPage :
        /\ fs = Kept(q) /\ page = ParsePage(p) /\ perPage = ParsePerPage(n)
        /\ page \in Nat \ {0} /\ perPage \in 1 .. MaxPerPage
  BY ParseBounds
<1>2. PICK first \in BOOLEAN : first <=> page = 1
  <2>1. CASE page = 1
    BY <2>1, TRUE \in BOOLEAN
  <2>2. CASE page # 1
    BY <2>2, FALSE \in BOOLEAN
  <2> QED
    BY <2>1, <2>2
<1>3. walk' = [NoWalk EXCEPT !.pc = "findMany", !.list = list, !.filters = fs, !.page = page,
                 !.perPage = perPage, !.faithful = first]
  BY <1>1, <1>2 DEF Ask
<1>4. /\ walk'.pc = "findMany" /\ walk'.list = list /\ walk'.filters = fs
      /\ walk'.page = page /\ walk'.perPage = perPage /\ walk'.faithful = first
      /\ walk'.came = {} /\ walk'.went = {} /\ walk'.shown = << >>
      /\ WalkTypes'
  <2>1. walk' = [pc |-> "findMany", list |-> list, filters |-> fs, page |-> page,
                 perPage |-> perPage, shown |-> << >>, came |-> {}, went |-> {},
                 faithful |-> first]
    BY <1>3 DEF NoWalk
  <2>2. DOMAIN << >> = {}
    OBVIOUS
  <2> QED
    BY <1>1, <2>1, <2>2 DEF WalkTypes
<1>5. \A x : Times(x)' = 0
  BY <1>4 DEF Times
<1>6. RowsMade'
  BY <1>4 DEF RowsMade
<1>7. ASSUME first, NEW x
      PROVE  NotMissed(list, fs, x)' /\ NotRepeated(list, fs, x)'
  <2>1. Covered' = 0
    BY <1>1, <1>2, <1>4, <1>7, ListingAssumption DEF Covered
  <2>2. Ahead(list, fs, x)' = Ahead(list, fs, x) /\ Cardinality(Ahead(list, fs, x)) \in Nat
    <3>1. IsFiniteSet(Listed(list, fs))
      BY ListedRows, ListingAssumption DEF ListInv, IInv
    <3>2. Ahead(list, fs, x) \subseteq Listed(list, fs)
      BY DEF Ahead
    <3> QED
      BY <3>1, <3>2, AheadFinite, SameLists DEF Ask
  <2> QED
    BY <1>4, <1>5, <2>1, <2>2 DEF NotMissed, NotRepeated
<1>8. WalkOnTrack'
  BY <1>4, <1>7 DEF WalkOnTrack
<1> QED
  BY <1>4, <1>6, <1>8

(* A page shows a row that ties with none once if it stands in the page,   *)
(* and not at all if not. *)
LEMMA FindManyStep ==
  ASSUME ListInv, FindMany
  PROVE  WalkTypes' /\ RowsMade' /\ WalkOnTrack'
<1>1. CASE walk' = NoWalk
  BY <1>1, NoWalkStep
<1>2. CASE walk' # NoWalk
  <2>1. PICK list, fs, rows, skip, perPage :
          /\ list = walk.list /\ fs = walk.filters /\ rows = Listed(list, fs)
          /\ skip = Skip(walk.page, walk.perPage) /\ perPage = walk.perPage
    OBVIOUS
  <2>2. PICK o, items :
          /\ o \in Ordered(list, rows)
          /\ items = {o[i] : i \in DOMAIN o \cap (skip + 1 .. skip + perPage)}
          /\ walk' = [walk EXCEPT !.pc = "count",
                        !.shown = [x \in DOMAIN walk.shown \cup items |->
                                     Times(x) + IF x \in items THEN 1 ELSE 0]]
    <3> DEFINE items(o) == {o[i] : i \in DOMAIN o \cap (Skip(walk.page, walk.perPage) + 1 ..
                                       Skip(walk.page, walk.perPage) + walk.perPage)}
    <3>1. PICK o \in Ordered(walk.list, Listed(walk.list, walk.filters)) :
            walk' = [walk EXCEPT !.pc = "count",
                       !.shown = [x \in DOMAIN walk.shown \cup items(o) |->
                                    Times(x) + IF x \in items(o) THEN 1 ELSE 0]]
      BY <1>2, Zenon DEF FindMany
    <3>2. o \in Ordered(list, rows)
      BY <2>1, <3>1
    <3>3. items(o) = {o[i] : i \in DOMAIN o \cap (skip + 1 .. skip + perPage)}
      BY <2>1, <3>1
    <3> QED
      BY <3>1, <3>2, <3>3, Zenon
  <2>3. PICK shown : /\ shown = [x \in DOMAIN walk.shown \cup items |->
                                   Times(x) + IF x \in items THEN 1 ELSE 0]
                     /\ walk' = [walk EXCEPT !.pc = "count", !.shown = shown]
    BY <2>2
  <2>4. /\ walk.pc = "findMany" /\ UNCHANGED provVars
        /\ walk.page \in Nat \ {0} /\ perPage \in Nat \ {0} /\ skip = (walk.page - 1) * perPage
    <3>1. walk.perPage \in Nat \ {0}
      BY ListingAssumption DEF ListInv, WalkTypes
    <3> QED
      BY <2>1, <3>1 DEF FindMany, ListInv, WalkTypes, Skip
  <2>5. \A x \in DOMAIN shown : shown[x] \in Nat
    BY <2>3, TimesNat DEF ListInv
  <2>6. /\ walk'.pc = "count" /\ walk'.shown = shown
        /\ walk'.came = walk.came /\ walk'.went = walk.went
        /\ walk'.list = list /\ walk'.filters = fs /\ walk'.page = walk.page
        /\ walk'.perPage = perPage /\ walk'.faithful = walk.faithful /\ WalkTypes'
    BY <2>1, <2>3, <2>5 DEF ListInv, WalkTypes
  <2>7. \A x : Times(x)' = Times(x) + IF x \in items THEN 1 ELSE 0
    <3>1. \A x : x \notin DOMAIN walk.shown => Times(x) = 0
      BY DEF Times
    <3> QED
      BY <2>3, <2>6, <3>1 DEF Times
  <2>8. Covered = skip /\ Covered' = skip + perPage /\ skip \in Nat
    BY <2>1, <2>4, <2>6, PageArithmetic DEF Covered
  <2>9. RowsMade'
    BY <2>1, <2>4, <2>6, SameLists DEF ListInv, RowsMade
  <2>10. ASSUME walk.faithful, NEW x \in Stayed(list, fs)', Untied(list, fs, x)'
         PROVE  NotMissed(list, fs, x)' /\ NotRepeated(list, fs, x)'
    <3>1. x \in Stayed(list, fs) /\ Untied(list, fs, x)
      BY <2>4, <2>6, <2>10, SameLists DEF Stayed, Untied
    <3>2. NotMissed(list, fs, x) /\ NotRepeated(list, fs, x)
      BY <2>1, <2>4, <2>10, <3>1 DEF ListInv, WalkOnTrack
    <3>3. /\ x \in rows /\ IsFiniteSet(rows) /\ ~Precedes(list, x, x)
          /\ \A y \in rows \ {x} : Precedes(list, x, y) \/ Precedes(list, y, x)
      BY <2>1, <3>1, ListKinds, ListedRows DEF ListInv, IInv, Stayed, Untied
    <3>4. PICK ahead : ahead = Cardinality(Ahead(list, fs, x))
      OBVIOUS
    <3>5. /\ ahead + 1 \in DOMAIN o /\ ahead + 1 \in Nat
          /\ \A i \in DOMAIN o : o[i] = x <=> i = ahead + 1
      <4>1. ahead = Cardinality({y \in rows : Precedes(list, y, x)})
        BY <2>1, <3>4 DEF Ahead
      <4> QED
        BY <2>2, <3>3, <4>1, PlaceInOrder
    <3>6. ahead \in Nat
      <4>1. Ahead(list, fs, x) \subseteq rows
        BY <2>1 DEF Ahead
      <4> QED
        BY <3>3, <3>4, <4>1, AheadFinite
    <3>7. x \in items <=> ahead >= skip /\ ahead < skip + perPage
      <4>1. x \in items <=> \E i \in DOMAIN o : i \in skip + 1 .. skip + perPage /\ o[i] = x
        BY <2>2
      <4>2. x \in items <=> ahead + 1 \in skip + 1 .. skip + perPage
        BY <3>5, <4>1
      <4> QED
        BY <2>4, <2>8, <3>6, <4>2
    <3>8. Ahead(list, fs, x)' = Ahead(list, fs, x) /\ Times(x) \in Nat
      BY <2>4, SameLists, TimesNat DEF ListInv
    <3>9. NotMissed(list, fs, x)'
      <4> SUFFICES ASSUME \A y \in walk'.went : ~Precedes(list, y, x)', Times(x)' = 0
                   PROVE  ahead >= skip + perPage
        BY <2>6, <2>8, <3>4, <3>8 DEF NotMissed
      <4>1. x \notin items /\ Times(x) = 0
        BY <2>7, <3>8
      <4>2. ahead >= skip
        BY <2>4, <2>6, <2>8, <3>2, <3>4, <4>1, SameLists DEF NotMissed
      <4> QED
        BY <2>4, <2>8, <3>6, <3>7, <4>1, <4>2
    <3>10. NotRepeated(list, fs, x)'
      <4> SUFFICES ASSUME \A y \in walk'.came : ~Precedes(list, y, x)'
                   PROVE  Times(x)' = 0 \/ (Times(x)' = 1 /\ ahead < skip + perPage)
        BY <2>8, <3>4, <3>8 DEF NotRepeated
      <4>1. Times(x) = 0 \/ (Times(x) = 1 /\ ahead < skip)
        BY <2>4, <2>6, <2>8, <3>2, <3>4, SameLists DEF NotRepeated
      <4> QED
        BY <2>4, <2>7, <2>8, <3>6, <3>7, <4>1
    <3> QED
      BY <3>9, <3>10
  <2>11. WalkOnTrack'
    BY <2>6, <2>10 DEF WalkOnTrack
  <2> QED
    BY <2>6, <2>9, <2>11
<1> QED
  BY <1>1, <1>2

(* The last page: every row stands in the pages shown. *)
LEMMA CountStep ==
  ASSUME ListInv, Count
  PROVE  WalkTypes' /\ RowsMade' /\ WalkOnTrack'
<1>1. PICK list, fs, total : /\ list = walk.list /\ fs = walk.filters
                             /\ total = Cardinality(Listed(list, fs))
  OBVIOUS
<1>2. walk.pc = "count" /\ UNCHANGED provVars /\ walk.page \in Nat \ {0}
  BY DEF Count, ListInv, WalkTypes
<1>3. IsFiniteSet(Listed(list, fs)) /\ total \in Nat
  BY <1>1, ListKinds, ListedRows, FS_CardinalityType DEF ListInv, IInv
<1>4. CASE walk.page < TotalPages(total, walk.perPage)
  <2>1. walk' = [walk EXCEPT !.pc = "next"]
    BY <1>1, <1>4 DEF Count
  <2>2. walk' = [walk EXCEPT !.pc = "next", !.page = walk.page]
    BY <2>1 DEF ListInv, WalkTypes
  <2> QED
    BY <1>2, <2>2, TurnStep
<1>5. CASE ~(walk.page < TotalPages(total, walk.perPage))
  <2>1. walk' = [walk EXCEPT !.pc = "end"]
    BY <1>1, <1>5 DEF Count
  <2>2. /\ walk'.pc = "end" /\ walk'.page = walk.page
        /\ walk'.came = walk.came /\ walk'.went = walk.went
        /\ walk'.list = list /\ walk'.filters = fs
        /\ walk'.perPage = walk.perPage /\ walk'.shown = walk.shown
        /\ walk'.faithful = walk.faithful /\ WalkTypes'
    BY <1>1, <2>1 DEF ListInv, WalkTypes
  <2>3. Covered' = Covered /\ total <= Covered /\ Covered \in Nat
    <3>1. Covered = walk.page * walk.perPage /\ walk.perPage \in Nat \ {0}
      BY <1>2, ListingAssumption DEF Covered, ListInv, WalkTypes
    <3> QED
      BY <1>2, <1>3, <1>5, <2>2, <3>1, LastPage, CoveredNat DEF Covered, ListInv
  <2>4. \A x : Times(x)' = Times(x)
    BY <2>2 DEF Times
  <2>5. RowsMade'
    BY <1>1, <1>2, <2>2, SameLists DEF ListInv, RowsMade
  <2>6. ASSUME walk.faithful, NEW x \in Stayed(list, fs)', Untied(list, fs, x)'
        PROVE  NotMissed(list, fs, x)' /\ NotRepeated(list, fs, x)'
    <3>1. x \in Stayed(list, fs) /\ Untied(list, fs, x)
      BY <1>2, <2>2, <2>6, SameLists DEF Stayed, Untied
    <3>2. NotMissed(list, fs, x) /\ NotRepeated(list, fs, x)
      BY <1>1, <1>2, <2>6, <3>1 DEF ListInv, WalkOnTrack
    <3>3. Cardinality(Ahead(list, fs, x)) \in Nat /\ Cardinality(Ahead(list, fs, x)) < total
      <4>1. x \in Listed(list, fs) /\ ~Precedes(list, x, x)
        BY <1>1, <3>1, ListKinds, ListedRows DEF ListInv, IInv, Stayed
      <4>2. Ahead(list, fs, x) \subseteq Listed(list, fs) \ {x}
        BY <4>1 DEF Ahead
      <4>3. IsFiniteSet(Listed(list, fs) \ {x}) /\ Cardinality(Listed(list, fs) \ {x}) = total - 1
        BY <1>1, <1>3, <4>1, FS_RemoveElement
      <4> QED
        BY <1>3, <4>2, <4>3, AheadFinite
    <3>4. NotMissed(list, fs, x)'
      <4> SUFFICES ASSUME \A y \in walk'.went : ~Precedes(list, y, x)', Times(x)' = 0
                   PROVE  FALSE
        BY DEF NotMissed
      <4>1. Cardinality(Ahead(list, fs, x)) >= Covered
        BY <1>2, <2>2, <2>4, <3>2, SameLists DEF NotMissed
      <4> QED
        BY <1>3, <2>3, <3>3, <4>1
    <3>5. NotRepeated(list, fs, x)'
      BY <1>2, <2>2, <2>3, <2>4, <3>2, SameLists DEF NotRepeated
    <3> QED
      BY <3>4, <3>5
  <2>7. WalkOnTrack'
    BY <2>2, <2>6 DEF WalkOnTrack
  <2> QED
    BY <2>2, <2>5, <2>7
<1> QED
  BY <1>4, <1>5

-----------------------------------------------------------------------------
LEMMA WalkingStep ==
  ASSUME ListInv, Walking
  PROVE  WalkTypes' /\ RowsMade' /\ WalkOnTrack'
<1>1. CASE Stop
  BY <1>1, NoWalkStep DEF Stop
<1> QED
  BY <1>1, AskStep, FindManyStep, CountStep, AskNextStep, FollowLinkStep DEF Walking

LEMMA SameWalk ==
  ASSUME ListInv, UNCHANGED listVars \/ (walk.pc = "idle" /\ UNCHANGED walk), RowsStep,
         ProvTypeOK'
  PROVE  WalkTypes' /\ RowsMade' /\ WalkOnTrack'
<1>1. walk' = walk
  BY DEF listVars
<1>2. WalkTypes'
  BY <1>1 DEF ListInv, WalkTypes
<1>3. RowsMade'
  <2>1. made \in Nat /\ made' \in Nat /\ made <= made'
    BY Constants DEF RowsStep, ProvTypeOK
  <2> QED
    BY <1>1, <2>1 DEF ListInv, RowsMade
<1>4. WalkOnTrack'
  <2>1. CASE walk.pc = "idle"
    BY <1>1, <2>1 DEF WalkOnTrack
  <2>2. CASE UNCHANGED listVars
    <3> SUFFICES ASSUME walk.pc # "idle", walk.faithful,
                        NEW list \in {walk.list}, NEW fs \in {walk.filters},
                        NEW x \in Stayed(list, fs)', Untied(list, fs, x)'
                 PROVE  NotMissed(list, fs, x)' /\ NotRepeated(list, fs, x)'
      BY <1>1 DEF WalkOnTrack
    <3>1. UNCHANGED provVars
      BY <2>2 DEF listVars
    <3>2. x \in Stayed(list, fs) /\ Untied(list, fs, x)
      BY <1>1, <3>1, SameLists DEF Stayed, Untied
    <3>3. NotMissed(list, fs, x) /\ NotRepeated(list, fs, x)
      BY <3>2 DEF ListInv, WalkOnTrack
    <3>4. Covered' = Covered /\ Times(x)' = Times(x)
      BY <1>1 DEF Covered, Times
    <3>5. NotMissed(list, fs, x)'
      BY <1>1, <3>1, <3>3, <3>4, SameLists DEF NotMissed
    <3>6. NotRepeated(list, fs, x)'
      BY <1>1, <3>1, <3>3, <3>4, SameLists DEF NotRepeated
    <3> QED
      BY <3>5, <3>6
  <2> QED
    BY <2>1, <2>2
<1> QED
  BY <1>2, <1>3, <1>4

LEMMA StepList == ListInv /\ [Next]_listVars => ListInv'
<1> SUFFICES ASSUME ListInv, [Next]_listVars PROVE ListInv'
  OBVIOUS
<1>1. IInv' /\ ProvTypeOK' /\ RowsStep
  BY WalkReads, StepIInv, EveryStepRows DEF ListInv, IInv
<1>2. FiniteRows'
  BY <1>1, FiniteRowsKept DEF ListInv
<1>3. WalkTypes' /\ RowsMade' /\ WalkOnTrack'
  <2>1. CASE Walking
    BY <2>1, WalkingStep
  <2>2. CASE Seeding /\ walk.pc = "idle" /\ UNCHANGED walk
    BY <1>1, <2>2, SameWalk
  <2>3. CASE Shift
    BY <1>1, <1>2, <2>3, ShiftStep
  <2>4. CASE UNCHANGED listVars
    BY <1>1, <2>4, SameWalk
  <2> QED
    BY <2>1, <2>2, <2>3, <2>4 DEF Next
<1> QED
  BY <1>1, <1>2, <1>3 DEF ListInv

LEMMA SpecList == Spec => []ListInv
BY InitList, StepList, PTL DEF Spec

(* The walks change no table: every behaviour with walks is one of         *)
(* Provisioning, and the theorems above hold of it.                        *)
THEOREM WalksOnlyRead == Spec => ProvSpec
<1>1. Init => ProvInit
  BY DEF Init
<1> QED
  BY <1>1, WalkReads, PTL DEF Spec, ProvSpec

(* Whatever a client sends for page and perPage, the database is asked for *)
(* 1 to MaxPerPage rows, from page 1 on.                                   *)
THEOREM TypeCorrect == Spec => []TypeOK
<1>1. ListInv => TypeOK
  BY DEF ListInv, IInv, WalkTypes, TypeOK
<1> QED
  BY <1>1, SpecList, PTL

(* A walk to the last page shows every row that was listed all along       *)
(* exactly once, unless the row ties with another, or a row before it left *)
(* (it may be missed) or arrived (it may be repeated): for every number of *)
(* rows, every perPage, and every order the database gives the ties.       *)
THEOREM WalksShowEachOnce == Spec => []WalkShowsEachOnce
<1>1. ListInv => WalkShowsEachOnce
  <2> SUFFICES ASSUME ListInv, walk.pc = "end", walk.faithful,
                      NEW x \in Stayed(walk.list, walk.filters),
                      Untied(walk.list, walk.filters, x)
               PROVE  \/ Times(x) = 1
                      \/ Times(x) = 0 /\ \E y \in walk.went : Precedes(walk.list, y, x)
                      \/ Times(x) > 1 /\ \E y \in walk.came : Precedes(walk.list, y, x)
    BY Zenon DEF WalkShowsEachOnce, Stayed, Untied
  <2>1. /\ NotMissed(walk.list, walk.filters, x)
        /\ NotRepeated(walk.list, walk.filters, x)
    BY DEF ListInv, WalkOnTrack
  <2>2. Times(x) \in Nat
    BY TimesNat DEF ListInv
  <2> QED
    BY <2>1, <2>2 DEF NotMissed, NotRepeated
<1> QED
  BY <1>1, SpecList, PTL
=============================================================================
