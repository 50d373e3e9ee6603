------------------------------- MODULE Invites -------------------------------
(***************************************************************************)
(* Staff invites: inviteUser with createUserInvite, acceptInvite with      *)
(* consumeUserInvite and createInvitedUserWithRoles, against the deletion  *)
(* of roles and accounts and the registration of the same e-mail.  The     *)
(* transactions run at READ COMMITTED and take no advisory lock.  Each     *)
(* action is one statement, or the one that commits.                       *)
(*                                                                         *)
(* An invite is named by the order of its row.  A deleted role never comes *)
(* back (ids are fresh), so a role is named by its id.                     *)
(***************************************************************************)
EXTENDS Naturals, FiniteSets

CONSTANTS Emails, Roles,
          Requests,     \* slots for concurrently running handlers
          InviteTTL,    \* INVITE_TOKEN_EXPIRY_HOURS, in ticks
          MaxInvites,   \* bound: rows ever created
          MaxClock      \* bound: the clock stops here

ASSUME InvitesAssumption ==
  /\ Emails # {} /\ Roles # {}
  /\ InviteTTL \in Nat \ {0} /\ MaxInvites \in Nat /\ MaxClock \in Nat

Ids == 1 .. MaxInvites

VARIABLES
  clock,
  role,        \* rows of roles
  account,     \* e-mails with a users row
  madeBy,      \* madeBy[e]: history, the invite the account of e came from, or 0
  assigned,    \* assigned[e]: the user_roles of the account of e
  issued,      \* rows of user_invites
  usedAt,      \* those with a usedAt: accepted, or replaced by a newer one
  sentTo,      \* sentTo[i]: email
  carries,     \* carries[i]: the user_invite_roles of i
  expires,     \* expires[i]: expiresAt
  req,         \* req[r]: the handler in slot r
  wanted,      \* history: the roles the inviter selected
  grants,      \* history: how often consumeUserInvite accepted i
  fruit,       \* history: invites that made an account
  rivaled,     \* history: invites whose e-mail had or got an account by another way
  died         \* history: invites whose handler died after it had spent them

invites == <<issued, usedAt, sentTo, carries, expires>>
people == <<account, madeBy, assigned>>
story == <<fruit, rivaled, died>>
history == <<wanted, grants, story>>
vars == <<clock, role, people, invites, req, history>>

InTx == {"invalidate", "create", "markUsed"}
Idle == [pc |-> "idle", email |-> CHOOSE e \in Emails : TRUE, roles |-> {}, id |-> 0,
         time |-> 0, snap |-> {}, dirty |-> {}]

Become(r, h) == req' = [req EXCEPT ![r] = h]
End(r) == Become(r, Idle)

Pending(i) == i \in issued \ usedAt
LiveFor(e, now) == {i \in issued \ usedAt : sentTo[i] = e /\ expires[i] > now}

(* No other transaction has changed a row of S and not yet committed. *)
Untouched(r, S) == \A q \in Requests \ {r} : req[q].dirty \cap S = {}

Init ==
  /\ clock = 0
  /\ role = Roles
  /\ account = {}
  /\ madeBy = [e \in Emails |-> 0]
  /\ assigned = [e \in Emails |-> {}]
  /\ issued = {} /\ usedAt = {}
  /\ sentTo = [i \in Ids |-> Idle.email]
  /\ carries = [i \in Ids |-> {}]
  /\ expires = [i \in Ids |-> 0]
  /\ req = [r \in Requests |-> Idle]
  /\ wanted = [i \in Ids |-> {}]
  /\ grants = [i \in Ids |-> 0]
  /\ fruit = {} /\ rivaled = {} /\ died = {}

-----------------------------------------------------------------------------
(* inviteUser: at least one role, and no account with the e-mail now. *)
StartInvite(r, e, R) ==
  /\ req[r] = Idle
  /\ R # {}
  /\ e \notin account
  /\ Become(r, [Idle EXCEPT !.pc = "findRoles", !.email = e, !.roles = R])
  /\ UNCHANGED <<clock, role, people, invites, history>>

(* findRolesByNames: 404 unless every role exists; findUserById: 404 when  *)
(* the inviter's account is gone.                                          *)
FindRoles(r) ==
  /\ req[r].pc = "findRoles"
  /\ \/ /\ req[r].roles \subseteq role
        /\ Become(r, [req[r] EXCEPT !.pc = "snapshot", !.time = clock + InviteTTL])
     \/ End(r)
  /\ UNCHANGED <<clock, role, people, invites, history>>

(* createUserInvite, the updateMany: the invites it sees unused and        *)
(* unexpired when it starts,                                               *)
Snapshot(r) ==
  /\ req[r].pc = "snapshot"
  /\ Become(r, [req[r] EXCEPT !.pc = "invalidate", !.snap = LiveFor(req[r].email, clock)])
  /\ UNCHANGED <<clock, role, people, invites, history>>

(* Mutant: earlier invites are left valid. *)
InvalidateNothing(r) ==
  /\ req[r].pc = "invalidate"
  /\ Become(r, [req[r] EXCEPT !.pc = "create", !.snap = {}])
  /\ UNCHANGED <<clock, role, people, invites, history>>

(* of which it takes, once no other transaction holds them, those still    *)
(* unused.                                                                 *)
Invalidate(r) ==
  /\ req[r].pc = "invalidate"
  /\ Untouched(r, req[r].snap)
  /\ Become(r, [req[r] EXCEPT !.pc = "create", !.snap = {}, !.dirty = req[r].snap \ usedAt])
  /\ UNCHANGED <<clock, role, people, invites, history>>

(* The insert with its user_invite_roles, which commits the transaction. *)
Insert(r) ==
  \E i \in Ids \ issued :
    /\ \A j \in issued : j < i
    /\ \A j \in Ids \ issued : i <= j
    /\ issued' = issued \cup {i}
    /\ usedAt' = usedAt \cup req[r].dirty
    /\ sentTo' = [sentTo EXCEPT ![i] = req[r].email]
    /\ carries' = [carries EXCEPT ![i] = req[r].roles]
    /\ expires' = [expires EXCEPT ![i] = req[r].time]
    /\ wanted' = [wanted EXCEPT ![i] = req[r].roles]
    /\ rivaled' = IF req[r].email \in account THEN rivaled \cup {i} ELSE rivaled

(* Mutant: a create that fails leaves the transaction open. *)
CreateLeavesOpen(r) ==
  /\ req[r].pc = "create"
  /\ IF req[r].roles \subseteq role
     THEN Insert(r) /\ End(r)
     ELSE UNCHANGED <<invites, wanted, rivaled>> /\ Become(r, [req[r] EXCEPT !.pc = "findRoles"])
  /\ UNCHANGED <<clock, role, people, grants, fruit, died>>

(* create: a role deleted meanwhile breaks the foreign key and the         *)
(* transaction is rolled back.                                             *)
Create(r) ==
  /\ req[r].pc = "create"
  /\ IF req[r].roles \subseteq role THEN Insert(r) ELSE UNCHANGED <<invites, wanted, rivaled>>
  /\ End(r)
  /\ UNCHANGED <<clock, role, people, grants, fruit, died>>

-----------------------------------------------------------------------------
(* acceptInvite: consumeUserInvite reads the row with its roles; 401 when  *)
(* it is used or expired.                                                  *)
StartAccept(r, i) ==
  /\ req[r] = Idle
  /\ Pending(i) /\ expires[i] > clock
  /\ Become(r, [Idle EXCEPT !.pc = "markUsed", !.id = i, !.email = sentTo[i],
                            !.roles = carries[i], !.time = clock])
  /\ UNCHANGED <<clock, role, people, invites, history>>

(* Mutant: the update is by id alone. *)
MarkUsedUnconditional(r) ==
  /\ req[r].pc = "markUsed"
  /\ Untouched(r, {req[r].id})
  /\ usedAt' = usedAt \cup {req[r].id}
  /\ grants' = [grants EXCEPT ![req[r].id] = @ + 1]
  /\ Become(r, [req[r] EXCEPT !.pc = "findUser"])
  /\ UNCHANGED <<clock, role, people, issued, sentTo, carries, expires, wanted, story>>

(* updateMany where usedAt is null and the row has not expired (at the     *)
(* time the transaction started); commit; 401 when it changed no row.      *)
MarkUsed(r) ==
  LET i == req[r].id IN
  /\ req[r].pc = "markUsed"
  /\ Untouched(r, {i})
  /\ IF Pending(i) /\ expires[i] > req[r].time
     THEN /\ usedAt' = usedAt \cup {i}
          /\ grants' = [grants EXCEPT ![i] = @ + 1]
          /\ Become(r, [req[r] EXCEPT !.pc = "findUser"])
     ELSE UNCHANGED <<usedAt, grants>> /\ End(r)
  /\ UNCHANGED <<clock, role, people, issued, sentTo, carries, expires, wanted, story>>

(* findUserByEmail: 409 when an account was made meanwhile. *)
FindUser(r) ==
  /\ req[r].pc = "findUser"
  /\ IF req[r].email \in account THEN End(r)
     ELSE Become(r, [req[r] EXCEPT !.pc = "createUser"])
  /\ UNCHANGED <<clock, role, people, invites, history>>

(* The account of e is made from invite i, or from none: then i is 0. *)
Born(e, i) ==
  /\ fruit' = fruit \cup ({i} \cap Ids)
  /\ rivaled' = rivaled \cup {j \in issued \ {i} : sentTo[j] = e}

(* Mutants: an upsert of the user and of the roles found at the start; the *)
(* expiry is checked once more, after the invite is spent.                 *)
CreateUserBlind(r) ==
  LET e == req[r].email IN
  /\ req[r].pc = "createUser"
  /\ account' = account \cup {e}
  /\ madeBy' = [madeBy EXCEPT ![e] = req[r].id]
  /\ assigned' = [assigned EXCEPT ![e] = @ \cup req[r].roles]
  /\ Born(e, req[r].id)
  /\ End(r)
  /\ UNCHANGED <<clock, role, invites, wanted, grants, died>>
CreateUserInTime(r) ==
  LET e == req[r].email IN
  /\ req[r].pc = "createUser"
  /\ IF e \notin account /\ req[r].roles \subseteq role /\ expires[req[r].id] > clock
     THEN /\ account' = account \cup {e}
          /\ madeBy' = [madeBy EXCEPT ![e] = req[r].id]
          /\ assigned' = [assigned EXCEPT ![e] = req[r].roles]
          /\ Born(e, req[r].id)
     ELSE UNCHANGED <<people, fruit, rivaled>>
  /\ End(r)
  /\ UNCHANGED <<clock, role, invites, wanted, grants, died>>

(* createInvitedUserWithRoles, one transaction: the user and a user_role   *)
(* for each role read with the invite.  The unique e-mail or a foreign key *)
(* to a deleted role rolls it back.  (The session the handler then opens   *)
(* is a login of RefreshTokens.)                                           *)
CreateUser(r) ==
  LET e == req[r].email IN
  /\ req[r].pc = "createUser"
  /\ IF e \notin account /\ req[r].roles \subseteq role
     THEN /\ account' = account \cup {e}
          /\ madeBy' = [madeBy EXCEPT ![e] = req[r].id]
          /\ assigned' = [assigned EXCEPT ![e] = req[r].roles]
          /\ Born(e, req[r].id)
     ELSE UNCHANGED <<people, fruit, rivaled>>
  /\ End(r)
  /\ UNCHANGED <<clock, role, invites, wanted, grants, died>>

-----------------------------------------------------------------------------
(* register or a first social login with the e-mail; its roles are not     *)
(* this module's.                                                          *)
Register(e) ==
  /\ e \notin account
  /\ account' = account \cup {e}
  /\ Born(e, 0)
  /\ UNCHANGED <<clock, role, madeBy, assigned, invites, req, wanted, grants, died>>

DeleteAccount(e) ==
  /\ e \in account
  /\ account' = account \ {e}
  /\ madeBy' = [madeBy EXCEPT ![e] = 0]
  /\ assigned' = [assigned EXCEPT ![e] = {}]
  /\ UNCHANGED <<clock, role, invites, req, history>>

(* deleteRole: the DELETE cascades to user_roles and user_invite_roles. *)
DeleteRole(x) ==
  /\ x \in role
  /\ role' = role \ {x}
  /\ assigned' = [e \in Emails |-> assigned[e] \ {x}]
  /\ carries' = [i \in Ids |-> carries[i] \ {x}]
  /\ UNCHANGED <<clock, account, madeBy, issued, usedAt, sentTo, expires, req, history>>

(* The connection or the process is lost: an open transaction is rolled    *)
(* back, committed ones stay.                                              *)
Accepting(r) == req[r].pc \in {"findUser", "createUser"}
Crash(r) ==
  /\ req[r] # Idle
  /\ died' = IF Accepting(r) THEN died \cup {req[r].id} ELSE died
  /\ End(r)
  /\ UNCHANGED <<clock, role, people, invites, wanted, grants, fruit, rivaled>>

Tick == /\ clock < MaxClock
        /\ clock' = clock + 1
        /\ UNCHANGED <<role, people, invites, req, history>>

Handle(r) ==
  \/ FindRoles(r) \/ Snapshot(r) \/ Invalidate(r) \/ Create(r)
  \/ MarkUsed(r) \/ FindUser(r) \/ CreateUser(r)

(* Invites that exist or that a running inviteUser may still create. *)
Room == Cardinality(issued) + Cardinality({r \in Requests : req[r] # Idle /\ req[r].id = 0})
          < MaxInvites

Next ==
  \/ \E r \in Requests : Handle(r) \/ Crash(r)
  \/ \E r \in Requests, e \in Emails, R \in SUBSET Roles : Room /\ StartInvite(r, e, R)
  \/ \E r \in Requests, i \in Ids : StartAccept(r, i)
  \/ \E e \in Emails : Register(e) \/ DeleteAccount(e)
  \/ \E x \in Roles : DeleteRole(x)
  \/ Tick

Spec == Init /\ [][Next]_vars

-----------------------------------------------------------------------------
Handler == [pc: {"idle", "findRoles", "snapshot", "findUser", "createUser"} \cup InTx,
            email: Emails, roles: SUBSET Roles, id: Ids \cup {0}, time: Nat,
            snap: SUBSET Ids, dirty: SUBSET Ids]

TypeOK ==
  /\ clock \in 0 .. MaxClock
  /\ role \subseteq Roles
  /\ account \subseteq Emails
  /\ madeBy \in [Emails -> Ids \cup {0}]
  /\ assigned \in [Emails -> SUBSET Roles]
  /\ issued \subseteq Ids /\ usedAt \subseteq issued
  /\ sentTo \in [Ids -> Emails]
  /\ carries \in [Ids -> SUBSET Roles]
  /\ expires \in [Ids -> Nat]
  /\ req \in [Requests -> Handler]
  /\ \A r \in Requests : req[r].dirty # {} => req[r].pc = "create"
  /\ wanted \in [Ids -> SUBSET Roles]
  /\ grants \in [Ids -> Nat]
  /\ fruit \subseteq usedAt /\ died \subseteq usedAt /\ rivaled \subseteq issued

(* An account that came from an invite has exactly the roles its inviter   *)
(* selected, less those deleted since: whatever is deleted, replaced or    *)
(* accepted at the same time, and never more than the invite it was made   *)
(* from carried.                                                           *)
InvitedRoles ==
  \A e \in account : madeBy[e] # 0 =>
    /\ assigned[e] = wanted[madeBy[e]] \cap role
    /\ sentTo[madeBy[e]] = e
    /\ grants[madeBy[e]] = 1

(* An invite is spent before its account exists, in another transaction.   *)
(* Still it comes to nothing only when the handler died in between, when   *)
(* its e-mail got another account, or when a selected role was deleted.    *)
SpentInvitesBearFruit ==
  \A i \in Ids : grants[i] > 0 =>
    \/ i \in fruit \cup rivaled \cup died
    \/ \E r \in Requests : Accepting(r) /\ req[r].id = i
    \/ ~(wanted[i] \subseteq role)

(* Invites pile up with overlapping inviteUser calls, never with their     *)
(* number: an e-mail has at most as many valid invites as handlers can     *)
(* overlap.                                                                *)
LiveInvitesBounded ==
  \A e \in Emails : Cardinality(LiveFor(e, clock)) <= Cardinality(Requests)

-----------------------------------------------------------------------------
(* An invite is accepted, or replaced, at most once. *)
Standing(i) == IF i \notin issued THEN "absent"
               ELSE IF grants[i] > 0 THEN "spent"
               ELSE IF i \in usedAt THEN "void" ELSE "live"
View == [i \in Ids |-> Standing(i)]

Abstract == INSTANCE OneTimeToken WITH Token <- Ids, state <- View
ImplementsOneTimeToken == Abstract!Spec
=============================================================================
