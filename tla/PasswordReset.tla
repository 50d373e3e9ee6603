---------------------------- MODULE PasswordReset ----------------------------
(***************************************************************************)
(* Password reset tokens: verifyPasswordResetOtp, which stores one after   *)
(* its code was accepted (OtpCodes), and resetPassword, which consumes it, *)
(* against account deletion.  storePasswordResetToken is two statements    *)
(* without a transaction; consumePasswordResetToken reads the row, then    *)
(* updates it by id alone.  Each action is one database call.  What a      *)
(* reset does to the sessions is in RefreshTokens.                         *)
(***************************************************************************)
EXTENDS Naturals, FiniteSets

CONSTANTS Users,
          Requests,    \* slots for concurrently running handlers
          TTL,         \* PASSWORD_RESET_TOKEN_EXPIRY_MINUTES, in ticks
          MaxTokens,   \* bound: rows ever created
          MaxClock     \* bound: the clock stops here

ASSUME ResetAssumption ==
  /\ Users # {}
  /\ IsFiniteSet(Requests)
  /\ TTL \in Nat \ {0} /\ MaxTokens \in Nat /\ MaxClock \in Nat

Ids == 1 .. MaxTokens
Nobody == 0

VARIABLES
  clock,
  user,      \* ids of the users rows
  issued,    \* tokens ever stored, by the order of their rows
  used,      \* those whose usedAt is set
  revoked,   \* those whose revokedAt is set
  owner,     \* owner[t]: userId
  expires,   \* expires[t]: expiresAt
  password,  \* password[u], named by the token it was set with; Nobody before
  grants,    \* history: how often consumePasswordResetToken accepted t
  raced,     \* history: tokens spent or revoked while another handler that had
             \* read them unspent was about to mark them
  req        \* req[r]: the handler in slot r

table == <<issued, used, revoked, owner, expires>>
history == <<grants, raced>>
vars == <<clock, user, table, password, history, req>>

SomeUser == CHOOSE u \in Users : TRUE
Idle == [pc |-> "idle", user |-> SomeUser, token |-> Nobody, expires |-> 0]
Become(r, h) == req' = [req EXCEPT ![r] = h]
Goto(r, step) == Become(r, [req[r] EXCEPT !.pc = step])
End(r) == Become(r, Idle)

(* The row is there, unused and unrevoked; deletion of the user takes it.  *)
Unspent(t) == t \in issued \ (used \cup revoked) /\ owner[t] \in user
UnspentOf(u) == {t \in Ids : Unspent(t) /\ owner[t] = u}

(* Resets between their read of t and their update of it. *)
Reading(t) == {r \in Requests : req[r].pc = "markUsed" /\ req[r].token = t}

Init ==
  /\ clock = 0
  /\ user = Users
  /\ issued = {} /\ used = {} /\ revoked = {}
  /\ owner = [t \in Ids |-> SomeUser]
  /\ expires = [t \in Ids |-> 0]
  /\ password = [u \in Users |-> Nobody]
  /\ grants = [t \in Ids |-> 0] /\ raced = {}
  /\ req = [r \in Requests |-> Idle]

-----------------------------------------------------------------------------
Issuing == {r \in Requests : req[r].pc \in {"revoke", "create"}}
Room == Cardinality(issued) + Cardinality(Issuing) < MaxTokens

(* verifyPasswordResetOtp, once consumeAndValidateOtp returned the user. *)
StartVerify(r, u) ==
  /\ req[r] = Idle /\ Room
  /\ u \in user
  /\ Become(r, [Idle EXCEPT !.pc = "revoke", !.user = u, !.expires = clock + TTL])
  /\ UNCHANGED <<clock, user, table, password, history>>

(* Mutant: the older tokens stay valid. *)
RevokeNothing(r) ==
  /\ req[r].pc = "revoke"
  /\ Goto(r, "create")
  /\ UNCHANGED <<clock, user, table, password, history>>

(* storePasswordResetToken: the updateMany, then *)
Revoke(r) ==
  /\ req[r].pc = "revoke"
  /\ revoked' = revoked \cup UnspentOf(req[r].user)
  /\ raced' = raced \cup {t \in UnspentOf(req[r].user) : Reading(t) # {}}
  /\ Goto(r, "create")
  /\ UNCHANGED <<clock, user, issued, used, owner, expires, password, grants>>

(* the insert, whose foreign key fails when the user is gone. *)
Create(r) ==
  /\ req[r].pc = "create"
  /\ IF req[r].user \in user
     THEN \E t \in Ids \ issued :
            /\ \A s \in issued : s < t
            /\ \A s \in Ids \ issued : t <= s
            /\ issued' = issued \cup {t}
            /\ owner' = [owner EXCEPT ![t] = req[r].user]
            /\ expires' = [expires EXCEPT ![t] = req[r].expires]
     ELSE UNCHANGED <<issued, owner, expires>>
  /\ End(r)
  /\ UNCHANGED <<clock, user, used, revoked, password, history>>

-----------------------------------------------------------------------------
(* Mutants: revokedAt, and usedAt, are not looked at. *)
ReadIgnoresRevoked(r, t) ==
  /\ req[r] = Idle
  /\ t \in issued \ used /\ owner[t] \in user
  /\ clock <= expires[t]
  /\ Become(r, [Idle EXCEPT !.pc = "markUsed", !.user = owner[t], !.token = t])
  /\ UNCHANGED <<clock, user, table, password, history>>
ReadIgnoresUsed(r, t) ==
  /\ req[r] = Idle
  /\ t \in issued \ revoked /\ owner[t] \in user
  /\ clock <= expires[t]
  /\ Become(r, [Idle EXCEPT !.pc = "markUsed", !.user = owner[t], !.token = t])
  /\ UNCHANGED <<clock, user, table, password, history>>

(* resetPassword, consumePasswordResetToken: the findUnique; 401 unless    *)
(* the token is unspent and has not expired. *)
Read(r, t) ==
  /\ req[r] = Idle
  /\ Unspent(t) /\ clock <= expires[t]
  /\ Become(r, [Idle EXCEPT !.pc = "markUsed", !.user = owner[t], !.token = t])
  /\ UNCHANGED <<clock, user, table, password, history>>

(* Mutant: usedAt is never written. *)
MarkUsedForgets(r) ==
  LET t == req[r].token IN
  /\ req[r].pc = "markUsed"
  /\ IF owner[t] \in user
     THEN grants' = [grants EXCEPT ![t] = @ + 1] /\ Goto(r, "findUser")
     ELSE UNCHANGED grants /\ End(r)
  /\ UNCHANGED <<clock, user, table, password, raced>>

(* The update by id, and commit; it throws when the row went with its user. *)
MarkUsed(r) ==
  LET t == req[r].token IN
  /\ req[r].pc = "markUsed"
  /\ IF owner[t] \in user
     THEN /\ used' = used \cup {t}
          /\ grants' = [grants EXCEPT ![t] = @ + 1]
          /\ raced' = IF Reading(t) = {r} THEN raced ELSE raced \cup {t}
          /\ Goto(r, "findUser")
     ELSE UNCHANGED <<used, history>> /\ End(r)
  /\ UNCHANGED <<clock, user, issued, revoked, owner, expires, password>>

(* findUserById: 404. *)
FindUser(r) ==
  /\ req[r].pc = "findUser"
  /\ IF req[r].user \in user THEN Goto(r, "setPassword") ELSE End(r)
  /\ UNCHANGED <<clock, user, table, password, history>>

(* bcrypt, then updateUserPassword, which throws when the user is gone.    *)
(* (revokeAllRefreshTokens follows.)                                       *)
SetPassword(r) ==
  /\ req[r].pc = "setPassword"
  /\ IF req[r].user \in user
     THEN password' = [password EXCEPT ![req[r].user] = req[r].token]
     ELSE UNCHANGED password
  /\ End(r)
  /\ UNCHANGED <<clock, user, table, history>>

-----------------------------------------------------------------------------
(* deleteAccount: the reset tokens go with the user. *)
DeleteAccount(u) ==
  /\ u \in user
  /\ user' = user \ {u}
  /\ UNCHANGED <<clock, table, password, history, req>>

Crash(r) ==
  /\ req[r] # Idle
  /\ End(r)
  /\ UNCHANGED <<clock, user, table, password, history>>

Tick == /\ clock < MaxClock
        /\ clock' = clock + 1
        /\ UNCHANGED <<user, table, password, history, req>>

Handle(r) == Revoke(r) \/ Create(r) \/ MarkUsed(r) \/ FindUser(r) \/ SetPassword(r)

Next ==
  \/ \E r \in Requests : Handle(r) \/ Crash(r)
  \/ \E r \in Requests, u \in Users : StartVerify(r, u)
  \/ \E r \in Requests, t \in Ids : Read(r, t)
  \/ \E u \in Users : DeleteAccount(u)
  \/ Tick

Spec == Init /\ [][Next]_vars

-----------------------------------------------------------------------------
Handler == [pc: {"idle", "revoke", "create", "markUsed", "findUser", "setPassword"},
            user: Users, token: Ids \cup {Nobody}, expires: 0 .. MaxClock + TTL]

(* Types, and where the values come from: a handler past markUsed holds a  *)
(* used token of its user, and so does a password that was ever reset.     *)
UsedBy(u) == {t \in used : owner[t] = u}
TypeOK ==
  /\ clock \in 0 .. MaxClock
  /\ user \subseteq Users
  /\ issued \subseteq Ids /\ used \subseteq issued /\ revoked \subseteq issued
  /\ owner \in [Ids -> Users]
  /\ expires \in [Ids -> 0 .. MaxClock + TTL]
  /\ password \in [Users -> Ids \cup {Nobody}]
  /\ \A u \in Users : password[u] \in UsedBy(u) \cup {Nobody}
  /\ grants \in [Ids -> Nat]
  /\ raced \subseteq used \cup revoked
  /\ req \in [Requests -> Handler]
  /\ \A r \in Requests :
       req[r].pc \in {"findUser", "setPassword"} => req[r].token \in UsedBy(req[r].user)

(* A reset token is spent for good once the requests that read it unspent  *)
(* are done with it: replaced, used or expired, it is never accepted       *)
(* again, whatever overlaps, dies or is deleted.                           *)
SpentForGood ==
  [][\A t \in issued : ~(Unspent(t) /\ clock <= expires[t]) /\ Reading(t) = {}
       => grants'[t] = grants[t] /\ Reading(t)' = {}]_vars

(* "Revoke any existing unused tokens for this user first": valid tokens   *)
(* pile up with overlapping verifications, never with their number.        *)
LiveTokensBounded ==
  \A u \in Users : Cardinality(UnspentOf(u)) <= Cardinality(Requests)

-----------------------------------------------------------------------------
(* "a one-time token": it is accepted once, not after a newer one replaced *)
(* it, and not without its account.  The exception are tokens that were    *)
(* spent or replaced while another reset was between its read and its      *)
(* update; they are shown as void from then on.                            *)
Standing(t) == IF t \notin issued THEN "absent"
               ELSE IF owner[t] \notin user THEN "erased"
               ELSE IF t \in raced THEN "void"
               ELSE IF t \in used THEN "spent"
               ELSE IF t \in revoked THEN "void" ELSE "live"
View == [t \in Ids |-> Standing(t)]
Counted == [t \in Ids |-> IF t \in raced THEN 0 ELSE grants[t]]

Abstract == INSTANCE OneTimeToken WITH Token <- Ids, state <- View, grants <- Counted
ImplementsOneTimeToken == Abstract!Spec
=============================================================================
