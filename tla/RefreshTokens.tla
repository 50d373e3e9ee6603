---------------------------- MODULE RefreshTokens ----------------------------
(***************************************************************************)
(* Sessions of the auth module: the refresh_tokens table of Prisma's       *)
(* schema and the request handlers that read and write it (login, refresh, *)
(* logout, resetPassword, account deletion).  Express runs the handlers of *)
(* concurrent requests interleaved at every await, and PostgreSQL runs     *)
(* Prisma's interactive transactions at READ COMMITTED: a findUnique takes *)
(* no lock, so between the read and the write of one transaction any other *)
(* request may commit.  Each action below is one database call of a        *)
(* handler with the synchronous code around it.                            *)
(*                                                                         *)
(* A refresh token is the JWT {sub, iat, exp} signed with HS256: no jti,   *)
(* iat in whole seconds.  Its identity is therefore the pair <<user,       *)
(* second>>.  The table is kept column-wise: `stored' holds the keys, the  *)
(* other variables the columns.  A fresh uuid family is named by the token *)
(* that opens it.                                                          *)
(***************************************************************************)
EXTENDS Naturals, FiniteSets

CONSTANTS Users,       \* user ids
          Addresses,   \* what a request context may say of the client's address
          NoIP,        \* ... when it says nothing (requestedIp = null)
          Requests,    \* slots for concurrently running requests
          RefreshTTL,  \* JWT_REFRESH_EXPIRES_IN, in ticks
          MaxClock,    \* bound: the clock stops here
          MaxResets,   \* bound: password updates told apart, per user
          MayCrash     \* whether a request may die between two steps

ASSUME ConstantsAssumption ==
  /\ Users # {} /\ IsFiniteSet(Requests)
  /\ RefreshTTL \in Nat \ {0}
  /\ MaxClock \in Nat
  /\ MaxResets \in Nat
  /\ MayCrash \in BOOLEAN

Tokens == Users \X (0 .. MaxClock)

Owner(t) == t[1]
IssuedAt(t) == t[2]
ExpiresAt(t) == t[2] + RefreshTTL

VARIABLES
  clock,      \* seconds
  account,    \* account[u]: the users row
  password,   \* password[u]: how often u's password was replaced
  stored,     \* tokens with a row in refresh_tokens
  used,       \* ... whose usedAt is set
  revoked,    \* ... whose revokedAt is set
  family,     \* family[t]: familyId
  boundIP,    \* boundIP[t]: requestedIp
  req,        \* req[r]: the handler running in slot r
  held,       \* tokens that reached a client
  parent,     \* history: the token whose consumption t replaced (or t)
  provedBy,   \* history: the password t's session was opened with
  grants,     \* history: how often consumeRefreshToken accepted t
  condemned   \* history: families in which reuse was detected

table == <<stored, used, revoked, family, boundIP>>
history == <<parent, provedBy, grants, condemned>>
vars == <<clock, account, password, table, req, held, history>>

Active(t) == t \in stored /\ t \notin used /\ t \notin revoked
FamilyOf(f) == {t \in stored : family[t] = f}
ActiveIn(S) == {t \in S : Active(t)}

-----------------------------------------------------------------------------
(* The handler running in a slot.  `token' is the token presented to       *)
(* refreshTokens, later the token to hand out; `fam' the familyId read     *)
(* with it; `pw' the password the session behind the request was proved    *)
(* with.                                                                   *)

Resting == {"idle", "failed", "lost"}
Steps == {"read", "revokeFamily", "revokeToken", "markUsed", "lookup",
          "rotate", "open", "reply", "setPassword", "revokeAll"}

Handler == [pc: Resting \cup Steps, user: Users, token: Tokens, fam: Tokens,
            ip: Addresses \cup {NoIP}, pw: 0 .. MaxResets]

SomeUser == CHOOSE u \in Users : TRUE
Blank == [pc |-> "idle", user |-> SomeUser, token |-> <<SomeUser, 0>>,
          fam |-> <<SomeUser, 0>>, ip |-> NoIP, pw |-> 0]

Become(r, h) == req' = [req EXCEPT ![r] = h]
Goto(r, step) == Become(r, [req[r] EXCEPT !.pc = step])
(* The request was answered, or refused with a 4xx. *)
Done(r) == Become(r, Blank)
(* An exception the handler does not expect: the client gets a 500.  The   *)
(* request is "lost" when its token was already marked used.               *)
Throw(r, as) == Become(r, [Blank EXCEPT !.pc = as, !.user = req[r].user])
Failed(r) == Throw(r, "failed")

Init ==
  /\ clock = 0
  /\ account = [u \in Users |-> "active"]
  /\ password = [u \in Users |-> 0]
  /\ stored = {} /\ used = {} /\ revoked = {}
  /\ family = [t \in Tokens |-> t]
  /\ boundIP = [t \in Tokens |-> NoIP]
  /\ req = [r \in Requests |-> Blank]
  /\ held = {}
  /\ parent = [t \in Tokens |-> t]
  /\ provedBy = [t \in Tokens |-> 0]
  /\ grants = [t \in Tokens |-> 0]
  /\ condemned = {}

-----------------------------------------------------------------------------
(* login, the social logins and acceptInvite, up to the point where the    *)
(* user was found active and the credential was checked.                   *)
StartLogin(r, u, ip) ==
  /\ req[r].pc \in Resting
  /\ account[u] = "active"
  /\ Become(r, [req[r] EXCEPT !.pc = "open", !.user = u, !.ip = ip,
                              !.pw = password[u]])
  /\ UNCHANGED <<clock, account, password, table, held, history>>

(* storeRefreshToken: one INSERT.  It fails on a deleted user (foreign     *)
(* key) and on a token string that is already stored (tokenHash is         *)
(* unique): two tokens signed for one user in one second are equal.        *)
Store(r, t, f, p) ==
  IF account[req[r].user] = "deleted" \/ t \in stored
  THEN /\ Throw(r, IF req[r].pc = "rotate" THEN "lost" ELSE "failed")
       /\ UNCHANGED <<clock, account, password, table, held, history>>
  ELSE /\ stored' = stored \cup {t}
       /\ family' = [family EXCEPT ![t] = f]
       /\ boundIP' = [boundIP EXCEPT ![t] = req[r].ip]
       /\ parent' = [parent EXCEPT ![t] = p]
       /\ provedBy' = [provedBy EXCEPT ![t] = req[r].pw]
       /\ Become(r, [req[r] EXCEPT !.pc = "reply", !.token = t])
       /\ UNCHANGED <<clock, account, password, used, revoked, held, grants,
                      condemned>>

(* signRefreshToken(userId): sub and iat are all that varies. *)
Signed(r) == <<req[r].user, clock>>

(* issueRefreshToken(user.id, undefined, context): a new family. *)
Open(r) ==
  /\ req[r].pc = "open"
  /\ Store(r, Signed(r), Signed(r), Signed(r))

(* Mutant: the familyId is not passed on. *)
RotateNewFamily(r) ==
  /\ req[r].pc = "rotate"
  /\ Store(r, Signed(r), Signed(r), req[r].token)

(* issueRefreshToken(user.id, record.familyId, context): the same family. *)
Rotate(r) ==
  /\ req[r].pc = "rotate"
  /\ Store(r, Signed(r), req[r].fam, req[r].token)

(* The response with the token pair reaches the client. *)
Reply(r) ==
  /\ req[r].pc = "reply"
  /\ held' = held \cup {req[r].token}
  /\ Done(r)
  /\ UNCHANGED <<clock, account, password, table, history>>

-----------------------------------------------------------------------------
(* refreshTokens: the signature and exp are verified first, without the    *)
(* database; a token past its exp is refused here.                         *)
StartRefresh(r, t, ip) ==
  /\ req[r].pc \in Resting
  /\ t \in held
  /\ clock < ExpiresAt(t)
  /\ Become(r, [req[r] EXCEPT !.pc = "read", !.token = t, !.ip = ip])
  /\ UNCHANGED <<clock, account, password, table, held, history>>

(* consumeRefreshToken, the findUnique: what the row says now decides      *)
(* which write follows, whatever happens to the row in between.            *)
Mismatch(r) == LET b == boundIP[req[r].token]
               IN b # NoIP /\ req[r].ip # NoIP /\ b # req[r].ip

(* Mutants: one of the two flags is not looked at. *)
VerdictIgnoresUsed(r) == IF req[r].token \in revoked THEN "revokeFamily"
                         ELSE IF Mismatch(r) THEN "revokeToken" ELSE "markUsed"
VerdictIgnoresRevoked(r) == IF req[r].token \in used THEN "revokeFamily"
                            ELSE IF Mismatch(r) THEN "revokeToken" ELSE "markUsed"

Verdict(r) == IF ~Active(req[r].token) THEN "revokeFamily"
              ELSE IF Mismatch(r) THEN "revokeToken" ELSE "markUsed"

ReadRecord(r) ==
  LET t == req[r].token IN
  /\ req[r].pc = "read"
  /\ IF t \notin stored \/ ExpiresAt(t) < clock
     THEN Done(r)
     ELSE Become(r, [req[r] EXCEPT !.pc = Verdict(r), !.user = Owner(t),
                                   !.fam = family[t], !.pw = provedBy[t]])
  /\ UNCHANGED <<clock, account, password, table, held, history>>

(* Mutant: only the replayed token is revoked. *)
RevokeFamilyToken(r) ==
  /\ req[r].pc = "revokeFamily"
  /\ revoked' = revoked \cup ({req[r].token} \cap stored)
  /\ condemned' = condemned \cup {req[r].fam}
  /\ Done(r)
  /\ UNCHANGED <<clock, account, password, stored, used, family, boundIP,
                 held, parent, provedBy, grants>>

(* ... reuse detected: every active token of the family is revoked. *)
RevokeFamily(r) ==
  /\ req[r].pc = "revokeFamily"
  /\ revoked' = revoked \cup ActiveIn(FamilyOf(req[r].fam))
  /\ condemned' = condemned \cup {req[r].fam}
  /\ Done(r)
  /\ UNCHANGED <<clock, account, password, stored, used, family, boundIP,
                 held, parent, provedBy, grants>>

(* ... another address: update by tokenHash, which throws when the row is  *)
(* gone.                                                                   *)
RevokeToken(r) ==
  /\ req[r].pc = "revokeToken"
  /\ IF req[r].token \in stored
     THEN revoked' = revoked \cup {req[r].token} /\ Done(r)
     ELSE UNCHANGED revoked /\ Failed(r)
  /\ UNCHANGED <<clock, account, password, stored, used, family, boundIP,
                 held, history>>

(* Mutant: the missing row goes unnoticed. *)
MarkUsedUnchecked(r) ==
  /\ req[r].pc = "markUsed"
  /\ used' = used \cup {req[r].token}
  /\ grants' = [grants EXCEPT ![req[r].token] = @ + 1]
  /\ Goto(r, "lookup")
  /\ UNCHANGED <<clock, account, password, stored, revoked, family, boundIP,
                 held, parent, provedBy, condemned>>

(* ... accepted: update by tokenHash alone, not by the flags just read. *)
MarkUsed(r) ==
  LET t == req[r].token IN
  /\ req[r].pc = "markUsed"
  /\ IF t \in stored
     THEN /\ used' = used \cup {t}
          /\ grants' = [grants EXCEPT ![t] = @ + 1]
          /\ Goto(r, "lookup")
     ELSE UNCHANGED <<used, grants>> /\ Failed(r)
  /\ UNCHANGED <<clock, account, password, stored, revoked, family, boundIP,
                 held, parent, provedBy, condemned>>

(* findUserById(record.userId) and the two checks after it. *)
LookupUser(r) ==
  /\ req[r].pc = "lookup"
  /\ IF account[req[r].user] = "active" THEN Goto(r, "rotate") ELSE Done(r)
  /\ UNCHANGED <<clock, account, password, table, held, history>>

-----------------------------------------------------------------------------
(* logout: an expired token is accepted; updateMany by tokenHash alone. *)
Logout(r, t) ==
  /\ req[r].pc \in Resting
  /\ t \in held
  /\ revoked' = revoked \cup ({t} \cap stored)
  /\ UNCHANGED <<clock, account, password, stored, used, family, boundIP,
                 req, held, history>>

(* resetPassword from the point where the reset token was consumed and the *)
(* user found: first the password, then the sessions.                      *)
StartReset(r, u) ==
  /\ req[r].pc \in Resting
  /\ account[u] # "deleted"
  /\ password[u] < MaxResets
  /\ Become(r, [req[r] EXCEPT !.pc = "setPassword", !.user = u])
  /\ UNCHANGED <<clock, account, password, table, held, history>>

SetPassword(r) ==
  LET u == req[r].user IN
  /\ req[r].pc = "setPassword"
  /\ IF account[u] # "deleted"
     THEN /\ password' = [password EXCEPT ![u] = IF @ < MaxResets THEN @ + 1 ELSE @]
          /\ Goto(r, "revokeAll")
     ELSE UNCHANGED password /\ Failed(r)
  /\ UNCHANGED <<clock, account, table, held, history>>

(* Mutant: only the user's newest active token is revoked. *)
RevokeNewest(r) ==
  LET mine == ActiveIn({t \in stored : Owner(t) = req[r].user}) IN
  /\ req[r].pc = "revokeAll"
  /\ revoked' = revoked \cup {t \in mine : \A s \in mine : IssuedAt(s) <= IssuedAt(t)}
  /\ Done(r)
  /\ UNCHANGED <<clock, account, password, stored, used, family, boundIP,
                 held, history>>

RevokeAll(r) ==
  /\ req[r].pc = "revokeAll"
  /\ revoked' = revoked \cup ActiveIn({t \in stored : Owner(t) = req[r].user})
  /\ Done(r)
  /\ UNCHANGED <<clock, account, password, stored, used, family, boundIP,
                 held, history>>

-----------------------------------------------------------------------------
(* deleteAccount: the DELETE cascades to the user's refresh tokens. *)
DeleteAccount(u) ==
  LET mine == {t \in Tokens : Owner(t) = u} IN
  /\ account[u] # "deleted"
  /\ account' = [account EXCEPT ![u] = "deleted"]
  /\ stored' = stored \ mine
  /\ used' = used \ mine
  /\ revoked' = revoked \ mine
  /\ family' = [t \in Tokens |-> IF t \in mine THEN t ELSE family[t]]
  /\ boundIP' = [t \in Tokens |-> IF t \in mine THEN NoIP ELSE boundIP[t]]
  /\ parent' = [t \in Tokens |-> IF t \in mine THEN t ELSE parent[t]]
  /\ UNCHANGED <<clock, password, req, held, provedBy, grants, condemned>>

(* isActive is changed by an operator in the database. *)
SetActive(u, a) ==
  /\ account[u] # "deleted"
  /\ account' = [account EXCEPT ![u] = a]
  /\ UNCHANGED <<clock, password, table, req, held, history>>

(* A request dies: the process stops, the connection is lost or the        *)
(* transaction times out.  Committed writes stay.                          *)
Crash(r) ==
  /\ MayCrash
  /\ req[r].pc \in Steps
  /\ Done(r)
  /\ UNCHANGED <<clock, account, password, table, held, history>>

Tick ==
  /\ clock < MaxClock
  /\ clock' = clock + 1
  /\ UNCHANGED <<account, password, table, req, held, history>>

Handle(r) ==
  \/ Open(r) \/ Rotate(r) \/ Reply(r)
  \/ ReadRecord(r) \/ RevokeFamily(r) \/ RevokeToken(r) \/ MarkUsed(r)
  \/ LookupUser(r)
  \/ SetPassword(r) \/ RevokeAll(r)

Next ==
  \/ \E r \in Requests : Handle(r) \/ Crash(r)
  \/ \E r \in Requests, u \in Users, ip \in Addresses : StartLogin(r, u, ip)
  \/ \E r \in Requests, t \in Tokens, ip \in Addresses : StartRefresh(r, t, ip)
  \/ \E r \in Requests, t \in Tokens : Logout(r, t)
  \/ \E r \in Requests, u \in Users : StartReset(r, u)
  \/ \E u \in Users : DeleteAccount(u) \/ SetActive(u, "active") \/ SetActive(u, "inactive")
  \/ Tick

Spec == Init /\ [][Next]_vars
-----------------------------------------------------------------------------
TypeOK ==
  /\ clock \in 0 .. MaxClock
  /\ account \in [Users -> {"active", "inactive", "deleted"}]
  /\ password \in [Users -> 0 .. MaxResets]
  /\ stored \subseteq Tokens /\ used \subseteq stored /\ revoked \subseteq stored
  /\ family \in [Tokens -> Tokens]
  /\ boundIP \in [Tokens -> Addresses \cup {NoIP}]
  /\ req \in [Requests -> Handler]
  /\ held \subseteq Tokens
  /\ parent \in [Tokens -> Tokens]
  /\ provedBy \in [Tokens -> 0 .. MaxResets]
  /\ grants \in [Tokens -> Nat]
  /\ condemned \subseteq Tokens

(* Rotation leaves a chain: every stored token is either the one that      *)
(* opened its family or replaces an older token of the same family and     *)
(* user, and the token it replaces is still in the table and marked used.  *)
(* Whatever requests overlap, no successor exists beside an unspent        *)
(* predecessor (consumeRefreshToken commits before issueRefreshToken).     *)
Lineage ==
  \A t \in stored :
    /\ family[t] \in stored
    /\ family[family[t]] = family[t]
    /\ Owner(family[t]) = Owner(t)
    /\ \/ parent[t] = t /\ family[t] = t
       \/ /\ parent[t] \in used
          /\ family[parent[t]] = family[t]
          /\ IssuedAt(parent[t]) < IssuedAt(t)

(* Requests that read a token of family f as unspent and have not yet      *)
(* stored what replaces it.                                                *)
RotationOf(f) ==
  {r \in Requests : req[r].pc \in {"markUsed", "lookup", "rotate"} /\ req[r].fam = f}

(* A session is over when no token of it is active and no rotation of it   *)
(* is in flight.                                                           *)
Over(f) == ActiveIn(FamilyOf(f)) = {} /\ RotationOf(f) = {}
Opened(f) == f \in stored \/ account[Owner(f)] = "deleted"

(* A session that is over stays over: no interleaving of refreshes,        *)
(* logouts, logins, resets and deletions revives a family once no request  *)
(* is between reading and replacing one of its tokens.                     *)
OverIsForever ==
  [][\A f \in Tokens : Opened(f) /\ Over(f) => (Opened(f) /\ Over(f))']_vars

(* The flags of a row are never cleared: what was used or revoked stays so *)
(* as long as the account exists, and a token of a deleted account never   *)
(* comes back.                                                             *)
SpentIsFinal ==
  [][/\ \A t \in used : t \in used' \/ account'[Owner(t)] = "deleted"
     /\ \A t \in revoked : t \in revoked' \/ account'[Owner(t)] = "deleted"
     /\ \A t \in stored' : account[Owner(t)] # "deleted"]_vars

(* consumeRefreshToken accepts a token at most once per request that was   *)
(* already past its findUnique when the first acceptance committed: the    *)
(* number of acceptances is bounded by the overlap, never by time.         *)
PendingMarks(t) == {r \in Requests : req[r].pc = "markUsed" /\ req[r].token = t}
GrantsBoundedByOverlap ==
  \A t \in Tokens :
    /\ grants[t] + Cardinality(PendingMarks(t)) <= Cardinality(Requests)
    /\ (grants[t] > 0 => t \in used \/ account[Owner(t)] = "deleted")

-----------------------------------------------------------------------------
(* Claims of the documentation.  With one request at a time they hold;     *)
(* the MC modules show which of them overlapping requests break.           *)

(* "Soft-deletes the token": a rotated token is worth one successor. *)
OneSuccessor ==
  \A s, t \in stored : parent[s] = parent[t] /\ parent[s] # s /\ parent[t] # t => s = t

(* "the entire token family is revoked": from the moment reuse was         *)
(* detected no token of the family is active.                              *)
ReuseKillsFamily == \A t \in stored : Active(t) => family[t] \notin condemned

(* "revokes all existing refresh tokens to log the user out of all         *)
(* sessions": an active token was proved by the current password, except   *)
(* while the reset has not yet reached its second write.                   *)
ResetEndsSessions ==
  \A t \in stored :
    Active(t) /\ provedBy[t] # password[Owner(t)]
      => \E r \in Requests : req[r].pc = "revokeAll" /\ req[r].user = Owner(t)

(* "if valid, issues a new access token and refresh token pair": a refresh *)
(* whose token was accepted loses the session only to an account deletion. *)
NoRotationLost ==
  \A r \in Requests : req[r].pc = "lost" => account[req[r].user] = "deleted"

-----------------------------------------------------------------------------
(* The abstract view of a token. *)
View == [t \in Tokens |->
           IF account[Owner(t)] = "deleted" THEN "erased"
           ELSE IF t \notin stored THEN "absent"
           ELSE IF t \in used THEN "spent"
           ELSE IF t \in revoked THEN "void" ELSE "live"]

Abstract == INSTANCE OneTimeToken WITH Token <- Tokens, state <- View, grants <- grants
ImplementsOneTimeToken == Abstract!Spec
=============================================================================
