------------------------------ MODULE Accounts ------------------------------
(***************************************************************************)
(* How an account comes to be and how it is entered: register, the         *)
(* verification of a registration code, password login up to the password  *)
(* check, Google and Facebook login, and deletion.  Each action is one     *)
(* database call with the synchronous code around it; a $transaction is    *)
(* one action.                                                             *)
(*                                                                         *)
(* A registration code is what OtpCodes shows of it: only the newest of a  *)
(* target is good, and it is accepted once.  Here it matters who knows it. *)
(* isActive and the sessions themselves are in RefreshTokens.              *)
(***************************************************************************)
EXTENDS Naturals, FiniteSets

CONSTANTS Emails, Phones,
          Subjects,    \* accounts at the providers: their providerUserId
          Provider,    \* Provider[s]: "google" or "facebook"
          Requests,    \* slots for concurrently running handlers
          MaxUsers     \* bound: users rows ever created

ASSUME AccountsAssumption ==
  /\ Emails # {} /\ Emails \cap Phones = {} /\ Subjects # {}
  /\ DOMAIN Provider = Subjects
  /\ MaxUsers \in Nat

Contacts == Emails \cup Phones
Uids == 1 .. MaxUsers
None == 0

VARIABLES
  made,       \* users rows ever created
  user,       \* ids of the users rows
  contact,    \* contact[u]: the e-mail or the phone of u
  verified,   \* users with isVerified and the flag of their channel set
  linked,     \* auth_identities: pairs of subject and user id
  code,       \* code[c]: the pending registration code: "none", "sent", "unsent"
  proved,     \* history: contacts vouched for: a registration code or an invite
              \* sent there was redeemed, or a provider confirmed the e-mail
  entered,    \* history: users for whom a session was opened
  req         \* req[r]: the handler in slot r

rows == <<made, user, contact, verified, linked>>
history == <<proved, entered>>
vars == <<rows, code, history, req>>

Idle == [pc |-> "idle", kind |-> "none", contact |-> CHOOSE c \in Contacts : TRUE,
         subject |-> CHOOSE s \in Subjects : TRUE, link |-> None, uid |-> None,
         verified |-> FALSE]

Become(r, h) == req' = [req EXCEPT ![r] = h]
Goto(r, step) == Become(r, [req[r] EXCEPT !.pc = step])
End(r) == Become(r, Idle)

UserOf(c) == {u \in user : contact[u] = c}
LinkOf(s) == {u \in user : <<s, u>> \in linked}
LinksTo(u) == {s \in Subjects : <<s, u>> \in linked}
TakenAt(p, u) == \E s \in LinksTo(u) : Provider[s] = p

(* users.email and users.phone are unique. *)
CreateRow(c, isVerified) ==
  /\ UserOf(c) = {} /\ made < MaxUsers
  /\ made' = made + 1
  /\ user' = user \cup {made + 1}
  /\ contact' = [contact EXCEPT ![made + 1] = c]
  /\ verified' = IF isVerified THEN verified \cup {made + 1} ELSE verified
  /\ UNCHANGED linked

Init ==
  /\ made = 0
  /\ user = {} /\ verified = {} /\ linked = {} /\ proved = {} /\ entered = {}
  /\ contact = [u \in Uids |-> Idle.contact]
  /\ code = [c \in Contacts |-> "none"]
  /\ req = [r \in Requests |-> Idle]

(* Room for the rows the running handlers may create. *)
Creating == {r \in Requests : req[r].pc \in {"create", "social", "account", "provision"}}
Room == made + Cardinality(Creating) < MaxUsers

-----------------------------------------------------------------------------
(* register: 409 when the contact is taken now; then the roles, which are  *)
(* Provisioning's, and bcrypt. *)
StartRegister(r, c) ==
  /\ req[r].pc = "idle" /\ Room
  /\ UserOf(c) = {}
  /\ Become(r, [Idle EXCEPT !.pc = "create", !.contact = c])
  /\ UNCHANGED <<rows, code, history>>

(* createUserWithRolesAndOtp: the user, its roles and its code in one      *)
(* transaction; the response carries the code.  A contact taken meanwhile  *)
(* breaks the unique constraint and nothing is written.                    *)
CreateUser(r) ==
  LET c == req[r].contact IN
  /\ req[r].pc = "create"
  /\ \/ CreateRow(c, FALSE) /\ code' = [code EXCEPT ![c] = "sent"]
     \/ UserOf(c) # {} /\ UNCHANGED <<rows, code>>
  /\ End(r)
  /\ UNCHANGED history

(* resendOtp: for a target with a pending code; no account is looked up. *)
Resend(c) ==
  /\ code[c] # "none"
  /\ code' = [code EXCEPT ![c] = "sent"]
  /\ UNCHANGED <<rows, history, req>>

(* A pending code passes its expiresAt. *)
Expire(c) ==
  /\ code[c] # "none"
  /\ code' = [code EXCEPT ![c] = "none"]
  /\ UNCHANGED <<rows, history, req>>

(* verifyRegistrationOtp: the code is consumed first, *)
Consume(r, c) ==
  /\ req[r].pc = "idle"
  /\ code[c] = "sent"
  /\ code' = [code EXCEPT ![c] = "none"]
  /\ proved' = proved \cup {c}
  /\ Become(r, [Idle EXCEPT !.pc = "codeUser", !.kind = "code", !.contact = c])
  /\ UNCHANGED <<rows, entered>>

(* then the account of the target is looked up: 404 when there is none, *)
FindCodeUser(r) ==
  /\ req[r].pc = "codeUser"
  /\ \/ UserOf(req[r].contact) = {} /\ End(r)
     \/ \E u \in UserOf(req[r].contact) :
          Become(r, [req[r] EXCEPT !.pc = IF u \in verified THEN "session" ELSE "mark",
                                   !.uid = u])
  /\ UNCHANGED <<rows, code, history>>

(* and markUserAsVerified, which throws when the account is gone. *)
Mark(r) ==
  /\ req[r].pc = "mark"
  /\ IF req[r].uid \in user
     THEN verified' = verified \cup {req[r].uid} /\ Goto(r, "session")
     ELSE UNCHANGED verified /\ End(r)
  /\ UNCHANGED <<made, user, contact, linked, code, history>>

-----------------------------------------------------------------------------
(* login: the account of the identifier, with its flags.  (Unknown ones    *)
(* and wrong passwords are LoginProtection's.)                             *)
StartLogin(r, u) ==
  /\ req[r].pc = "idle"
  /\ u \in user
  /\ Become(r, [Idle EXCEPT !.pc = "identity", !.kind = "password", !.uid = u,
                            !.contact = contact[u], !.verified = u \in verified])
  /\ UNCHANGED <<rows, code, history>>

(* `identifier ? user.isEmailVerified : user.isPhoneVerified': there is    *)
(* always an identifier, so the flag of the e-mail decides.                *)
IsLoginMethodVerified(r) == req[r].verified /\ req[r].contact \in Emails

(* findAuthIdentity: an account with an identity of any provider is        *)
(* refused; then the verification decides.                                 *)
CheckIdentity(r) ==
  /\ req[r].pc = "identity"
  /\ IF LinksTo(req[r].uid) # {} THEN End(r)
     ELSE Goto(r, IF IsLoginMethodVerified(r) THEN "session" ELSE "store")
  /\ UNCHANGED <<rows, code, history>>

(* generateAndStoreOtp for the identifier as it was typed: with another    *)
(* case of the e-mail the code is stored where no verification finds it.   *)
(* The code itself is dropped; the answer is 403.                          *)
StoreOtp(r) ==
  LET c == req[r].contact IN
  /\ req[r].pc = "store"
  /\ \/ code' = [code EXCEPT ![c] = "unsent"]
     \/ c \in Emails /\ UNCHANGED code
  /\ Goto(r, "askedToVerify")
  /\ UNCHANGED <<rows, history>>

-----------------------------------------------------------------------------
(* What the providers' servers answer, as the set T of what is as it       *)
(* should be.  A call that fails, or an answer without the field, is       *)
(* refused with 401. *)
Facts == {"exchanged", "signedForUs", "email", "email_verified", "sub",
          "is_valid", "ids", "ourApp", "profile", "sameUser"}
Answers == {Facts} \cup {Facts \ {f} : f \in Facts}

ExchangeGoogleAuthorizationCode(T) == "exchanged" \in T
VerifyGoogleIdToken(T) == "signedForUs" \in T
ExchangeFacebookAuthorizationCode(T) == "exchanged" \in T
VerifyFacebookAccessToken(T) == {"is_valid", "ids"} \subseteq T
FetchFacebookProfile(T) == "profile" \in T

(* Mutant: an e-mail nobody verified is taken. *)
LoginWithGoogleAnyEmail(T) == VerifyGoogleIdToken(T) /\ {"email", "sub"} \subseteq T

LoginWithGoogle(T) ==
  VerifyGoogleIdToken(T) /\ {"email", "email_verified", "sub"} \subseteq T

(* debug_token names the user and the app, the profile the e-mail: both    *)
(* must be of one user. *)
LoginWithFacebook(T) ==
  /\ VerifyFacebookAccessToken(T) /\ FetchFacebookProfile(T)
  /\ {"ourApp", "email", "sameUser"} \subseteq T

(* The callbacks exchange a code for a token first. *)
LoginWithGoogleCallback(T) == ExchangeGoogleAuthorizationCode(T) /\ LoginWithGoogle(T)
LoginWithFacebookCallback(T) == ExchangeFacebookAuthorizationCode(T) /\ LoginWithFacebook(T)

SocialAccepted(s, T) ==
  \/ Provider[s] = "google" /\ (LoginWithGoogle(T) \/ LoginWithGoogleCallback(T))
  \/ Provider[s] = "facebook" /\ (LoginWithFacebook(T) \/ LoginWithFacebookCallback(T))

(* The provider says that the e-mail belongs to the subject who consented  *)
(* to a login here. *)
Vouches(s, T) ==
  IF Provider[s] = "google" THEN {"signedForUs", "email_verified"} \subseteq T
  ELSE {"is_valid", "ourApp", "sameUser"} \subseteq T

(* A social login with subject s and its present e-mail.                   *)
(* findSocialIdentityUser,                                                 *)
StartSocial(r, s, e, T) ==
  /\ req[r].pc = "idle" /\ Room
  /\ SocialAccepted(s, T)
  /\ \E l \in LinkOf(s) \cup (IF LinkOf(s) = {} THEN {None} ELSE {}) :
       Become(r, [Idle EXCEPT !.pc = "account", !.kind = "social", !.subject = s,
                               !.contact = e, !.link = l])
  /\ proved' = IF Vouches(s, T) THEN proved \cup {e} ELSE proved
  /\ UNCHANGED <<rows, code, entered>>

(* findUserById of the linked user, or else findUserByEmail, *)
FindAccount(r) ==
  LET found == IF req[r].link # None THEN user \cap {req[r].link}
               ELSE UserOf(req[r].contact) IN
  /\ req[r].pc = "account"
  /\ \/ found = {} /\ Goto(r, "provision")
     \/ \E u \in found : Become(r, [req[r] EXCEPT !.pc = "provider", !.uid = u])
  /\ UNCHANGED <<rows, code, history>>

(* createUserWithRoles when there is none, which throws when the e-mail is *)
(* taken by now, *)
Provision(r) ==
  /\ req[r].pc = "provision"
  /\ \/ CreateRow(req[r].contact, TRUE) /\ Goto(r, "provisioned")
     \/ UserOf(req[r].contact) # {} /\ UNCHANGED rows /\ End(r)
  /\ UNCHANGED <<code, history>>

(* and findUserByEmail once more. *)
FindProvisioned(r) ==
  /\ req[r].pc = "provisioned"
  /\ \/ UserOf(req[r].contact) = {} /\ End(r)
     \/ \E u \in UserOf(req[r].contact) :
          Become(r, [req[r] EXCEPT !.pc = "provider", !.uid = u])
  /\ UNCHANGED <<rows, code, history>>

(* findSocialIdentityByUser: 409 when the account has another identity of  *)
(* the provider.  An identity found at the start is not linked again.      *)
CheckProvider(r) ==
  LET s == req[r].subject
      others == {x \in LinksTo(req[r].uid) \ {s} : Provider[x] = Provider[s]} IN
  /\ req[r].pc = "provider"
  /\ IF others # {} THEN End(r)
     ELSE Goto(r, IF req[r].link # None THEN "session" ELSE "link")
  /\ UNCHANGED <<rows, code, history>>

(* Mutants: the link is not checked for uniqueness of the subject; every   *)
(* unique violation is taken for success.                                  *)
LinkTwice(r) ==
  LET u == req[r].uid s == req[r].subject IN
  /\ req[r].pc = "link"
  /\ IF u \notin user THEN UNCHANGED linked /\ End(r)
     ELSE linked' = linked \cup {<<s, u>>} /\ Goto(r, "session")
  /\ UNCHANGED <<made, user, contact, verified, code, history>>
RecheckTrusts(r) ==
  /\ req[r].pc = "recheck"
  /\ Goto(r, "session")
  /\ UNCHANGED <<rows, code, history>>

(* linkSocialIdentity, the create: the subject is linked once, and once    *)
(* per provider and user; a foreign key ties it to the user.               *)
Link(r) ==
  LET u == req[r].uid s == req[r].subject IN
  /\ req[r].pc = "link"
  /\ IF u \notin user THEN UNCHANGED linked /\ End(r)
     ELSE IF LinkOf(s) # {} \/ TakenAt(Provider[s], u)
     THEN UNCHANGED linked /\ Goto(r, "recheck")
     ELSE linked' = linked \cup {<<s, u>>} /\ Goto(r, "session")
  /\ UNCHANGED <<made, user, contact, verified, code, history>>

(* P2002: fine when the subject was linked to this very user meanwhile. *)
Recheck(r) ==
  /\ req[r].pc = "recheck"
  /\ IF <<req[r].subject, req[r].uid>> \in linked THEN Goto(r, "session") ELSE End(r)
  /\ UNCHANGED <<rows, code, history>>

(* issueRefreshToken, which throws when the user is gone. *)
Session(r) ==
  /\ req[r].pc = "session"
  /\ IF req[r].uid \in user
     THEN Goto(r, "in") /\ entered' = entered \cup {req[r].uid}
     ELSE End(r) /\ UNCHANGED entered
  /\ UNCHANGED <<rows, code, proved>>

(* The response was sent. *)
Answer(r) ==
  /\ req[r].pc \in {"in", "askedToVerify"}
  /\ End(r)
  /\ UNCHANGED <<rows, code, history>>

-----------------------------------------------------------------------------
(* acceptInvite, one of Invites: the account is born verified. *)
AcceptInvite(e) ==
  /\ Room
  /\ CreateRow(e, TRUE)
  /\ proved' = proved \cup {e}
  /\ entered' = entered \cup {made + 1}
  /\ UNCHANGED <<code, req>>

(* deleteAccount, by its signed-in owner: the DELETE cascades to the       *)
(* identities.  Codes belong to the target and stay.                       *)
DeleteAccount(u) ==
  /\ u \in user \cap entered
  /\ user' = user \ {u}
  /\ verified' = verified \ {u}
  /\ linked' = {p \in linked : p[2] # u}
  /\ UNCHANGED <<made, contact, code, history, req>>

(* A handler dies; what it committed stays. *)
Crash(r) ==
  /\ req[r].pc # "idle"
  /\ End(r)
  /\ UNCHANGED <<rows, code, history>>

Handle(r) ==
  \/ CreateUser(r) \/ FindCodeUser(r) \/ Mark(r)
  \/ CheckIdentity(r) \/ StoreOtp(r)
  \/ FindAccount(r) \/ Provision(r) \/ FindProvisioned(r)
  \/ CheckProvider(r) \/ Link(r) \/ Recheck(r)
  \/ Session(r) \/ Answer(r)

Next ==
  \/ \E r \in Requests : Handle(r) \/ Crash(r)
  \/ \E r \in Requests, c \in Contacts : StartRegister(r, c) \/ Consume(r, c)
  \/ \E r \in Requests, u \in Uids : StartLogin(r, u)
  \/ \E r \in Requests, s \in Subjects, e \in Emails, T \in Answers : StartSocial(r, s, e, T)
  \/ \E c \in Contacts : Resend(c) \/ Expire(c)
  \/ \E e \in Emails : AcceptInvite(e)
  \/ \E u \in Uids : DeleteAccount(u)

Spec == Init /\ [][Next]_vars

-----------------------------------------------------------------------------
PCs == {"idle", "create", "codeUser", "mark", "identity", "store", "account",
        "provision", "provisioned", "provider", "link", "recheck", "session",
        "in", "askedToVerify"}
Handler == [pc: PCs, kind: {"none", "code", "password", "social"},
            contact: Contacts, subject: Subjects, link: Uids \cup {None},
            uid: Uids \cup {None}, verified: BOOLEAN]

(* Types, and the constraints of the schema: a contact has one account, a  *)
(* subject one user, a user one subject per provider, all of them rows     *)
(* that exist.                                                             *)
TypeOK ==
  /\ made \in 0 .. MaxUsers
  /\ user \subseteq 1 .. made /\ verified \subseteq user
  /\ contact \in [Uids -> Contacts]
  /\ linked \subseteq Subjects \X user
  /\ code \in [Contacts -> {"none", "sent", "unsent"}]
  /\ proved \subseteq Contacts /\ entered \subseteq 1 .. made
  /\ req \in [Requests -> Handler]
  /\ \A u, v \in user : contact[u] = contact[v] => u = v
  /\ \A p, q \in linked :
       p[1] = q[1] \/ (p[2] = q[2] /\ Provider[p[1]] = Provider[q[1]]) => p = q

(* No session is opened on an account whose e-mail or phone was never      *)
(* vouched for, by a redeemed code or invite or by a provider: whatever is *)
(* registered, linked, deleted and registered again at the same time.      *)
EnteredIsProved == \A u \in user \cap entered : contact[u] \in proved

(* A Google or Facebook login enters the account its subject is linked to, *)
(* also when two first logins race.  The exception is an account deleted   *)
(* between the lookup of its identity and its own: a new account is made   *)
(* and entered, and left unlinked until the next login.                    *)
SocialIn == {r \in Requests : req[r].pc = "in" /\ req[r].kind = "social"}
SocialEntersLinked ==
  \A r \in SocialIn :
    \/ <<req[r].subject, req[r].uid>> \in linked
    \/ req[r].uid \notin user
    \/ req[r].link # None /\ req[r].link \notin user
=============================================================================
