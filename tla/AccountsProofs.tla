--------------------------- MODULE AccountsProofs ---------------------------
(***************************************************************************)
(* Theorems about Accounts, for every set of contacts and of accounts at   *)
(* the providers, and every number of requests.                            *)
(***************************************************************************)
EXTENDS Accounts, TLAPS

(* A row that exists or existed, whose contact was vouched for. *)
Vouched(u) == u \in 1 .. made /\ contact[u] \in proved

(* Verified, linked and entered accounts, also after their deletion.       *)
RowsAreVouched ==
  /\ \A u \in verified \cup entered : Vouched(u)
  /\ \A p \in linked : Vouched(p[2])

(* What the handler in state h relies on: a code or a provider vouched for *)
(* the contact and the account it found under it; a password handler only  *)
(* for an account that was verified when it was read.                      *)
Relies(h) ==
  /\ h.pc \in {"codeUser", "mark"} => h.kind = "code"
  /\ h.pc \in {"identity", "store"} => h.kind = "password"
  /\ h.pc \in {"account", "provision", "provisioned", "provider", "link", "recheck"}
       => h.kind = "social"
  /\ h.link # None => Vouched(h.link)
  /\ h.kind \in {"code", "social"} => h.contact \in proved
  /\ h.kind \in {"code", "social"} /\ h.uid # None => Vouched(h.uid)
  /\ h.kind = "password" /\ h.verified => Vouched(h.uid)
  /\ h.pc = "session" => \/ h.kind \in {"code", "social"} /\ h.uid # None
                         \/ h.kind = "password" /\ h.verified
  /\ h.pc \in {"mark", "provider", "link", "recheck"} => h.uid # None

HandlersRely == \A r \in Requests : Relies(req[r])

IInv == TypeOK /\ RowsAreVouched /\ HandlersRely

-----------------------------------------------------------------------------
LEMMA IdleType ==
  /\ Idle \in Handler /\ Idle.pc = "idle" /\ Idle.kind = "none"
  /\ Idle.link = None /\ Idle.uid = None
<1>1. (CHOOSE c \in Contacts : TRUE) \in Contacts /\ (CHOOSE s \in Subjects : TRUE) \in Subjects
  BY AccountsAssumption DEF Contacts
<1> QED
  BY <1>1 DEF Idle, Handler, PCs, None

LEMMA IdleRelies == Relies(Idle)
BY IdleType DEF Relies, None

(* The tables without the handlers. *)
RowsOK ==
  /\ made \in 0 .. MaxUsers
  /\ user \subseteq 1 .. made /\ verified \subseteq user
  /\ contact \in [Uids -> Contacts]
  /\ linked \subseteq Subjects \X user
  /\ \A u, v \in user : contact[u] = contact[v] => u = v
  /\ \A p, q \in linked :
       p[1] = q[1] \/ (p[2] = q[2] /\ Provider[p[1]] = Provider[q[1]]) => p = q

LEMMA TypeParts ==
  /\ TypeOK <=> /\ RowsOK /\ code \in [Contacts -> {"none", "sent", "unsent"}]
                /\ proved \subseteq Contacts /\ entered \subseteq 1 .. made
                /\ req \in [Requests -> Handler]
  /\ TypeOK' <=> (/\ RowsOK /\ code \in [Contacts -> {"none", "sent", "unsent"}]
                  /\ proved \subseteq Contacts /\ entered \subseteq 1 .. made
                  /\ req \in [Requests -> Handler])'
BY DEF TypeOK, RowsOK

LEMMA InitIInv == Init => IInv
<1> SUFFICES ASSUME Init PROVE IInv
  OBVIOUS
<1>1. Idle.contact \in Contacts
  BY IdleType DEF Handler
<1>2. TypeOK
  BY <1>1, IdleType, AccountsAssumption DEF Init, TypeOK
<1>3. RowsAreVouched /\ HandlersRely
  BY IdleRelies DEF Init, RowsAreVouched, HandlersRely
<1> QED
  BY <1>2, <1>3 DEF IInv

(* No contact is changed and nothing vouched for is taken back. *)
Kept ==
  /\ made \in Nat /\ made' \in Nat /\ made <= made'
  /\ \A u \in 1 .. made : contact'[u] = contact[u]
  /\ proved \subseteq proved'

LEMMA VouchedKept ==
  ASSUME Kept, NEW u, Vouched(u)
  PROVE  u \in 1 .. made' /\ contact'[u] \in proved'
<1>1. u \in 1 .. made'
  BY DEF Kept, Vouched
<1> QED
  BY <1>1 DEF Kept, Vouched

LEMMA ReliesKept ==
  ASSUME Kept, NEW h, Relies(h)
  PROVE  Relies(h)'
<1>1. \A u : Vouched(u) => Vouched(u)'
  BY VouchedKept DEF Vouched
<1>2. proved \subseteq proved'
  BY DEF Kept
<1> QED
  BY <1>1, <1>2 DEF Relies

LEMMA NothingMoved ==
  ASSUME IInv, Kept, UNCHANGED req
  PROVE  HandlersRely' /\ req' \in [Requests -> Handler]
<1>1. HandlersRely'
  <2> SUFFICES ASSUME NEW r \in Requests PROVE Relies(req[r])'
    BY DEF HandlersRely
  <2>1. PICK h : h = req[r]
    OBVIOUS
  <2>2. Relies(h)'
    BY <2>1, ReliesKept DEF IInv, HandlersRely
  <2> QED
    BY <2>1, <2>2
<1> QED
  BY <1>1 DEF IInv, TypeOK

LEMMA HandlerMoved ==
  ASSUME IInv, Kept, NEW r \in Requests, NEW h \in Handler, Become(r, h), Relies(h)'
  PROVE  HandlersRely' /\ req' \in [Requests -> Handler]
<1>1. /\ \A q \in Requests : req'[q] = IF q = r THEN h ELSE req[q]
      /\ req' \in [Requests -> Handler]
  BY DEF Become, IInv, TypeOK
<1>2. HandlersRely'
  <2> SUFFICES ASSUME NEW q \in Requests PROVE Relies(req[q])'
    BY DEF HandlersRely
  <2>1. CASE q = r
    BY <1>1, <2>1
  <2>2. CASE q # r
    <3>1. PICK g : g = req[q]
      OBVIOUS
    <3>2. Relies(g)'
      BY <3>1, ReliesKept DEF IInv, HandlersRely
    <3> QED
      BY <1>1, <2>2, <3>1, <3>2
  <2> QED
    BY <2>1, <2>2
<1> QED
  BY <1>1, <1>2

(* The rows stay as they are. *)
LEMMA MovedStep ==
  ASSUME IInv, NEW r \in Requests, NEW h \in Handler, Become(r, h), Relies(h),
         UNCHANGED <<rows, history>>, code' \in [Contacts -> {"none", "sent", "unsent"}]
  PROVE  IInv'
<1>1. Kept
  BY AccountsAssumption DEF Kept, IInv, TypeOK, rows, history
<1>2. Relies(h)'
  BY <1>1, ReliesKept
<1>3. HandlersRely' /\ req' \in [Requests -> Handler]
  BY <1>1, <1>2, HandlerMoved
<1>4. TypeOK'
  BY <1>3 DEF IInv, TypeOK, rows, history
<1>5. RowsAreVouched'
  BY DEF IInv, RowsAreVouched, Vouched, rows, history
<1> QED
  BY <1>3, <1>4, <1>5 DEF IInv

LEMMA GotoType ==
  ASSUME IInv, NEW r \in Requests, NEW step \in PCs
  PROVE  LET h == [req[r] EXCEPT !.pc = step] IN
         /\ req[r] \in Handler /\ Relies(req[r]) /\ h \in Handler
         /\ h.pc = step /\ h.kind = req[r].kind /\ h.contact = req[r].contact
         /\ h.link = req[r].link /\ h.uid = req[r].uid /\ h.verified = req[r].verified
BY DEF IInv, TypeOK, HandlersRely, Handler

LEMMA FoundType ==
  ASSUME IInv, NEW r \in Requests, NEW step \in PCs, NEW u \in Uids
  PROVE  LET h == [req[r] EXCEPT !.pc = step, !.uid = u] IN
         /\ req[r] \in Handler /\ Relies(req[r]) /\ h \in Handler
         /\ h.pc = step /\ h.kind = req[r].kind /\ h.contact = req[r].contact
         /\ h.link = req[r].link /\ h.uid = u /\ h.verified = req[r].verified
<1>1. req[r] \in Handler /\ Relies(req[r])
  BY DEF IInv, TypeOK, HandlersRely
<1> QED
  BY <1>1 DEF Handler

(* A handler that goes on with what it has. *)
LEMMA GotoStep ==
  ASSUME IInv, NEW r \in Requests, NEW step \in PCs, Goto(r, step),
         UNCHANGED <<rows, history>>, code' \in [Contacts -> {"none", "sent", "unsent"}],
         Relies([req[r] EXCEPT !.pc = step])
  PROVE  IInv'
<1> DEFINE h == [req[r] EXCEPT !.pc = step]
<1>1. h \in Handler /\ Become(r, h) /\ Relies(h)
  BY GotoType DEF Goto
<1> HIDE DEF h
<1> QED
  BY <1>1, MovedStep

(* A handler that goes on with the vouched account it found. *)
LEMMA FoundStep ==
  ASSUME IInv, NEW r \in Requests, NEW step \in {"session", "mark", "provider"},
         NEW u \in Uids, Vouched(u), u # None,
         Become(r, [req[r] EXCEPT !.pc = step, !.uid = u]),
         UNCHANGED <<rows, history>>, code' \in [Contacts -> {"none", "sent", "unsent"}],
         \/ req[r].kind = "code" /\ step # "provider"
         \/ req[r].kind = "social" /\ step = "provider"
  PROVE  IInv'
<1>1. PICK h : h = [req[r] EXCEPT !.pc = step, !.uid = u]
  OBVIOUS
<1>2. /\ Relies(req[r]) /\ h \in Handler
      /\ h.pc = step /\ h.kind = req[r].kind /\ h.contact = req[r].contact
      /\ h.link = req[r].link /\ h.uid = u
  <2>1. req[r] \in Handler /\ Relies(req[r])
    BY DEF IInv, TypeOK, HandlersRely
  <2>2. step \in PCs
    BY DEF PCs
  <2> QED
    BY <1>1, <2>1, <2>2 DEF Handler
<1>3. Relies(h)
  BY <1>2 DEF Relies
<1> QED
  BY <1>1, <1>2, <1>3, MovedStep

LEMMA EndStep ==
  ASSUME IInv, NEW r \in Requests, End(r), UNCHANGED <<rows, history>>,
         code' \in [Contacts -> {"none", "sent", "unsent"}]
  PROVE  IInv'
BY IdleType, IdleRelies, MovedStep DEF End

(* A new row has a new id: it disturbs no other, and keeps contacts unique. *)
LEMMA CreateRowStep ==
  ASSUME TypeOK, NEW c \in Contacts, NEW v \in BOOLEAN, CreateRow(c, v), proved \subseteq proved'
  PROVE  /\ RowsOK' /\ Kept /\ made' = made + 1 /\ made' \in Uids
         /\ contact'[made + 1] = c /\ user' = user \cup {made + 1}
         /\ verified' = IF v THEN verified \cup {made + 1} ELSE verified
         /\ linked' = linked
<1>1. /\ made \in Nat /\ made + 1 \in Uids /\ made + 1 \notin user /\ user \subseteq Uids
      /\ made' = made + 1 /\ user' = user \cup {made + 1} /\ UNCHANGED linked
      /\ verified' = IF v THEN verified \cup {made + 1} ELSE verified
      /\ contact' = [contact EXCEPT ![made + 1] = c]
  BY AccountsAssumption DEF TypeOK, CreateRow, Uids
<1>2. /\ contact' \in [Uids -> Contacts] /\ contact'[made + 1] = c
      /\ \A u \in 1 .. made : contact'[u] = contact[u]
  BY <1>1 DEF TypeOK
<1>3. \A u \in user : contact[u] # c
  BY DEF CreateRow, UserOf
<1>4. \A u, w \in user' : contact'[u] = contact'[w] => u = w
  BY <1>1, <1>2, <1>3 DEF TypeOK
<1>5. Kept
  BY <1>1, <1>2 DEF Kept
<1>6. made' \in 0 .. MaxUsers /\ user' \subseteq 1 .. made' /\ verified' \subseteq user'
      /\ linked' \subseteq Subjects \X user'
  BY <1>1, AccountsAssumption DEF TypeOK, Uids
<1> QED
  BY <1>1, <1>2, <1>4, <1>5, <1>6 DEF RowsOK, TypeOK

-----------------------------------------------------------------------------
(* Registration, and the redemption of its code. *)
LEMMA StartRegisterStep ==
  ASSUME IInv, NEW r \in Requests, NEW c \in Contacts, StartRegister(r, c)
  PROVE  IInv'
<1> DEFINE h == [Idle EXCEPT !.pc = "create", !.contact = c]
<1>1. /\ h \in Handler /\ h.pc = "create" /\ h.kind = "none"
      /\ h.link = None /\ h.uid = None
  BY IdleType DEF Handler, PCs
<1>2. Become(r, h) /\ UNCHANGED <<rows, code, history>>
  BY DEF StartRegister
<1> HIDE DEF h
<1>3. Relies(h)
  BY <1>1 DEF Relies
<1> QED
  BY <1>1, <1>2, <1>3, MovedStep DEF IInv, TypeOK

LEMMA CreateUserStep ==
  ASSUME IInv, NEW r \in Requests, CreateUser(r)
  PROVE  IInv'
<1> DEFINE c == req[r].contact
<1>1. c \in Contacts /\ End(r) /\ UNCHANGED history /\ req[r].pc = "create"
  BY DEF CreateUser, IInv, TypeOK, Handler
<1>2. CASE CreateRow(c, FALSE) /\ code' = [code EXCEPT ![c] = "sent"]
  <2>1. /\ RowsOK' /\ Kept /\ made' = made + 1
        /\ verified' = verified /\ linked' = linked /\ entered' = entered
    BY <1>1, <1>2, CreateRowStep DEF IInv, history
  <2>2. HandlersRely' /\ req' \in [Requests -> Handler]
    BY <1>1, <2>1, IdleType, IdleRelies, ReliesKept, HandlerMoved DEF End
  <2>3. TypeOK'
    BY <1>1, <1>2, <2>1, <2>2, TypeParts DEF IInv, history, Kept, TypeOK
  <2>4. RowsAreVouched'
    BY <2>1, VouchedKept DEF IInv, RowsAreVouched, Vouched
  <2> QED
    BY <2>2, <2>3, <2>4 DEF IInv
<1>3. CASE UNCHANGED <<rows, code>>
  BY <1>1, <1>3, EndStep DEF IInv, TypeOK
<1> QED
  BY <1>2, <1>3 DEF CreateUser

LEMMA CodeStep ==
  ASSUME IInv, NEW c \in Contacts, Resend(c) \/ Expire(c)
  PROVE  IInv'
<1>1. /\ UNCHANGED <<rows, history, req>>
      /\ code' \in [Contacts -> {"none", "sent", "unsent"}]
  BY DEF Resend, Expire, IInv, TypeOK
<1> QED
  BY <1>1, TypeParts
     DEF IInv, RowsAreVouched, HandlersRely, Relies, Vouched, RowsOK, TypeOK, rows, history

(* The code vouches for its target. *)
LEMMA ConsumeStep ==
  ASSUME IInv, NEW r \in Requests, NEW c \in Contacts, Consume(r, c)
  PROVE  IInv'
<1>1. PICK h : h = [Idle EXCEPT !.pc = "codeUser", !.kind = "code", !.contact = c]
  OBVIOUS
<1>2. /\ h \in Handler /\ h.pc = "codeUser" /\ h.kind = "code" /\ h.contact = c
      /\ h.link = None /\ h.uid = None
  BY <1>1, IdleType DEF Handler, PCs
<1>3. /\ Become(r, h) /\ proved' = proved \cup {c} /\ UNCHANGED <<rows, entered>>
      /\ code' \in [Contacts -> {"none", "sent", "unsent"}]
  BY <1>1 DEF Consume, IInv, TypeOK
<1>4. Kept
  BY <1>3, AccountsAssumption DEF Kept, IInv, TypeOK, rows
<1>5. Relies(h)'
  BY <1>2, <1>3 DEF Relies
<1>6. HandlersRely' /\ req' \in [Requests -> Handler]
  BY <1>2, <1>3, <1>4, <1>5, HandlerMoved
<1>7. TypeOK'
  BY <1>3, <1>6 DEF IInv, TypeOK, rows
<1>8. RowsAreVouched'
  BY <1>3, <1>4, VouchedKept DEF IInv, RowsAreVouched, Vouched, rows
<1> QED
  BY <1>6, <1>7, <1>8 DEF IInv

LEMMA FindCodeUserStep ==
  ASSUME IInv, NEW r \in Requests, FindCodeUser(r)
  PROVE  IInv'
<1>1. UNCHANGED <<rows, code, history>> /\ req[r].pc = "codeUser"
      /\ code' \in [Contacts -> {"none", "sent", "unsent"}]
  BY DEF FindCodeUser, IInv, TypeOK
<1>2. CASE End(r)
  BY <1>1, <1>2, EndStep
<1>3. CASE \E u \in UserOf(req[r].contact) :
              Become(r, [req[r] EXCEPT !.pc = IF u \in verified THEN "session" ELSE "mark",
                                       !.uid = u])
  <2>1. PICK u \in UserOf(req[r].contact), step \in {"session", "mark"} :
          Become(r, [req[r] EXCEPT !.pc = step, !.uid = u])
    BY <1>3
  <2>2. u \in Uids /\ u # None /\ contact[u] = req[r].contact /\ u \in 1 .. made
    BY AccountsAssumption DEF UserOf, IInv, TypeOK, Uids, None
  <2>3. Relies(req[r])
    BY DEF IInv, HandlersRely
  <2>4. Vouched(u) /\ req[r].kind = "code"
    BY <1>1, <2>2, <2>3 DEF Relies, Vouched
  <2> QED
    BY <1>1, <2>1, <2>2, <2>4, FoundStep DEF PCs
<1> QED
  BY <1>2, <1>3 DEF FindCodeUser

LEMMA MarkStep ==
  ASSUME IInv, NEW r \in Requests, Mark(r)
  PROVE  IInv'
<1>1. /\ req[r].pc = "mark" /\ UNCHANGED <<made, user, contact, linked, code, history>>
      /\ Relies(req[r]) /\ code' \in [Contacts -> {"none", "sent", "unsent"}]
  BY DEF Mark, IInv, TypeOK, HandlersRely
<1>2. CASE req[r].uid \notin user
  BY <1>1, <1>2, EndStep DEF Mark, rows
<1>3. CASE req[r].uid \in user
  <2> DEFINE h == [req[r] EXCEPT !.pc = "session"]
  <2>1. /\ h \in Handler /\ h.pc = "session" /\ h.kind = req[r].kind
        /\ h.contact = req[r].contact /\ h.link = req[r].link /\ h.uid = req[r].uid
        /\ Become(r, h) /\ verified' = verified \cup {req[r].uid}
    BY <1>3, GotoType DEF Mark, Goto, PCs
  <2> HIDE DEF h
  <2>2. Kept /\ Relies(h) /\ Vouched(req[r].uid)
    BY <1>1, <2>1, AccountsAssumption DEF Kept, Relies, IInv, TypeOK, history
  <2>3. HandlersRely' /\ req' \in [Requests -> Handler]
    BY <2>1, <2>2, ReliesKept, HandlerMoved
  <2>4. TypeOK'
    BY <1>1, <1>3, <2>1, <2>3 DEF IInv, TypeOK, history
  <2>5. RowsAreVouched'
    BY <1>1, <2>1, <2>2 DEF IInv, RowsAreVouched, Vouched, history
  <2> QED
    BY <2>3, <2>4, <2>5 DEF IInv
<1> QED
  BY <1>2, <1>3

-----------------------------------------------------------------------------
(* Password login: what it read as verified was vouched for. *)
LEMMA StartLoginStep ==
  ASSUME IInv, NEW r \in Requests, NEW u \in Uids, StartLogin(r, u)
  PROVE  IInv'
<1>1. PICK v \in BOOLEAN : v <=> u \in verified
  <2>1. CASE u \in verified
    BY <2>1, TRUE \in BOOLEAN
  <2>2. CASE u \notin verified
    BY <2>2, FALSE \in BOOLEAN
  <2> QED
    BY <2>1, <2>2
<1>2. PICK h : h = [Idle EXCEPT !.pc = "identity", !.kind = "password", !.uid = u,
                                !.contact = contact[u], !.verified = v]
  OBVIOUS
<1>3. Become(r, h) /\ UNCHANGED <<rows, code, history>>
  BY <1>1, <1>2 DEF StartLogin, Become
<1>4. contact[u] \in Contacts
  BY DEF IInv, TypeOK
<1>5. /\ h \in Handler /\ h.pc = "identity" /\ h.kind = "password" /\ h.uid = u
      /\ h.link = None /\ h.verified = v
  BY <1>2, <1>4, IdleType DEF Handler, PCs
<1>6. h.verified => Vouched(u)
  BY <1>1, <1>5 DEF IInv, RowsAreVouched
<1>7. Relies(h)
  BY <1>5, <1>6 DEF Relies
<1> QED
  BY <1>3, <1>5, <1>7, MovedStep DEF IInv, TypeOK

LEMMA PasswordStep ==
  ASSUME IInv, NEW r \in Requests, CheckIdentity(r) \/ StoreOtp(r)
  PROVE  IInv'
<1>1. /\ Relies(req[r]) /\ req[r].contact \in Contacts /\ UNCHANGED <<rows, history>>
      /\ req[r].pc \in {"identity", "store"}
  BY DEF CheckIdentity, StoreOtp, IInv, TypeOK, HandlersRely, Handler
<1>2. code' \in [Contacts -> {"none", "sent", "unsent"}]
  BY <1>1 DEF CheckIdentity, StoreOtp, IInv, TypeOK
<1>3. CASE End(r)
  BY <1>1, <1>2, <1>3, EndStep
<1>4. ASSUME NEW step \in {"session", "store", "askedToVerify"}, Goto(r, step),
             step = "session" => req[r].verified
      PROVE  IInv'
  <2>1. Relies([req[r] EXCEPT !.pc = step])
    <3>1. PICK h : h = [req[r] EXCEPT !.pc = step]
      OBVIOUS
    <3>2. /\ h.pc = step /\ h.kind = req[r].kind /\ h.contact = req[r].contact
          /\ h.link = req[r].link /\ h.uid = req[r].uid /\ h.verified = req[r].verified
      BY <3>1, GotoType DEF PCs
    <3>3. Relies(h)
      BY <1>1, <1>4, <3>2 DEF Relies
    <3> QED
      BY <3>1, <3>3
  <2> QED
    BY <1>1, <1>2, <1>4, <2>1, GotoStep DEF PCs
<1> QED
  BY <1>3, <1>4 DEF CheckIdentity, StoreOtp, IsLoginMethodVerified

-----------------------------------------------------------------------------
(* Social login: a provider that lets the login pass vouches for the e-mail. *)
LEMMA AcceptedVouches ==
  ASSUME NEW s, NEW T, SocialAccepted(s, T)
  PROVE  Vouches(s, T)
BY DEF SocialAccepted, Vouches, LoginWithGoogle, LoginWithGoogleCallback, VerifyGoogleIdToken,
       LoginWithFacebook, LoginWithFacebookCallback, VerifyFacebookAccessToken

LEMMA StartSocialStep ==
  ASSUME IInv, NEW r \in Requests, NEW s \in Subjects, NEW e \in Emails, NEW T,
         StartSocial(r, s, e, T)
  PROVE  IInv'
<1>1. PICK l \in LinkOf(s) \cup {None} :
        Become(r, [Idle EXCEPT !.pc = "account", !.kind = "social", !.subject = s,
                               !.contact = e, !.link = l])
  BY DEF StartSocial
<1>2. PICK h : h = [Idle EXCEPT !.pc = "account", !.kind = "social", !.subject = s,
                                !.contact = e, !.link = l]
  OBVIOUS
<1>3. l \in Uids \cup {None} /\ (l # None => Vouched(l)) /\ e \in Contacts
  <2>1. l # None => l \in user /\ <<s, l>> \in linked
    BY DEF LinkOf
  <2>2. l # None => Vouched(l)
    BY <2>1, <<s, l>>[2] = l DEF IInv, RowsAreVouched
  <2>3. l # None => l \in Uids
    <3>1. made \in 0 .. MaxUsers /\ user \subseteq 1 .. made
      BY DEF IInv, TypeOK
    <3>2. MaxUsers \in Nat
      BY AccountsAssumption
    <3>3. 1 .. made \subseteq 1 .. MaxUsers
      BY <3>1, <3>2
    <3> QED
      BY <2>1, <3>1, <3>3, Zenon DEF Uids
  <2> QED
    BY <2>2, <2>3 DEF Contacts
<1>4. /\ h \in Handler /\ h.pc = "account" /\ h.kind = "social" /\ h.contact = e
      /\ h.link = l /\ h.uid = None
  BY <1>2, <1>3, IdleType DEF Handler, PCs
<1>5. Become(r, h) /\ proved' = proved \cup {e} /\ UNCHANGED <<rows, code, entered>>
  BY <1>1, <1>2, AcceptedVouches DEF StartSocial
<1>6. Kept
  BY <1>5, AccountsAssumption DEF Kept, IInv, TypeOK, rows
<1>7. (l # None => Vouched(l)') /\ e \in proved'
  BY <1>3, <1>5, <1>6, VouchedKept DEF Vouched
<1>8. Relies(h)'
  BY <1>4, <1>7 DEF Relies
<1>9. HandlersRely' /\ req' \in [Requests -> Handler]
  BY <1>4, <1>5, <1>6, <1>8, HandlerMoved
<1>10. TypeOK'
  BY <1>3, <1>5, <1>9 DEF IInv, TypeOK, rows
<1>11. RowsAreVouched'
  BY <1>5, <1>6, VouchedKept DEF IInv, RowsAreVouched, Vouched, rows
<1> QED
  BY <1>9, <1>10, <1>11 DEF IInv

(* The same contact, so the account found under it is vouched for. *)
LEMMA FindAccountStep ==
  ASSUME IInv, NEW r \in Requests, FindAccount(r) \/ FindProvisioned(r)
  PROVE  IInv'
<1>1. /\ req[r].pc \in {"account", "provisioned"} /\ UNCHANGED <<rows, code, history>>
      /\ Relies(req[r]) /\ code' \in [Contacts -> {"none", "sent", "unsent"}]
  BY DEF FindAccount, FindProvisioned, IInv, TypeOK, HandlersRely
<1>2. req[r].kind = "social" /\ req[r].contact \in proved
  BY <1>1 DEF Relies
<1>3. CASE End(r)
  BY <1>1, <1>3, EndStep
<1>4. CASE Goto(r, "provision") /\ req[r].pc = "account"
  <2>1. PICK h : h = [req[r] EXCEPT !.pc = "provision"]
    OBVIOUS
  <2>2. /\ h \in Handler /\ h.pc = "provision" /\ h.kind = req[r].kind
        /\ h.contact = req[r].contact /\ h.link = req[r].link /\ h.uid = req[r].uid
    <3>1. "provision" \in PCs
      BY DEF PCs
    <3> QED
      BY <2>1, <3>1, GotoType
  <2>3. Relies(h)
    BY <1>1, <1>2, <2>2 DEF Relies
  <2> QED
    BY <1>1, <1>4, <2>1, <2>2, <2>3, MovedStep DEF Goto
<1>5. ASSUME NEW u \in UserOf(req[r].contact) \cup (user \cap {req[r].link}),
             u \in UserOf(req[r].contact) \/ req[r].link # None,
             Become(r, [req[r] EXCEPT !.pc = "provider", !.uid = u])
      PROVE  IInv'
  <2>1. u \in Uids /\ u # None /\ u \in 1 .. made
    BY AccountsAssumption DEF UserOf, IInv, TypeOK, Uids, None
  <2>2. Vouched(u)
    BY <1>1, <1>2, <1>5, <2>1 DEF UserOf, Vouched, Relies
  <2> QED
    BY <1>1, <1>2, <1>5, <2>1, <2>2, FoundStep
<1> QED
  BY <1>3, <1>4, <1>5 DEF FindAccount, FindProvisioned

LEMMA ProvisionStep ==
  ASSUME IInv, NEW r \in Requests, Provision(r)
  PROVE  IInv'
<1> DEFINE c == req[r].contact
<1>1. /\ c \in Contacts /\ UNCHANGED <<code, history>> /\ req[r].pc = "provision"
      /\ Relies(req[r]) /\ code' \in [Contacts -> {"none", "sent", "unsent"}]
  BY DEF Provision, IInv, TypeOK, Handler, HandlersRely
<1>2. CASE UNCHANGED rows /\ End(r)
  BY <1>1, <1>2, EndStep
<1>3. CASE CreateRow(c, TRUE) /\ Goto(r, "provisioned")
  <2>1. /\ RowsOK' /\ Kept /\ made' = made + 1 /\ made' \in Uids /\ contact'[made + 1] = c
        /\ verified' = verified \cup {made + 1} /\ linked' = linked
    BY <1>1, <1>3, CreateRowStep DEF IInv, history
  <2>2. c \in proved' /\ entered' = entered
    BY <1>1 DEF Relies, history
  <2>3. PICK h : h = [req[r] EXCEPT !.pc = "provisioned"]
    OBVIOUS
  <2>4. /\ h \in Handler /\ h.pc = "provisioned" /\ h.kind = req[r].kind
        /\ h.contact = req[r].contact /\ h.link = req[r].link /\ h.uid = req[r].uid
    <3>1. "provisioned" \in PCs
      BY DEF PCs
    <3> QED
      BY <2>3, <3>1, GotoType
  <2>5. Relies(h)
    BY <1>1, <2>4 DEF Relies
  <2>6. HandlersRely' /\ req' \in [Requests -> Handler]
    BY <1>3, <2>1, <2>3, <2>4, <2>5, ReliesKept, HandlerMoved DEF Goto
  <2>7. TypeOK'
    BY <1>1, <2>1, <2>6, TypeParts DEF IInv, history, Kept, TypeOK
  <2>8. made + 1 \in 1 .. made' /\ contact'[made + 1] \in proved'
    BY <2>1, <2>2 DEF Kept
  <2>9. RowsAreVouched'
    BY <2>1, <2>2, <2>8, VouchedKept DEF IInv, RowsAreVouched, Vouched
  <2> QED
    BY <2>6, <2>7, <2>9 DEF IInv
<1> QED
  BY <1>2, <1>3 DEF Provision

(* The link is between a consented subject and the account it found. *)
LEMMA LinkStep ==
  ASSUME IInv, NEW r \in Requests, CheckProvider(r) \/ Link(r) \/ Recheck(r)
  PROVE  IInv'
<1>1. /\ req[r].pc \in {"provider", "link", "recheck"} /\ Relies(req[r])
      /\ code' \in [Contacts -> {"none", "sent", "unsent"}]
      /\ UNCHANGED <<made, user, contact, verified, code, history>>
  BY DEF CheckProvider, Link, Recheck, IInv, TypeOK, HandlersRely, rows
<1>2. CASE End(r) /\ UNCHANGED linked
  BY <1>1, <1>2, EndStep DEF rows
<1>3. ASSUME NEW step \in {"session", "link", "recheck"}, Goto(r, step)
      PROVE  \E h \in Handler : Become(r, h) /\ Relies(h)
  <2>1. PICK h : h = [req[r] EXCEPT !.pc = step]
    OBVIOUS
  <2>2. step \in PCs
    BY DEF PCs
  <2>3. /\ h \in Handler /\ h.pc = step /\ h.kind = req[r].kind
        /\ h.contact = req[r].contact /\ h.link = req[r].link /\ h.uid = req[r].uid
    BY <2>1, <2>2, GotoType
  <2>4. Relies(h)
    BY <1>1, <2>3 DEF Relies
  <2> QED
    BY <1>3, <2>1, <2>3, <2>4 DEF Goto
<1>4. ASSUME NEW step \in {"session", "link", "recheck"}, Goto(r, step), UNCHANGED linked
      PROVE  IInv'
  BY <1>1, <1>3, <1>4, MovedStep DEF rows
<1>5. ASSUME req[r].uid \in user, Goto(r, "session"),
             LinkOf(req[r].subject) = {}, ~TakenAt(Provider[req[r].subject], req[r].uid),
             linked' = linked \cup {<<req[r].subject, req[r].uid>>}
      PROVE  IInv'
  <2> DEFINE s == req[r].subject
  <2> DEFINE u == req[r].uid
  <2>1. PICK h \in Handler : Become(r, h) /\ Relies(h)
    BY <1>3, <1>5
  <2>2. Kept /\ s \in Subjects /\ u \in user
    BY <1>1, <1>5, AccountsAssumption DEF Kept, IInv, TypeOK, Handler, history
  <2>3. HandlersRely' /\ req' \in [Requests -> Handler]
    BY <2>1, <2>2, ReliesKept, HandlerMoved
  <2>4. \A p \in linked : p[1] # s /\ ~(p[2] = u /\ Provider[p[1]] = Provider[s])
    <3> SUFFICES ASSUME NEW p \in linked
                 PROVE  p[1] # s /\ ~(p[2] = u /\ Provider[p[1]] = Provider[s])
      OBVIOUS
    <3>1. p = <<p[1], p[2]>> /\ p[1] \in Subjects /\ p[2] \in user
      BY DEF IInv, TypeOK
    <3> QED
      BY <1>5, <3>1 DEF LinkOf, TakenAt, LinksTo
  <2>5. linked' \subseteq Subjects \X user
    BY <1>5, <2>2 DEF IInv, TypeOK
  <2>6. \A p, q \in linked' :
          p[1] = q[1] \/ (p[2] = q[2] /\ Provider[p[1]] = Provider[q[1]]) => p = q
    BY <1>5, <2>4 DEF IInv, TypeOK
  <2>7. TypeOK'
    BY <1>1, <2>3, <2>5, <2>6 DEF IInv, TypeOK, history
  <2>8. Vouched(u)
    BY <1>1, <2>2, AccountsAssumption DEF Relies, None, IInv, TypeOK
  <2>9. RowsAreVouched'
    BY <1>1, <1>5, <2>8, <<s, u>>[2] = u DEF IInv, RowsAreVouched, Vouched, history
  <2> QED
    BY <2>3, <2>7, <2>9 DEF IInv
<1> QED
  BY <1>2, <1>4, <1>5 DEF CheckProvider, Link, Recheck, rows

-----------------------------------------------------------------------------
(* The session, which is opened on the account the handler relies on. *)
LEMMA SessionStep ==
  ASSUME IInv, NEW r \in Requests, Session(r)
  PROVE  IInv'
<1>1. /\ req[r].pc = "session" /\ Relies(req[r]) /\ UNCHANGED <<rows, code, proved>>
      /\ code' \in [Contacts -> {"none", "sent", "unsent"}]
  BY DEF Session, IInv, TypeOK, HandlersRely
<1>2. CASE req[r].uid \notin user
  BY <1>1, <1>2, EndStep DEF Session, history
<1>3. CASE req[r].uid \in user
  <2>1. PICK h : h = [req[r] EXCEPT !.pc = "in"]
    OBVIOUS
  <2>2. /\ h \in Handler /\ h.pc = "in" /\ h.kind = req[r].kind /\ h.contact = req[r].contact
        /\ h.link = req[r].link /\ h.uid = req[r].uid /\ h.verified = req[r].verified
    BY <2>1, GotoType DEF PCs
  <2>3. Relies(h) /\ Vouched(req[r].uid)
    BY <1>1, <2>2 DEF Relies
  <2>4. Become(r, h) /\ entered' = entered \cup {req[r].uid}
    BY <1>3, <2>1 DEF Session, Goto
  <2>5. Kept
    BY <1>1, AccountsAssumption DEF Kept, IInv, TypeOK, rows
  <2>6. HandlersRely' /\ req' \in [Requests -> Handler]
    BY <2>2, <2>3, <2>4, <2>5, ReliesKept, HandlerMoved
  <2>7. TypeOK'
    BY <1>1, <2>3, <2>4, <2>6 DEF IInv, TypeOK, Vouched, rows
  <2>8. RowsAreVouched'
    BY <1>1, <2>3, <2>4 DEF IInv, RowsAreVouched, Vouched, rows
  <2> QED
    BY <2>6, <2>7, <2>8 DEF IInv
<1> QED
  BY <1>2, <1>3

LEMMA AcceptInviteStep ==
  ASSUME IInv, NEW e \in Emails, AcceptInvite(e)
  PROVE  IInv'
<1>1. /\ CreateRow(e, TRUE) /\ proved' = proved \cup {e} /\ e \in Contacts
      /\ entered' = entered \cup {made + 1} /\ UNCHANGED <<code, req>>
  BY DEF AcceptInvite, Contacts
<1>2. /\ RowsOK' /\ Kept /\ made' = made + 1 /\ contact'[made + 1] = e
      /\ verified' = verified \cup {made + 1} /\ linked' = linked
  BY <1>1, CreateRowStep DEF IInv
<1>3. HandlersRely' /\ req' \in [Requests -> Handler]
  BY <1>1, <1>2, NothingMoved
<1>4. made + 1 \in 1 .. made' /\ contact'[made + 1] \in proved'
  BY <1>1, <1>2 DEF Kept
<1>5. TypeOK'
  BY <1>1, <1>2, <1>3, <1>4, TypeParts DEF IInv, Kept, TypeOK
<1>6. RowsAreVouched'
  BY <1>1, <1>2, <1>4, VouchedKept DEF IInv, RowsAreVouched, Vouched
<1> QED
  BY <1>3, <1>5, <1>6 DEF IInv

LEMMA DeleteStep ==
  ASSUME IInv, NEW u \in Uids, DeleteAccount(u)
  PROVE  IInv'
<1>1. /\ user' = user \ {u} /\ verified' = verified \ {u}
      /\ linked' = {p \in linked : p[2] # u}
      /\ UNCHANGED <<made, contact, code, history, req>>
  BY DEF DeleteAccount
<1>2. Kept
  BY <1>1, AccountsAssumption DEF Kept, IInv, TypeOK, history
<1>3. HandlersRely' /\ req' \in [Requests -> Handler]
  BY <1>1, <1>2, NothingMoved
<1>4. linked' \subseteq Subjects \X user'
  <2> SUFFICES ASSUME NEW p \in linked, p[2] # u PROVE p \in Subjects \X (user \ {u})
    BY <1>1
  <2> QED
    BY DEF IInv, TypeOK
<1>5. TypeOK'
  BY <1>1, <1>3, <1>4 DEF IInv, TypeOK, history
<1>6. RowsAreVouched'
  BY <1>1 DEF IInv, RowsAreVouched, Vouched, history
<1> QED
  BY <1>3, <1>5, <1>6 DEF IInv

-----------------------------------------------------------------------------
LEMMA StepIInv == IInv /\ [Next]_vars => IInv'
<1> SUFFICES ASSUME IInv, [Next]_vars PROVE IInv'
  OBVIOUS
<1> USE CodeStep, DeleteStep, AcceptInviteStep
<1>1. ASSUME NEW r \in Requests, Handle(r) PROVE IInv'
  <2>1. CASE Answer(r)
    BY <2>1, EndStep DEF Answer, IInv, TypeOK
  <2> QED
    BY <1>1, <2>1, CreateUserStep, FindCodeUserStep, MarkStep, PasswordStep,
       FindAccountStep, ProvisionStep, LinkStep, SessionStep DEF Handle
<1>2. ASSUME NEW r \in Requests, Crash(r) PROVE IInv'
  BY <1>2, EndStep DEF Crash, IInv, TypeOK
<1>3. CASE UNCHANGED vars
  BY <1>3 DEF vars, rows, history, IInv, TypeOK, RowsAreVouched, HandlersRely, Relies, Vouched
<1> QED
  BY <1>1, <1>2, <1>3, StartRegisterStep, ConsumeStep, StartLoginStep, StartSocialStep
     DEF Next

LEMMA SpecIInv == Spec => []IInv
BY InitIInv, StepIInv, PTL DEF Spec

(* For every number of users, requests and accounts at the providers the   *)
(* constraints of the schema hold: a contact has one account, a subject    *)
(* one user, a user one subject of each provider.                          *)
THEOREM TypeCorrect == Spec => []TypeOK
<1>1. IInv => TypeOK
  BY DEF IInv
<1> QED
  BY <1>1, SpecIInv, PTL

(* No interleaving of register, verify, login, social login, invites and   *)
(* deletion opens a session on an account nobody vouched for: every        *)
(* verified or linked row is vouched for, and the handlers keep relying on *)
(* that across their database calls.                                       *)
THEOREM EnteredAreProved == Spec => []EnteredIsProved
<1>1. IInv => EnteredIsProved
  BY DEF IInv, RowsAreVouched, Vouched, EnteredIsProved
<1> QED
  BY <1>1, SpecIInv, PTL

-----------------------------------------------------------------------------
(* Which account a social login enters.  An id never returns, and a link   *)
(* goes only with its account: Bound and Lost are stable.                  *)
Bound(s, u) == <<s, u>> \in linked \/ u \notin user
Lost(h) == h.link # None /\ h.link \notin user

(* The identity found at the start is bound to its account as long as that *)
(* is there; who creates an account found none, or has lost it.            *)
Links(h) == h.kind = "social" =>
  /\ h.link # None => Bound(h.subject, h.link)
  /\ h.pc \in {"provision", "provisioned"} => h.link = None \/ Lost(h)
  /\ h.pc = "provider" => h.link = None \/ Bound(h.subject, h.uid) \/ Lost(h)
  /\ h.pc \in {"session", "in"} => Bound(h.subject, h.uid) \/ Lost(h)

HandlersLink == \A r \in Requests : Links(req[r])

LEMMA IdleLinks == Links(Idle)
BY IdleType DEF Links

(* No account returns that was ever made. *)
NoReturn ==
  /\ \A u \in 0 .. made : u \notin user => u \notin user'
  /\ \A s, u : <<s, u>> \in linked => <<s, u>> \in linked' \/ u \notin user'

LEMMA LinksKept ==
  ASSUME made \in Nat, NoReturn, NEW h \in Handler, Relies(h), Links(h)
  PROVE  Links(h)'
<1>1. CASE h.kind = "social"
  <2>1. h.link \in 0 .. made /\ h.uid \in 0 .. made
    BY <1>1 DEF Relies, Vouched, None
  <2>2. \A u \in {h.link, h.uid} : Bound(h.subject, u) => Bound(h.subject, u)'
    BY <2>1 DEF Bound, NoReturn
  <2>3. Lost(h) => Lost(h)'
    BY <2>1 DEF Lost, NoReturn
  <2> QED
    BY <2>2, <2>3 DEF Links
<1> QED
  BY <1>1 DEF Links

LEMMA StaysNoReturn == UNCHANGED <<user, linked>> => NoReturn
BY DEF NoReturn

LEMMA CreateNoReturn ==
  ASSUME IInv, NEW c, NEW v, CreateRow(c, v)
  PROVE  NoReturn
BY DEF NoReturn, CreateRow, IInv, TypeOK

LEMMA OthersLink ==
  ASSUME IInv, HandlersLink, NoReturn, UNCHANGED req
  PROVE  HandlersLink'
<1> SUFFICES ASSUME NEW q \in Requests PROVE Links(req[q])'
  BY DEF HandlersLink
<1>1. PICK g : g = req[q]
  OBVIOUS
<1>2. g \in Handler /\ Relies(g) /\ Links(g) /\ made \in Nat
  BY <1>1 DEF IInv, TypeOK, HandlersRely, HandlersLink
<1>3. Links(g)'
  BY <1>2, LinksKept
<1> QED
  BY <1>1, <1>3

LEMMA LinksMoved ==
  ASSUME IInv, HandlersLink, NoReturn, NEW r \in Requests, NEW h, Become(r, h), Links(h)'
  PROVE  HandlersLink'
<1>1. \A q \in Requests : req'[q] = IF q = r THEN h ELSE req[q]
  BY DEF Become, IInv, TypeOK
<1> SUFFICES ASSUME NEW q \in Requests PROVE Links(req[q])'
  BY DEF HandlersLink
<1>2. CASE q = r
  BY <1>1, <1>2
<1>3. CASE q # r
  <2>1. PICK g : g = req[q]
    OBVIOUS
  <2>2. g \in Handler /\ Relies(g) /\ Links(g) /\ made \in Nat
    BY <2>1 DEF IInv, TypeOK, HandlersRely, HandlersLink
  <2>3. Links(g)'
    BY <2>2, LinksKept
  <2> QED
    BY <1>1, <1>3, <2>1, <2>3
<1> QED
  BY <1>2, <1>3

LEMMA EndLinks ==
  ASSUME IInv, HandlersLink, NoReturn, NEW r \in Requests, End(r)
  PROVE  HandlersLink'
<1>1. Links(Idle)'
  BY IdleType DEF Links
<1> QED
  BY <1>1, LinksMoved DEF End

(* The handlers that are not social logins. *)
LEMMA OtherHandlersLink ==
  ASSUME IInv, HandlersLink, NEW r \in Requests,
         \/ CreateUser(r) \/ FindCodeUser(r) \/ Mark(r) \/ CheckIdentity(r) \/ StoreOtp(r)
         \/ Answer(r) \/ Crash(r)
         \/ \E c \in Contacts : StartRegister(r, c) \/ Consume(r, c)
         \/ \E u \in Uids : StartLogin(r, u)
  PROVE  HandlersLink'
<1>1. NoReturn
  BY StaysNoReturn, CreateNoReturn
     DEF CreateUser, FindCodeUser, Mark, CheckIdentity, StoreOtp, Answer, Crash,
         StartRegister, Consume, StartLogin, rows
<1>2. CASE End(r)
  BY <1>1, <1>2, EndLinks
<1>3. ASSUME NEW h, Become(r, h), h.kind # "social"
      PROVE  HandlersLink'
  <2>1. Links(h)'
    BY <1>3 DEF Links
  <2> QED
    BY <1>1, <1>3, <2>1, LinksMoved
<1>4. req[r] \in Handler /\ Relies(req[r])
  BY DEF IInv, TypeOK, HandlersRely
<1>5. CASE \E step : Goto(r, step) /\ req[r].pc \in {"mark", "identity", "store"}
  <2>1. PICK step : Goto(r, step) /\ req[r].pc \in {"mark", "identity", "store"}
    BY <1>5
  <2>2. PICK h : h = [req[r] EXCEPT !.pc = step]
    OBVIOUS
  <2>3. Become(r, h) /\ h.kind = req[r].kind /\ req[r].kind # "social"
    BY <1>4, <2>1, <2>2 DEF Goto, Handler, Relies
  <2> QED
    BY <1>3, <2>3
<1>6. ASSUME FindCodeUser(r), ~End(r)
      PROVE  HandlersLink'
  <2>1. PICK u, step : Become(r, [req[r] EXCEPT !.pc = step, !.uid = u])
    BY <1>6 DEF FindCodeUser
  <2>2. PICK h : h = [req[r] EXCEPT !.pc = step, !.uid = u]
    OBVIOUS
  <2>3. Become(r, h) /\ h.kind = req[r].kind /\ req[r].kind # "social"
    BY <1>4, <1>6, <2>1, <2>2 DEF FindCodeUser, Handler, Relies
  <2> QED
    BY <1>3, <2>3
<1>7. ASSUME NEW c \in Contacts, StartRegister(r, c) \/ Consume(r, c)
      PROVE  HandlersLink'
  <2>1. PICK h : Become(r, h) /\ h \in {[Idle EXCEPT !.pc = "create", !.contact = c],
                  [Idle EXCEPT !.pc = "codeUser", !.kind = "code", !.contact = c]}
    BY <1>7 DEF StartRegister, Consume
  <2>2. h.kind # "social"
    BY <2>1, IdleType DEF Handler
  <2> QED
    BY <1>3, <2>1, <2>2
<1>8. ASSUME NEW u \in Uids, StartLogin(r, u)
      PROVE  HandlersLink'
  <2>1. PICK h : h = [Idle EXCEPT !.pc = "identity", !.kind = "password", !.uid = u,
                            !.contact = contact[u], !.verified = u \in verified]
    OBVIOUS
  <2>2. Become(r, h)
    BY <1>8, <2>1 DEF StartLogin
  <2>3. h.kind # "social"
    BY <2>1, IdleType DEF Handler
  <2> QED
    BY <1>3, <2>2, <2>3
<1> QED
  BY <1>2, <1>5, <1>6, <1>7, <1>8
     DEF CreateUser, Mark, CheckIdentity, StoreOtp, Answer, Crash

LEMMA StartSocialLinks ==
  ASSUME IInv, HandlersLink, NEW r \in Requests, NEW s \in Subjects, NEW e \in Emails, NEW T,
         StartSocial(r, s, e, T)
  PROVE  HandlersLink'
<1>1. PICK l \in LinkOf(s) \cup {None} :
        Become(r, [Idle EXCEPT !.pc = "account", !.kind = "social", !.subject = s,
                               !.contact = e, !.link = l])
  BY DEF StartSocial
<1>2. PICK h : h = [Idle EXCEPT !.pc = "account", !.kind = "social", !.subject = s,
                                !.contact = e, !.link = l]
  OBVIOUS
<1>3. h.pc = "account" /\ h.kind = "social" /\ h.subject = s /\ h.link = l
  BY <1>2, IdleType DEF Handler
<1>4. UNCHANGED <<user, linked>> /\ NoReturn
  BY StaysNoReturn DEF StartSocial, rows
<1>5. l # None => <<s, l>> \in linked'
  BY <1>4 DEF LinkOf
<1>6. Links(h)'
  BY <1>3, <1>5 DEF Links, Bound
<1> QED
  BY <1>1, <1>2, <1>4, <1>6, LinksMoved

(* The account of the identity is the one found; if there is none it is    *)
(* lost, and its subject goes on as a new one.                             *)
LEMMA FindAccountLinks ==
  ASSUME IInv, HandlersLink, NEW r \in Requests, FindAccount(r) \/ FindProvisioned(r)
  PROVE  HandlersLink'
<1>1. /\ req[r].pc \in {"account", "provisioned"} /\ UNCHANGED <<user, linked>> /\ NoReturn
      /\ req[r] \in Handler /\ Relies(req[r]) /\ Links(req[r])
  BY StaysNoReturn
     DEF FindAccount, FindProvisioned, IInv, TypeOK, HandlersRely, HandlersLink, rows
<1>2. req[r].kind = "social"
  BY <1>1 DEF Relies
<1>3. CASE End(r)
  BY <1>1, <1>3, EndLinks
<1>4. ASSUME Goto(r, "provision"), req[r].link # None => req[r].link \notin user
      PROVE  HandlersLink'
  <2>1. PICK h : h = [req[r] EXCEPT !.pc = "provision"]
    OBVIOUS
  <2>2. /\ h.pc = "provision" /\ h.subject = req[r].subject /\ h.link = req[r].link
        /\ Become(r, h)
    BY <1>1, <1>4, <2>1 DEF Handler, Goto
  <2>3. Links(h)'
    BY <1>1, <1>2, <1>4, <2>2 DEF Links, Lost, Bound
  <2> QED
    BY <1>1, <2>2, <2>3, LinksMoved
<1>5. ASSUME NEW u, Become(r, [req[r] EXCEPT !.pc = "provider", !.uid = u]),
             req[r].pc = "account" /\ req[r].link # None => u = req[r].link
      PROVE  HandlersLink'
  <2>1. PICK h : h = [req[r] EXCEPT !.pc = "provider", !.uid = u]
    OBVIOUS
  <2>2. /\ h.pc = "provider" /\ h.subject = req[r].subject /\ h.link = req[r].link
        /\ h.uid = u /\ Become(r, h)
    BY <1>1, <1>5, <2>1 DEF Handler
  <2>3. Links(h)'
    BY <1>1, <1>2, <1>5, <2>2 DEF Links, Lost, Bound
  <2> QED
    BY <1>1, <2>2, <2>3, LinksMoved
<1>6. CASE FindAccount(r)
  <2>1. CASE Goto(r, "provision") /\ (req[r].link # None => req[r].link \notin user)
    BY <1>4, <2>1
  <2>2. CASE \E u : /\ Become(r, [req[r] EXCEPT !.pc = "provider", !.uid = u])
                    /\ req[r].link # None => u = req[r].link
    BY <1>5, <2>2
  <2> QED
    BY <1>6, <2>1, <2>2 DEF FindAccount
<1>7. CASE FindProvisioned(r)
  BY <1>3, <1>5, <1>7 DEF FindProvisioned
<1> QED
  BY <1>6, <1>7

LEMMA ProvisionLinks ==
  ASSUME IInv, HandlersLink, NEW r \in Requests, Provision(r)
  PROVE  HandlersLink'
<1>1. /\ req[r].pc = "provision" /\ NoReturn /\ made \in Nat
      /\ req[r] \in Handler /\ Relies(req[r]) /\ Links(req[r])
  <2>1. NoReturn
    BY StaysNoReturn, CreateNoReturn DEF Provision, rows
  <2> QED
    BY <2>1 DEF Provision, IInv, TypeOK, HandlersRely, HandlersLink
<1>2. CASE End(r)
  BY <1>1, <1>2, EndLinks
<1>3. CASE Goto(r, "provisioned")
  <2>1. PICK h : h = [req[r] EXCEPT !.pc = "provisioned"]
    OBVIOUS
  <2>2. /\ h \in Handler /\ h.pc = "provisioned" /\ h.subject = req[r].subject
        /\ h.link = req[r].link /\ h.uid = req[r].uid /\ h.kind = req[r].kind
        /\ h.contact = req[r].contact /\ Become(r, h)
    BY <1>1, <1>3, <2>1 DEF Handler, Goto, PCs
  <2>3. Relies(h) /\ Links(h)
    BY <1>1, <2>2 DEF Links, Lost, Relies
  <2>4. Links(h)'
    BY <1>1, <2>2, <2>3, LinksKept
  <2> QED
    BY <1>1, <2>2, <2>4, LinksMoved
<1> QED
  BY <1>2, <1>3 DEF Provision

(* Only the identity found at the start passes without a link of its own;  *)
(* the others insert the link, or see it inserted.                         *)
LEMMA LinkLinks ==
  ASSUME IInv, HandlersLink, NEW r \in Requests, CheckProvider(r) \/ Link(r) \/ Recheck(r)
  PROVE  HandlersLink'
<1>1. /\ req[r].pc \in {"provider", "link", "recheck"}
      /\ req[r] \in Handler /\ Relies(req[r]) /\ Links(req[r])
      /\ user' = user /\ linked \subseteq linked'
  BY DEF CheckProvider, Link, Recheck, IInv, TypeOK, HandlersRely, HandlersLink, rows
<1>2. NoReturn /\ made \in Nat
  BY <1>1 DEF NoReturn, IInv, TypeOK
<1>3. CASE End(r)
  BY <1>2, <1>3, EndLinks
<1>4. ASSUME NEW step \in {"session", "link", "recheck"}, Goto(r, step),
             step = "session" => \/ <<req[r].subject, req[r].uid>> \in linked'
                                 \/ req[r].pc = "provider" /\ req[r].link # None
      PROVE  HandlersLink'
  <2>1. PICK h : h = [req[r] EXCEPT !.pc = step]
    OBVIOUS
  <2>2. /\ h.pc = step /\ h.subject = req[r].subject /\ h.kind = req[r].kind
        /\ h.link = req[r].link /\ h.uid = req[r].uid /\ Become(r, h)
    BY <1>1, <1>4, <2>1 DEF Handler, Goto
  <2>3. Links(req[r]) /\ req[r].kind = "social"
    BY <1>1 DEF Relies
  <2>4. Links(h)'
    BY <1>1, <1>4, <2>2, <2>3 DEF Links, Lost, Bound
  <2> QED
    BY <1>2, <2>2, <2>4, LinksMoved
<1>5. CASE CheckProvider(r)
  BY <1>3, <1>4, <1>5 DEF CheckProvider
<1>6. CASE Link(r)
  BY <1>3, <1>4, <1>6 DEF Link
<1>7. CASE Recheck(r)
  BY <1>3, <1>4, <1>7 DEF Recheck, rows
<1> QED
  BY <1>5, <1>6, <1>7

LEMMA SessionLinks ==
  ASSUME IInv, HandlersLink, NEW r \in Requests, Session(r)
  PROVE  HandlersLink'
<1>1. /\ req[r].pc = "session" /\ UNCHANGED <<user, linked>> /\ NoReturn
      /\ req[r] \in Handler /\ Links(req[r])
  BY StaysNoReturn DEF Session, IInv, TypeOK, HandlersLink, rows
<1>2. CASE End(r)
  BY <1>1, <1>2, EndLinks
<1>3. CASE Goto(r, "in")
  <2>1. PICK h : h = [req[r] EXCEPT !.pc = "in"]
    OBVIOUS
  <2>2. /\ h.pc = "in" /\ h.subject = req[r].subject /\ h.kind = req[r].kind
        /\ h.link = req[r].link /\ h.uid = req[r].uid /\ Become(r, h)
    BY <1>1, <1>3, <2>1 DEF Handler, Goto
  <2>3. Links(h)'
    BY <1>1, <2>2 DEF Links, Lost, Bound
  <2> QED
    BY <1>1, <2>2, <2>3, LinksMoved
<1> QED
  BY <1>2, <1>3 DEF Session

(* The steps of no handler: a deleted account takes its links with it. *)
LEMMA TablesLink ==
  ASSUME IInv, HandlersLink,
         \/ \E c \in Contacts : Resend(c) \/ Expire(c)
         \/ \E e \in Emails : AcceptInvite(e)
         \/ \E u \in Uids : DeleteAccount(u)
         \/ UNCHANGED vars
  PROVE  HandlersLink'
<1>1. UNCHANGED req
  BY DEF Resend, Expire, AcceptInvite, DeleteAccount, vars
<1>2. ASSUME NEW u \in Uids, DeleteAccount(u) PROVE NoReturn
  <2> SUFFICES ASSUME NEW s, NEW v, <<s, v>> \in linked
               PROVE  <<s, v>> \in linked' \/ v \notin user'
    BY <1>2 DEF NoReturn, DeleteAccount
  <2> QED
    BY <1>2 DEF DeleteAccount
<1>3. NoReturn
  BY <1>2, StaysNoReturn, CreateNoReturn DEF Resend, Expire, AcceptInvite, vars, rows
<1> QED
  BY <1>1, <1>3, OthersLink

LEMMA StepLinks == IInv /\ HandlersLink /\ [Next]_vars => HandlersLink'
<1> SUFFICES ASSUME IInv, HandlersLink, [Next]_vars PROVE HandlersLink'
  OBVIOUS
<1>1. ASSUME NEW r \in Requests, Handle(r) \/ Crash(r) PROVE HandlersLink'
  BY <1>1, OtherHandlersLink, FindAccountLinks, ProvisionLinks, LinkLinks, SessionLinks
     DEF Handle
<1> QED
  BY <1>1, OtherHandlersLink, StartSocialLinks, TablesLink DEF Next

(* Two first logins of one subject, a login that races the deletion of its *)
(* account or another that links its account: a Google or Facebook login   *)
(* enters the account its subject is linked to, unless the account of the  *)
(* identity it found was deleted while it ran.                             *)
THEOREM SocialLoginsEnterLinked == Spec => []SocialEntersLinked
<1>1. Init => HandlersLink
  BY IdleLinks DEF Init, HandlersLink
<1>2. HandlersLink => SocialEntersLinked
  BY DEF HandlersLink, Links, Bound, Lost, SocialEntersLinked, SocialIn
<1> QED
  BY <1>1, <1>2, StepLinks, SpecIInv, PTL DEF Spec
=============================================================================
