--------------------------- MODULE InvitesProofs ---------------------------
(***************************************************************************)
(* Theorems about Invites, for every set of e-mails and roles, every       *)
(* number of requests and every lifetime.                                  *)
(***************************************************************************)
EXTENDS Invites, FiniteSetTheorems, FunctionTheorems, TLAPS

(* What a handler of acceptInvite knows of its invite: the row was issued  *)
(* to its e-mail, its roles are those selected, less some that are gone,   *)
(* and once past markUsed the invite is spent, by this handler alone.      *)
KnowsItsInvite ==
  \A r \in Requests : req[r].pc \in {"markUsed", "findUser", "createUser"} =>
    LET i == req[r].id IN
    /\ i \in issued
    /\ sentTo[i] = req[r].email
    /\ req[r].roles \subseteq wanted[i]
    /\ wanted[i] \cap role \subseteq req[r].roles
    /\ Accepting(r) => i \in usedAt /\ grants[i] = 1

(* The rows: what a live invite carries, and that it was not accepted.     *)
RowsAreTrue ==
  \A i \in issued :
    /\ carries[i] = wanted[i] \cap role
    /\ i \notin usedAt => grants[i] = 0
    /\ sentTo[i] \in account => i \in fruit \cup rivaled

NotIssued == \A i \in Ids \ issued : grants[i] = 0

DirtyIsIssued ==
  \A r \in Requests : req[r].snap \subseteq issued /\ req[r].dirty \subseteq issued

(* An account that came from an invite came from a spent one. *)
Origins ==
  \A e \in Emails : madeBy[e] # 0 => e \in account /\ madeBy[e] \in issued \cap usedAt

IInv ==
  /\ TypeOK /\ InvitedRoles /\ SpentInvitesBearFruit
  /\ KnowsItsInvite /\ RowsAreTrue /\ NotIssued /\ DirtyIsIssued /\ Origins

-----------------------------------------------------------------------------
LEMMA IdleType == Idle \in Handler /\ Idle.pc = "idle" /\ Idle.snap = {} /\ Idle.dirty = {}
<1>1. (CHOOSE e \in Emails : TRUE) \in Emails
  BY InvitesAssumption
<1> QED
  BY <1>1 DEF Idle, Handler, InTx

LEMMA InitIInv == Init => IInv
<1> SUFFICES ASSUME Init PROVE IInv
  OBVIOUS
<1>1. Idle.email \in Emails
  BY IdleType DEF Handler
<1>2. TypeOK
  BY <1>1, IdleType, InvitesAssumption DEF Init, TypeOK, Ids
<1>3. KnowsItsInvite /\ DirtyIsIssued
  BY IdleType DEF Init, KnowsItsInvite, DirtyIsIssued
<1>4. InvitedRoles /\ SpentInvitesBearFruit /\ RowsAreTrue /\ NotIssued /\ Origins
  BY DEF Init, InvitedRoles, SpentInvitesBearFruit, RowsAreTrue, NotIssued, Origins
<1> QED
  BY <1>2, <1>3, <1>4 DEF IInv

(* What a handler in state h has to know of the tables. *)
Knows(h) ==
  /\ h.snap \subseteq issued /\ h.dirty \subseteq issued
  /\ h.dirty # {} => h.pc = "create"
  /\ h.pc \in {"markUsed", "findUser", "createUser"} =>
       /\ h.id \in issued /\ sentTo[h.id] = h.email
       /\ h.roles \subseteq wanted[h.id] /\ wanted[h.id] \cap role \subseteq h.roles
  /\ h.pc \in {"findUser", "createUser"} => h.id \in usedAt /\ grants[h.id] = 1

LEMMA HandlersKnow == IInv => \A r \in Requests : req[r] \in Handler /\ Knows(req[r])
BY DEF IInv, TypeOK, KnowsItsInvite, DirtyIsIssued, Knows, Accepting

LEMMA KnowingHandlers ==
  ASSUME \A r \in Requests : Knows(req[r])
  PROVE  KnowsItsInvite /\ DirtyIsIssued
BY DEF KnowsItsInvite, DirtyIsIssued, Knows, Accepting

(* A handler moves and the tables stay: the invite it lets go is accounted *)
(* for. *)
LEMMA MovedStep ==
  ASSUME IInv, NEW r \in Requests, NEW h \in Handler, Become(r, h), Knows(h),
         UNCHANGED <<clock, role, people, invites, wanted, grants, fruit, rivaled>>,
         died' \in {died, died \cup {req[r].id}}, died' \subseteq usedAt,
         \/ ~Accepting(r)
         \/ h.pc = "createUser" /\ h.id = req[r].id
         \/ req[r].id \in fruit \cup rivaled \cup died'
         \/ ~(wanted[req[r].id] \subseteq role)
  PROVE  IInv'
<1> USE DEF people, invites
<1>1. /\ req' = [req EXCEPT ![r] = h] /\ req \in [Requests -> Handler]
      /\ \A q \in Requests : req'[q] = IF q = r THEN h ELSE req[q]
  BY DEF IInv, TypeOK, Become
<1>2. TypeOK'
  BY <1>1 DEF IInv, TypeOK, Knows
<1>3. KnowsItsInvite' /\ DirtyIsIssued'
  BY <1>1, HandlersKnow DEF KnowsItsInvite, DirtyIsIssued, Knows, Accepting
<1>4. InvitedRoles' /\ RowsAreTrue' /\ NotIssued' /\ Origins'
  BY DEF IInv, InvitedRoles, RowsAreTrue, NotIssued, Origins
<1>5. SpentInvitesBearFruit'
  <2> SUFFICES ASSUME NEW i \in Ids, grants[i] > 0
               PROVE  \/ i \in fruit \cup rivaled \cup died'
                      \/ \E q \in Requests : Accepting(q)' /\ req'[q].id = i
                      \/ ~(wanted[i] \subseteq role)
    BY DEF SpentInvitesBearFruit
  <2>1. \/ i \in fruit \cup rivaled \cup died
        \/ \E q \in Requests : Accepting(q) /\ req[q].id = i
        \/ ~(wanted[i] \subseteq role)
    BY DEF IInv, SpentInvitesBearFruit
  <2>2. ASSUME NEW q \in Requests, Accepting(q), req[q].id = i, q # r
        PROVE  Accepting(q)' /\ req'[q].id = i
    BY <1>1, <2>2 DEF Accepting
  <2>3. ASSUME Accepting(r), req[r].id = i
        PROVE  \/ i \in fruit \cup rivaled \cup died'
               \/ Accepting(r)' /\ req'[r].id = i
               \/ ~(wanted[i] \subseteq role)
    BY <1>1, <2>3 DEF Accepting
  <2> QED
    BY <2>1, <2>2, <2>3
<1> QED
  BY <1>2, <1>3, <1>4, <1>5 DEF IInv

LEMMA EndStep ==
  ASSUME IInv, NEW r \in Requests, End(r), ~Accepting(r),
         UNCHANGED <<clock, role, people, invites, history>>
  PROVE  IInv'
<1>1. Knows(Idle) /\ died \subseteq usedAt
  BY IdleType DEF Knows, IInv, TypeOK
<1> QED
  BY <1>1, IdleType, MovedStep DEF End, history, story

(* The steps of inviteUser, *)
LEMMA StartInviteStep ==
  ASSUME IInv, NEW r \in Requests, NEW e \in Emails, NEW R \in SUBSET Roles,
         StartInvite(r, e, R)
  PROVE  IInv'
<1> DEFINE h == [Idle EXCEPT !.pc = "findRoles", !.email = e, !.roles = R]
<1>1. h \in Handler /\ h.pc = "findRoles" /\ h.snap = {} /\ h.dirty = {}
  BY IdleType DEF Handler
<1>2. Become(r, h) /\ ~Accepting(r) /\ UNCHANGED <<clock, role, people, invites, history>>
  BY IdleType DEF StartInvite, Accepting
<1> HIDE DEF h
<1>3. Knows(h) /\ died \subseteq usedAt
  BY <1>1 DEF Knows, IInv, TypeOK
<1> QED
  BY <1>1, <1>2, <1>3, MovedStep DEF history, story

LEMMA FindRolesStep ==
  ASSUME IInv, NEW r \in Requests, FindRoles(r)
  PROVE  IInv'
<1> DEFINE h == [req[r] EXCEPT !.pc = "snapshot", !.time = clock + InviteTTL]
<1>1. /\ req[r] \in Handler /\ Knows(req[r]) /\ req[r].pc = "findRoles"
      /\ ~Accepting(r) /\ UNCHANGED <<clock, role, people, invites, history>>
  BY HandlersKnow DEF FindRoles, Accepting
<1>2. CASE Become(r, h)
  <2>1. clock + InviteTTL \in Nat
    BY InvitesAssumption DEF IInv, TypeOK
  <2>2. h \in Handler /\ h.pc = "snapshot" /\ h.snap = req[r].snap /\ h.dirty = req[r].dirty
    BY <1>1, <2>1 DEF Handler
  <2> HIDE DEF h
  <2>3. Knows(h) /\ died \subseteq usedAt
    BY <1>1, <2>2 DEF Knows, IInv, TypeOK
  <2> QED
    BY <1>1, <1>2, <2>2, <2>3, MovedStep DEF history, story
<1>3. CASE End(r)
  BY <1>1, <1>3, EndStep
<1> QED
  BY <1>2, <1>3 DEF FindRoles

LEMMA SnapshotStep ==
  ASSUME IInv, NEW r \in Requests, Snapshot(r)
  PROVE  IInv'
<1> DEFINE S == LiveFor(req[r].email, clock)
           h == [req[r] EXCEPT !.pc = "invalidate", !.snap = S]
<1>1. /\ req[r] \in Handler /\ Knows(req[r]) /\ req[r].pc = "snapshot" /\ Become(r, h)
      /\ ~Accepting(r) /\ UNCHANGED <<clock, role, people, invites, history>>
  BY HandlersKnow DEF Snapshot, Accepting
<1>2. S \subseteq issued /\ S \subseteq Ids
  BY DEF LiveFor, IInv, TypeOK
<1>3. h \in Handler /\ h.pc = "invalidate" /\ h.snap = S /\ h.dirty = req[r].dirty
  BY <1>1, <1>2 DEF Handler, InTx
<1> HIDE DEF h
<1>4. Knows(h) /\ died \subseteq usedAt
  BY <1>1, <1>2, <1>3 DEF Knows, IInv, TypeOK
<1> QED
  BY <1>1, <1>3, <1>4, MovedStep DEF history, story

LEMMA InvalidateStep ==
  ASSUME IInv, NEW r \in Requests, Invalidate(r)
  PROVE  IInv'
<1> DEFINE S == req[r].snap \ usedAt
           h == [req[r] EXCEPT !.pc = "create", !.snap = {}, !.dirty = S]
<1>1. /\ req[r] \in Handler /\ Knows(req[r]) /\ req[r].pc = "invalidate" /\ Become(r, h)
      /\ ~Accepting(r) /\ UNCHANGED <<clock, role, people, invites, history>>
  BY HandlersKnow DEF Invalidate, Accepting
<1>2. h \in Handler /\ h.pc = "create" /\ h.snap = {} /\ h.dirty = S
  BY <1>1 DEF Handler, InTx
<1> HIDE DEF h
<1>3. Knows(h) /\ died \subseteq usedAt
  BY <1>1, <1>2 DEF Knows, IInv, TypeOK
<1> QED
  BY <1>1, <1>2, <1>3, MovedStep DEF history, story

(* of which the last stores a row that nobody refers to yet. *)
LEMMA CreateStep ==
  ASSUME IInv, NEW r \in Requests, Create(r)
  PROVE  IInv'
<1> USE DEF IInv, people
<1>1. /\ req[r] \in Handler /\ Knows(req[r]) /\ req[r].pc = "create" /\ End(r)
      /\ ~Accepting(r) /\ UNCHANGED <<clock, role, people, grants, fruit, died>>
  BY HandlersKnow DEF Create, Accepting
<1>2. CASE ~(req[r].roles \subseteq role)
  BY <1>1, <1>2, EndStep DEF Create, history, story
<1>3. ASSUME req[r].roles \subseteq role, Insert(r) PROVE IInv'
  <2>1. PICK i \in Ids \ issued :
          /\ issued' = issued \cup {i}
          /\ usedAt' = usedAt \cup req[r].dirty
          /\ sentTo' = [sentTo EXCEPT ![i] = req[r].email]
          /\ carries' = [carries EXCEPT ![i] = req[r].roles]
          /\ expires' = [expires EXCEPT ![i] = req[r].time]
          /\ wanted' = [wanted EXCEPT ![i] = req[r].roles]
          /\ rivaled' = IF req[r].email \in account THEN rivaled \cup {i} ELSE rivaled
    BY <1>3 DEF Insert
  <2>2. /\ \A q \in Requests : req'[q] = IF q = r THEN Idle ELSE req[q]
        /\ req' \in [Requests -> Handler] /\ Idle \in Handler
        /\ Idle.pc = "idle" /\ Idle.snap = {} /\ Idle.dirty = {}
    BY <1>1, IdleType DEF TypeOK, End, Become
  <2>3. /\ usedAt \subseteq usedAt' /\ usedAt' \subseteq issued' /\ i \notin usedAt'
        /\ \A j \in Ids \ {i} : /\ sentTo'[j] = sentTo[j] /\ carries'[j] = carries[j]
                                /\ wanted'[j] = wanted[j]
        /\ sentTo'[i] = req[r].email /\ carries'[i] = req[r].roles
        /\ wanted'[i] = req[r].roles
    BY <1>1, <2>1 DEF TypeOK, Knows
  <2>4. TypeOK'
    <3>1. /\ sentTo' \in [Ids -> Emails] /\ carries' \in [Ids -> SUBSET Roles]
          /\ expires' \in [Ids -> Nat] /\ wanted' \in [Ids -> SUBSET Roles]
      BY <1>1, <2>1 DEF TypeOK, Handler
    <3>2. issued' \subseteq Ids /\ fruit' \subseteq usedAt' /\ died' \subseteq usedAt'
          /\ rivaled' \subseteq issued'
      BY <1>1, <2>1, <2>3 DEF TypeOK
    <3> QED
      BY <1>1, <2>2, <2>3, <3>1, <3>2 DEF TypeOK
  <2>5. KnowsItsInvite' /\ DirtyIsIssued'
    <3>1. \A q \in Requests : Knows(req[q])'
      BY <1>1, <2>1, <2>2, <2>3, HandlersKnow DEF Knows, TypeOK
    <3> QED
      BY <3>1 DEF KnowsItsInvite, DirtyIsIssued, Knows, Accepting
  <2>6. RowsAreTrue' /\ NotIssued'
    <3>1. grants[i] = 0 /\ \A j \in issued : j \in Ids /\ j # i
      BY DEF NotIssued, TypeOK
    <3>2. NotIssued'
      BY <1>1, <2>1 DEF NotIssued
    <3> QED
      BY <1>1, <1>3, <2>1, <2>3, <3>1, <3>2 DEF RowsAreTrue
  <2>7. Origins' /\ InvitedRoles'
    BY <1>1, <2>1, <2>3 DEF Origins, InvitedRoles, TypeOK
  <2>8. SpentInvitesBearFruit'
    <3> SUFFICES ASSUME NEW j \in Ids, grants[j] > 0
                 PROVE  \/ j \in (fruit \cup rivaled \cup died)'
                        \/ \E q \in Requests : Accepting(q)' /\ req'[q].id = j
                        \/ ~(wanted'[j] \subseteq role)
      BY <1>1 DEF SpentInvitesBearFruit
    <3>1. j # i /\ wanted'[j] = wanted[j]
      BY <2>1, <2>3 DEF NotIssued
    <3>2. \A q \in Requests : Accepting(q) => Accepting(q)' /\ req'[q].id = req[q].id
      BY <1>1, <2>2 DEF Accepting
    <3> QED
      BY <1>1, <2>1, <3>1, <3>2 DEF SpentInvitesBearFruit
  <2> QED
    BY <2>4, <2>5, <2>6, <2>7, <2>8
<1> QED
  BY <1>2, <1>3 DEF Create

-----------------------------------------------------------------------------
(* The steps of acceptInvite. *)
LEMMA StartAcceptStep ==
  ASSUME IInv, NEW r \in Requests, NEW i \in Ids, StartAccept(r, i)
  PROVE  IInv'
<1> DEFINE h == [Idle EXCEPT !.pc = "markUsed", !.id = i, !.email = sentTo[i],
                             !.roles = carries[i], !.time = clock]
<1>1. /\ i \in issued /\ Become(r, h) /\ ~Accepting(r)
      /\ UNCHANGED <<clock, role, people, invites, history>>
  BY IdleType DEF StartAccept, Pending, Accepting
<1>2. clock \in Nat /\ sentTo[i] \in Emails /\ carries[i] \in SUBSET Roles
      /\ carries[i] = wanted[i] \cap role /\ died \subseteq usedAt
  BY <1>1, InvitesAssumption DEF IInv, TypeOK, RowsAreTrue
<1>3. /\ h \in Handler /\ h.pc = "markUsed" /\ h.id = i /\ h.email = sentTo[i]
      /\ h.roles = carries[i] /\ h.snap = {} /\ h.dirty = {}
  BY <1>2, IdleType DEF Handler, InTx
<1> HIDE DEF h
<1>4. Knows(h)
  BY <1>1, <1>2, <1>3 DEF Knows
<1> QED
  BY <1>1, <1>2, <1>3, <1>4, MovedStep DEF history, story

(* The invite is spent, and this handler has it. *)
LEMMA MarkUsedStep ==
  ASSUME IInv, NEW r \in Requests, MarkUsed(r)
  PROVE  IInv'
<1> USE DEF IInv, people
<1> DEFINE h == [req[r] EXCEPT !.pc = "findUser"]
<1>0. PICK i \in Ids : i = req[r].id /\ i \in issued
  BY DEF MarkUsed, KnowsItsInvite, TypeOK
<1>1. /\ req[r] \in Handler /\ Knows(req[r]) /\ req[r].pc = "markUsed" /\ ~Accepting(r)
      /\ UNCHANGED <<clock, role, people, issued, sentTo, carries, expires, wanted, story>>
  BY HandlersKnow DEF MarkUsed, Accepting
<1>2. CASE ~(Pending(i) /\ expires[i] > req[r].time)
  BY <1>0, <1>1, <1>2, EndStep DEF MarkUsed, history, invites
<1>3. CASE Pending(i) /\ expires[i] > req[r].time
  <2>1. /\ i \notin usedAt /\ usedAt' = usedAt \cup {i} /\ Become(r, h)
        /\ grants' = [grants EXCEPT ![i] = @ + 1]
    BY <1>0, <1>3 DEF MarkUsed, Pending
  <2>2. /\ grants' \in [Ids -> Nat] /\ grants'[i] = 1
        /\ \A j \in Ids \ {i} : grants'[j] = grants[j]
    BY <1>0, <2>1 DEF TypeOK, RowsAreTrue
  <2>3. /\ h \in Handler /\ h.pc = "findUser" /\ h.id = i /\ h.email = req[r].email
        /\ h.roles = req[r].roles /\ h.snap = req[r].snap /\ h.dirty = req[r].dirty
    BY <1>0, <1>1 DEF Handler
  <2> HIDE DEF h
  <2>4. /\ \A q \in Requests : req'[q] = IF q = r THEN h ELSE req[q]
        /\ req' \in [Requests -> Handler]
    BY <2>1, <2>3 DEF TypeOK, Become
  <2>5. TypeOK'
    <3>1. \A q \in Requests : req'[q].dirty # {} => req'[q].pc = "create"
      BY <1>1, <2>3, <2>4 DEF TypeOK, Knows
    <3> QED
      BY <1>0, <1>1, <2>1, <2>2, <2>4, <3>1 DEF TypeOK, story
  <2>6. KnowsItsInvite' /\ DirtyIsIssued'
    <3>1. \A q \in Requests : Knows(req[q])'
      BY <1>0, <1>1, <2>1, <2>2, <2>3, <2>4, HandlersKnow DEF Knows, TypeOK
    <3> QED
      BY <3>1 DEF KnowsItsInvite, DirtyIsIssued, Knows, Accepting
  <2>7. RowsAreTrue' /\ NotIssued' /\ Origins'
    BY <1>0, <1>1, <2>1, <2>2 DEF RowsAreTrue, NotIssued, Origins, TypeOK, story
  <2>8. InvitedRoles'
    BY <1>0, <1>1, <2>1, <2>2 DEF InvitedRoles, Origins, TypeOK
  <2>9. SpentInvitesBearFruit'
    <3> SUFFICES ASSUME NEW j \in Ids, grants'[j] > 0
                 PROVE  \/ j \in (fruit \cup rivaled \cup died)'
                        \/ \E q \in Requests : Accepting(q)' /\ req'[q].id = j
                        \/ ~(wanted[j] \subseteq role)
      BY <1>1 DEF SpentInvitesBearFruit
    <3>1. CASE j = i
      BY <2>3, <2>4, <3>1 DEF Accepting
    <3>2. CASE j # i
      <4>1. \A q \in Requests : Accepting(q) => Accepting(q)' /\ req'[q].id = req[q].id
        BY <1>1, <2>4 DEF Accepting
      <4> QED
        BY <1>1, <2>2, <3>2, <4>1 DEF SpentInvitesBearFruit, story
    <3> QED
      BY <3>1, <3>2
  <2> QED
    BY <2>5, <2>6, <2>7, <2>8, <2>9
<1> QED
  BY <1>2, <1>3

(* 409: then the e-mail has an account of its own, and the row knows. *)
LEMMA FindUserStep ==
  ASSUME IInv, NEW r \in Requests, FindUser(r)
  PROVE  IInv'
<1> DEFINE h == [req[r] EXCEPT !.pc = "createUser"]
<1>1. /\ req[r] \in Handler /\ Knows(req[r]) /\ req[r].pc = "findUser"
      /\ UNCHANGED <<clock, role, people, invites, history>> /\ died \subseteq usedAt
  BY HandlersKnow DEF FindUser, IInv, TypeOK
<1>2. CASE req[r].email \in account
  <2>1. req[r].id \in fruit \cup rivaled
    BY <1>1, <1>2 DEF Knows, IInv, RowsAreTrue
  <2>2. Become(r, Idle) /\ Knows(Idle)
    BY <1>2, IdleType DEF FindUser, End, Knows
  <2> QED
    BY <1>1, <2>1, <2>2, IdleType, MovedStep DEF history, story
<1>3. CASE req[r].email \notin account
  <2>1. /\ h \in Handler /\ h.pc = "createUser" /\ h.id = req[r].id
        /\ h.email = req[r].email /\ h.roles = req[r].roles
        /\ h.snap = req[r].snap /\ h.dirty = req[r].dirty
    BY <1>1 DEF Handler
  <2>2. Become(r, h)
    BY <1>3 DEF FindUser
  <2> HIDE DEF h
  <2>3. Knows(h)
    BY <1>1, <2>1 DEF Knows
  <2> QED
    BY <1>1, <2>1, <2>2, <2>3, MovedStep DEF history, story
<1> QED
  BY <1>2, <1>3

LEMMA CrashStep ==
  ASSUME IInv, NEW r \in Requests, Crash(r)
  PROVE  IInv'
<1>1. /\ Knows(req[r]) /\ Become(r, Idle) /\ Knows(Idle) /\ died \subseteq usedAt
      /\ UNCHANGED <<clock, role, people, invites, wanted, grants, fruit, rivaled>>
      /\ died' = IF Accepting(r) THEN died \cup {req[r].id} ELSE died
  BY HandlersKnow, IdleType DEF Crash, End, Knows, IInv, TypeOK
<1>2. died' \subseteq usedAt
  BY <1>1 DEF Knows, Accepting
<1> QED
  BY <1>1, <1>2, IdleType, MovedStep

(* The one place where an invited account comes to be.  A failure is one   *)
(* of an e-mail that is taken, or of a role that is gone.                  *)
LEMMA CreateUserStep ==
  ASSUME IInv, NEW r \in Requests, CreateUser(r)
  PROVE  IInv'
<1> USE DEF IInv
<1>0. PICK e \in Emails, i \in Ids : e = req[r].email /\ i = req[r].id /\ i \in issued
  BY DEF CreateUser, KnowsItsInvite, TypeOK, Handler
<1>1. /\ req[r] \in Handler /\ Knows(req[r]) /\ req[r].pc = "createUser"
      /\ Become(r, Idle) /\ Knows(Idle) /\ died \subseteq usedAt
      /\ UNCHANGED <<clock, role, invites, wanted, grants, died>>
  BY HandlersKnow, IdleType DEF CreateUser, End, Knows, TypeOK
<1>2. CASE ~(e \notin account /\ req[r].roles \subseteq role)
  <2>1. UNCHANGED <<people, fruit, rivaled>>
    BY <1>0, <1>2 DEF CreateUser
  <2>2. i \in fruit \cup rivaled \/ ~(wanted[i] \subseteq role)
    BY <1>0, <1>1, <1>2 DEF Knows, RowsAreTrue
  <2> QED
    BY <1>0, <1>1, <2>1, <2>2, IdleType, MovedStep
<1>3. CASE e \notin account /\ req[r].roles \subseteq role
  <2>1. /\ account' = account \cup {e} /\ madeBy' = [madeBy EXCEPT ![e] = i]
        /\ assigned' = [assigned EXCEPT ![e] = req[r].roles]
        /\ fruit' = fruit \cup {i}
        /\ rivaled' = rivaled \cup {j \in issued \ {i} : sentTo[j] = e}
    BY <1>0, <1>3 DEF CreateUser, Born
  <2>2. /\ i \in usedAt /\ grants[i] = 1 /\ sentTo[i] = e
        /\ req[r].roles = wanted[i] \cap role
    BY <1>0, <1>1, <1>3 DEF Knows
  <2>3. /\ \A q \in Requests : req'[q] = IF q = r THEN Idle ELSE req[q]
        /\ req' \in [Requests -> Handler]
    BY <1>1, IdleType DEF TypeOK, Become
  <2>4. TypeOK'
    <3>1. \A q \in Requests : req'[q].dirty # {} => req'[q].pc = "create"
      BY <2>3, IdleType DEF TypeOK
    <3>2. madeBy' \in [Emails -> Ids \cup {0}] /\ assigned' \in [Emails -> SUBSET Roles]
      BY <1>0, <1>1, <2>1 DEF TypeOK, Handler
    <3> QED
      BY <1>1, <2>1, <2>2, <2>3, <3>1, <3>2 DEF TypeOK, invites
  <2>5. KnowsItsInvite' /\ DirtyIsIssued'
    <3>1. \A q \in Requests : Knows(req[q])'
      BY <1>1, <2>3, IdleType, HandlersKnow DEF Knows, invites
    <3> QED
      BY <3>1 DEF KnowsItsInvite, DirtyIsIssued, Knows, Accepting
  <2>6. InvitedRoles' /\ Origins' /\ NotIssued'
    BY <1>0, <1>1, <2>1, <2>2 DEF InvitedRoles, Origins, NotIssued, TypeOK, invites
  <2>7. RowsAreTrue'
    BY <1>0, <1>1, <2>1 DEF RowsAreTrue, invites
  <2>8. SpentInvitesBearFruit'
    <3> SUFFICES ASSUME NEW j \in Ids, grants[j] > 0
                 PROVE  \/ j \in (fruit \cup rivaled \cup died)'
                        \/ \E q \in Requests : Accepting(q)' /\ req'[q].id = j
                        \/ ~(wanted[j] \subseteq role)
      BY <1>1 DEF SpentInvitesBearFruit
    <3>1. \A q \in Requests \ {r} : Accepting(q) => Accepting(q)' /\ req'[q].id = req[q].id
      BY <2>3 DEF Accepting
    <3> QED
      BY <1>0, <1>1, <2>1, <3>1 DEF SpentInvitesBearFruit
  <2> QED
    BY <2>4, <2>5, <2>6, <2>7, <2>8
<1> QED
  BY <1>2, <1>3

-----------------------------------------------------------------------------
(* What happens to the tables meanwhile. *)
LEMMA KnowsKept ==
  ASSUME IInv, UNCHANGED <<req, issued, usedAt, sentTo, wanted, grants>>, role' \subseteq role
  PROVE  KnowsItsInvite' /\ DirtyIsIssued'
BY DEF IInv, KnowsItsInvite, DirtyIsIssued, Accepting

LEMMA FruitKept ==
  ASSUME IInv, UNCHANGED <<req, wanted, grants, died>>, role' \subseteq role,
         fruit \subseteq fruit', rivaled \subseteq rivaled'
  PROVE  SpentInvitesBearFruit'
BY DEF IInv, SpentInvitesBearFruit, Accepting

LEMMA RegisterStep ==
  ASSUME IInv, NEW e \in Emails, Register(e)
  PROVE  IInv'
<1>1. /\ e \notin account /\ account' = account \cup {e}
      /\ fruit' = fruit /\ rivaled' = rivaled \cup {j \in issued \ {0} : sentTo[j] = e}
      /\ UNCHANGED <<clock, role, madeBy, assigned, invites, req, wanted, grants, died>>
  BY DEF Register, Born, Ids
<1> USE DEF invites
<1>2. TypeOK'
  BY <1>1 DEF IInv, TypeOK
<1>3. RowsAreTrue'
  <2>1. \A j \in issued : j # 0
    BY DEF IInv, TypeOK, Ids
  <2> QED
    BY <1>1, <2>1 DEF IInv, RowsAreTrue
<1>4. NotIssued' /\ Origins' /\ InvitedRoles'
  BY <1>1 DEF IInv, NotIssued, Origins, InvitedRoles
<1>5. KnowsItsInvite' /\ DirtyIsIssued' /\ SpentInvitesBearFruit'
  BY <1>1, KnowsKept, FruitKept
<1> QED
  BY <1>2, <1>3, <1>4, <1>5 DEF IInv

LEMMA DeleteAccountStep ==
  ASSUME IInv, NEW e \in Emails, DeleteAccount(e)
  PROVE  IInv'
<1>1. /\ account' = account \ {e}
      /\ madeBy' = [madeBy EXCEPT ![e] = 0] /\ assigned' = [assigned EXCEPT ![e] = {}]
      /\ UNCHANGED <<clock, role, invites, req, history>>
  BY DEF DeleteAccount
<1> USE DEF invites, history, story
<1>2. TypeOK'
  BY <1>1 DEF IInv, TypeOK
<1>3. RowsAreTrue' /\ NotIssued' /\ Origins' /\ InvitedRoles'
  BY <1>1 DEF IInv, TypeOK, RowsAreTrue, NotIssued, Origins, InvitedRoles
<1> QED
  BY <1>1, <1>2, <1>3, KnowsKept, FruitKept DEF IInv

LEMMA DeleteRoleStep ==
  ASSUME IInv, NEW x \in Roles, DeleteRole(x)
  PROVE  IInv'
<1>1. /\ role' = role \ {x}
      /\ assigned' = [e \in Emails |-> assigned[e] \ {x}]
      /\ carries' = [i \in Ids |-> carries[i] \ {x}]
      /\ UNCHANGED <<clock, account, madeBy, issued, usedAt, sentTo, expires, req, history>>
  BY DEF DeleteRole
<1> USE DEF history, story
<1>2. TypeOK'
  BY <1>1 DEF IInv, TypeOK
<1>3. RowsAreTrue' /\ NotIssued' /\ Origins' /\ InvitedRoles'
  BY <1>1 DEF IInv, TypeOK, RowsAreTrue, NotIssued, Origins, InvitedRoles
<1> QED
  BY <1>1, <1>2, <1>3, KnowsKept, FruitKept DEF IInv

LEMMA StepIInv == IInv /\ [Next]_vars => IInv'
<1> SUFFICES ASSUME IInv, [Next]_vars PROVE IInv'
  OBVIOUS
<1>1. ASSUME NEW r \in Requests, Handle(r) PROVE IInv'
  BY <1>1, FindRolesStep, SnapshotStep, InvalidateStep, CreateStep, MarkUsedStep,
     FindUserStep, CreateUserStep DEF Handle
<1>2. CASE Tick
  <2>1. clock' \in 0 .. MaxClock
    BY <1>2, InvitesAssumption DEF Tick, IInv, TypeOK
  <2>2. UNCHANGED <<role, people, invites, req, history>>
    BY <1>2 DEF Tick
  <2> QED
    BY <2>1, <2>2, KnowsKept, FruitKept
       DEF IInv, TypeOK, RowsAreTrue, NotIssued, Origins, InvitedRoles, people, invites,
           history, story
<1>3. CASE UNCHANGED vars
  <2>1. UNCHANGED <<clock, role, people, invites, req, history>>
    BY <1>3 DEF vars
  <2> QED
    BY <2>1, KnowsKept, FruitKept
       DEF IInv, TypeOK, RowsAreTrue, NotIssued, Origins, InvitedRoles, people, invites,
           history, story
<1> QED
  BY <1>1, <1>2, <1>3, CrashStep, StartInviteStep, StartAcceptStep, RegisterStep,
     DeleteAccountStep, DeleteRoleStep DEF Next

(* The tables are typed; only spent invites made accounts or were lost.    *)
THEOREM TypeCorrect == Spec => []TypeOK
<1>1. IInv => TypeOK
  BY DEF IInv
<1> QED
  BY InitIInv, StepIInv, <1>1, PTL DEF Spec

(* acceptInvite reads the roles long before it grants them: still an       *)
(* invited account has what its inviter selected and still exists, no more *)
(* and no less.                                                            *)
THEOREM InvitedRolesHold == Spec => []InvitedRoles
<1>1. IInv => InvitedRoles
  BY DEF IInv
<1> QED
  BY InitIInv, StepIInv, <1>1, PTL DEF Spec

(* The invite is spent before the account is made, and nothing but a       *)
(* crash, a rival account or a deleted role wastes it.                     *)
THEOREM NoInviteWasted == Spec => []SpentInvitesBearFruit
<1>1. IInv => SpentInvitesBearFruit
  BY DEF IInv
<1> QED
  BY InitIInv, StepIInv, <1>1, PTL DEF Spec

-----------------------------------------------------------------------------
(* The rows a createUserInvite has changed are held until its commit:      *)
(* nobody else uses them.                                                  *)
Holding ==
  /\ \A r \in Requests : req[r].dirty \cap usedAt = {}
  /\ \A q, r \in Requests : q # r => req[q].dirty \cap req[r].dirty = {}

(* A handler that takes no rows and a commit that touches none. *)
LEMMA HoldingKept ==
  ASSUME IInv, Holding, NEW r \in Requests, NEW h, Become(r, h), h.dirty = {},
         \A q \in Requests \ {r} : req[q].dirty \cap (usedAt' \ usedAt) = {}
  PROVE  Holding'
<1>1. \A q \in Requests : req'[q] = IF q = r THEN h ELSE req[q]
  BY DEF IInv, TypeOK, Become
<1> QED
  BY <1>1 DEF Holding

LEMMA StepHolding ==
  ASSUME IInv, Holding, [Next]_vars
  PROVE  Holding'
<1> USE DEF invites
<1>1. ASSUME UNCHANGED <<req, usedAt>> PROVE Holding'
  BY <1>1 DEF Holding
<1>2. ASSUME NEW r \in Requests, End(r), usedAt' \subseteq usedAt \cup req[r].dirty
      PROVE  Holding'
  <2>1. \A q \in Requests \ {r} : req[q].dirty \cap (usedAt' \ usedAt) = {}
    BY <1>2 DEF Holding
  <2> QED
    BY <1>2, <2>1, IdleType, HoldingKept DEF End
<1>3. ASSUME NEW r \in Requests, NEW h, Become(r, h), h.dirty = {}, usedAt' = usedAt
      PROVE  Holding'
  BY <1>3, HoldingKept
<1>4. ASSUME NEW r \in Requests, Handle(r) PROVE Holding'
  <2>0. req[r] \in Handler /\ (req[r].pc # "create" => req[r].dirty = {})
    BY DEF IInv, TypeOK
  <2>1. CASE FindRoles(r)
    <3>1. PICK h : h = [req[r] EXCEPT !.pc = "snapshot", !.time = clock + InviteTTL]
      OBVIOUS
    <3>2. (Become(r, h) \/ End(r)) /\ usedAt' = usedAt /\ h.dirty = {}
      BY <2>0, <2>1, <3>1 DEF FindRoles, Handler
    <3> QED
      BY <1>2, <1>3, <3>2
  <2>2. CASE Snapshot(r)
    <3>1. PICK h : h = [req[r] EXCEPT !.pc = "invalidate",
                                      !.snap = LiveFor(req[r].email, clock)]
      OBVIOUS
    <3>2. Become(r, h) /\ usedAt' = usedAt /\ h.dirty = {}
      BY <2>0, <2>2, <3>1 DEF Snapshot, Handler
    <3> QED
      BY <1>3, <3>2
  <2>3. CASE Invalidate(r)
    <3>1. PICK S : S = req[r].snap \ usedAt
      OBVIOUS
    <3>2. PICK h : h = [req[r] EXCEPT !.pc = "create", !.snap = {}, !.dirty = S]
      OBVIOUS
    <3>3. Become(r, h) /\ usedAt' = usedAt /\ h.dirty = S /\ Untouched(r, req[r].snap)
      BY <2>0, <2>3, <3>1, <3>2 DEF Invalidate, Handler
    <3>4. \A q \in Requests : req'[q] = IF q = r THEN h ELSE req[q]
      BY <3>3 DEF Become, IInv, TypeOK
    <3> QED
      BY <3>1, <3>3, <3>4 DEF Holding, Untouched
  <2>4. CASE Create(r)
    BY <1>2, <2>4 DEF Create, Insert
  <2>5. CASE MarkUsed(r)
    <3>1. CASE End(r) /\ usedAt' = usedAt
      BY <1>2, <3>1
    <3>2. ASSUME Become(r, [req[r] EXCEPT !.pc = "findUser"]), usedAt' = usedAt \cup {req[r].id}
          PROVE  Holding'
      <4>1. PICK h : h = [req[r] EXCEPT !.pc = "findUser"]
        OBVIOUS
      <4>2. h.dirty = {} /\ Become(r, h)
        BY <2>0, <2>5, <3>2, <4>1 DEF MarkUsed, Handler
      <4>3. \A q \in Requests \ {r} : req[q].dirty \cap (usedAt' \ usedAt) = {}
        BY <2>5, <3>2 DEF MarkUsed, Untouched
      <4> QED
        BY <4>2, <4>3, HoldingKept
    <3> QED
      BY <2>5, <3>1, <3>2 DEF MarkUsed
  <2>6. CASE FindUser(r)
    <3>1. PICK h : h = [req[r] EXCEPT !.pc = "createUser"]
      OBVIOUS
    <3>2. (Become(r, h) \/ End(r)) /\ usedAt' = usedAt /\ h.dirty = {}
      BY <2>0, <2>6, <3>1 DEF FindUser, Handler
    <3> QED
      BY <1>2, <1>3, <3>2
  <2>7. CASE CreateUser(r)
    BY <1>2, <2>7 DEF CreateUser
  <2> QED
    BY <1>4, <2>1, <2>2, <2>3, <2>4, <2>5, <2>6, <2>7 DEF Handle
<1>5. ASSUME NEW r \in Requests, NEW e \in Emails, NEW R \in SUBSET Roles,
             StartInvite(r, e, R)
      PROVE  Holding'
  <2>1. PICK h : h = [Idle EXCEPT !.pc = "findRoles", !.email = e, !.roles = R]
    OBVIOUS
  <2>2. Become(r, h) /\ usedAt' = usedAt /\ h.dirty = {}
    BY <1>5, <2>1, IdleType DEF StartInvite, Handler
  <2> QED
    BY <1>3, <2>2
<1>6. ASSUME NEW r \in Requests, NEW i \in Ids, StartAccept(r, i) PROVE Holding'
  <2>1. PICK h : h = [Idle EXCEPT !.pc = "markUsed", !.id = i, !.email = sentTo[i],
                                  !.roles = carries[i], !.time = clock]
    OBVIOUS
  <2>2. Become(r, h) /\ usedAt' = usedAt /\ h.dirty = {}
    BY <1>6, <2>1, IdleType DEF StartAccept, Handler
  <2> QED
    BY <1>3, <2>2
<1>7. ASSUME NEW r \in Requests, Crash(r) PROVE Holding'
  BY <1>2, <1>7 DEF Crash
<1>8. CASE \/ \E e \in Emails : Register(e) \/ DeleteAccount(e)
           \/ \E x \in Roles : DeleteRole(x)
           \/ Tick \/ UNCHANGED vars
  BY <1>1, <1>8 DEF Register, DeleteAccount, DeleteRole, Tick, vars
<1> QED
  BY <1>4, <1>5, <1>6, <1>7, <1>8 DEF Next

-----------------------------------------------------------------------------
(* The refinement of OneTimeToken. *)
LEMMA Views == /\ View = [i \in Ids |-> View[i]] /\ View' = [i \in Ids |-> View'[i]]
               /\ \A i \in Ids : View[i] = Standing(i) /\ View'[i] = Standing(i)'
BY DEF View

LEMMA LiveRows ==
  ASSUME IInv, NEW i \in Ids, Pending(i)
  PROVE  grants[i] = 0 /\ View[i] = "live"
BY Views DEF IInv, RowsAreTrue, Pending, Standing

LEMMA InitMaps == Init => Abstract!Init
<1> SUFFICES ASSUME Init PROVE Abstract!Init
  OBVIOUS
<1>1. \A i \in Ids : View[i] = "absent"
  BY Views DEF Init, Standing
<1>2. View = [i \in Ids |-> "absent"]
  BY <1>1, Views
<1> QED
  BY <1>2 DEF Init, Abstract!Init

LEMMA CreateMaps ==
  ASSUME IInv, Holding, NEW r \in Requests, Insert(r), grants' = grants
  PROVE  Abstract!Next
<1>1. PICK i \in Ids \ issued : issued' = issued \cup {i} /\ usedAt' = usedAt \cup req[r].dirty
  BY DEF Insert
<1>2. PICK D : D = req[r].dirty
  OBVIOUS
<1>3. /\ D \subseteq issued /\ D \cap usedAt = {} /\ i \notin usedAt /\ grants[i] = 0
      /\ issued \subseteq Ids
  BY <1>1, <1>2 DEF IInv, TypeOK, DirtyIsIssued, NotIssued, Holding
<1>4. \A j \in D : grants[j] = 0 /\ View[j] = "live"
  BY <1>3, LiveRows DEF Pending
<1>5. D \subseteq Abstract!Live /\ D \in SUBSET Ids
  BY <1>3, <1>4 DEF Abstract!Live
<1>6. View[i] = "absent"
  BY <1>1, Views DEF Standing
<1>7. \A j \in Ids : View'[j] = IF j = i THEN "live" ELSE IF j \in D THEN "void" ELSE View[j]
  <2> TAKE j \in Ids
  <2>1. CASE j = i
    BY <1>1, <1>2, <1>3, <2>1, Views DEF Standing
  <2>2. CASE j \in D
    BY <1>1, <1>2, <1>3, <1>4, <2>2, Views DEF Standing
  <2>3. CASE j # i /\ j \notin D
    BY <1>1, <1>2, <2>3, Views DEF Standing
  <2> QED
    BY <1>1, <1>3, <2>1, <2>2, <2>3
<1>8. View' = [j \in Ids |-> IF j = i THEN "live" ELSE IF j \in D THEN "void" ELSE View[j]]
  BY <1>7, Views
<1>9. Abstract!Issue(i, D)
  BY <1>5, <1>6, <1>8 DEF Abstract!Issue
<1> QED
  BY <1>1, <1>5, <1>9 DEF Abstract!Next

LEMMA MarkUsedMaps ==
  ASSUME IInv, NEW i \in Ids, Pending(i), usedAt' = usedAt \cup {i}, issued' = issued,
         grants' = [grants EXCEPT ![i] = @ + 1]
  PROVE  Abstract!Next
<1>1. grants[i] = 0 /\ View[i] = "live"
  BY LiveRows
<1>2. grants'[i] = 1 /\ \A j \in Ids \ {i} : grants'[j] = grants[j]
  BY <1>1 DEF IInv, TypeOK
<1>3. \A j \in Ids : View'[j] = IF j = i THEN "spent" ELSE View[j]
  BY <1>2, Views DEF Standing, Pending
<1>4. View' = [View EXCEPT ![i] = "spent"]
  BY <1>3, Views
<1>5. Abstract!Redeem(i)
  BY <1>1, <1>4 DEF Abstract!Redeem
<1> QED
  BY <1>5 DEF Abstract!Next

LEMMA StepMaps ==
  ASSUME IInv, Holding, [Next]_vars
  PROVE  [Abstract!Next]_Abstract!vars
<1>1. CASE UNCHANGED <<issued, usedAt, grants>>
  <2>1. \A i \in Ids : View'[i] = View[i]
    BY <1>1, Views DEF Standing
  <2>2. View' = View
    BY <2>1, Views
  <2> QED
    BY <1>1, <2>2 DEF Abstract!vars
<1>2. ASSUME NEW r \in Requests, Insert(r), grants' = grants
      PROVE  Abstract!Next
  BY <1>2, CreateMaps
<1>3. ASSUME NEW r \in Requests, MarkUsed(r), ~UNCHANGED <<usedAt, grants>>
      PROVE  Abstract!Next
  <2>1. PICK i \in Ids : i = req[r].id
    BY <1>3 DEF MarkUsed, IInv, KnowsItsInvite, TypeOK
  <2> QED
    BY <1>3, <2>1, MarkUsedMaps DEF MarkUsed
<1>4. \/ UNCHANGED <<issued, usedAt, grants>>
      \/ \E r \in Requests : Insert(r) /\ grants' = grants
      \/ \E r \in Requests : MarkUsed(r) /\ ~UNCHANGED <<usedAt, grants>>
  BY DEF Next, Handle, FindRoles, Snapshot, Invalidate, Create, MarkUsed, FindUser,
              CreateUser, StartInvite, StartAccept, Register, DeleteAccount, DeleteRole, Crash,
              Tick, vars, invites, history, story
<1> QED
  BY <1>1, <1>2, <1>3, <1>4

LEMMA AlwaysHolding == Spec => [](IInv /\ Holding)
<1>1. Init => Holding
  BY IdleType DEF Init, Holding
<1>2. IInv /\ Holding /\ [Next]_vars => IInv' /\ Holding'
  BY StepIInv, StepHolding
<1> QED
  BY <1>1, <1>2, InitIInv, PTL DEF Spec

(* Invites are one-time tokens: a stored invite is issued in place of      *)
(* those it replaces, an accepted one redeemed, and nothing else shows.    *)
THEOREM InvitesAreOneTime == Spec => ImplementsOneTimeToken
<1>1. IInv /\ Holding /\ [Next]_vars => [Abstract!Next]_Abstract!vars
  BY StepMaps
<1> QED
  BY <1>1, AlwaysHolding, InitMaps, PTL DEF Spec, ImplementsOneTimeToken, Abstract!Spec

(* What an abstract step keeps, in terms of this module's rows. *)
LEMMA AccountedKept ==
  ASSUME Abstract!Accounted, [Abstract!Next]_Abstract!vars
  PROVE  Abstract!Accounted'
<1> USE DEF Abstract!Accounted, Abstract!TypeOK, Abstract!AtMostOnce, Abstract!States
<1>1. ASSUME NEW t \in Ids, Abstract!Redeem(t) PROVE Abstract!Accounted'
  BY <1>1 DEF Abstract!Redeem
<1>2. ASSUME NEW t \in Ids, NEW S, Abstract!Issue(t, S) PROVE Abstract!Accounted'
  BY <1>2 DEF Abstract!Issue, Abstract!Live
<1>3. ASSUME NEW S, Abstract!Void(S) \/ Abstract!Erase(S) PROVE Abstract!Accounted'
  BY <1>3 DEF Abstract!Void, Abstract!Erase, Abstract!Live
<1>4. CASE UNCHANGED Abstract!vars
  BY <1>4 DEF Abstract!vars
<1> QED
  BY <1>1, <1>2, <1>3, <1>4 DEF Abstract!Next

(* No invite is accepted twice, however many acceptances run at once. *)
THEOREM InvitesGrantOnce == Spec => []Abstract!AtMostOnce
<1>1. Init => Abstract!Accounted
  <2> SUFFICES ASSUME Abstract!Init PROVE Abstract!Accounted
    BY InitMaps
  <2> QED
    BY DEF Abstract!Init, Abstract!Accounted, Abstract!TypeOK, Abstract!AtMostOnce, Abstract!States
<1>2. IInv /\ Holding /\ [Next]_vars /\ Abstract!Accounted => Abstract!Accounted'
  BY StepMaps, AccountedKept
<1>3. Abstract!Accounted => Abstract!AtMostOnce
  BY DEF Abstract!Accounted
<1> QED
  BY <1>1, <1>2, <1>3, AlwaysHolding, PTL DEF Spec

-----------------------------------------------------------------------------
(* Of the valid invites of an e-mail no two were made by handlers in the   *)
(* same slot, and a handler about to make one holds its own.               *)
Valid(i) == i \in issued \ usedAt /\ expires[i] > clock

Covers(by, r) ==
  \A i \in issued : Valid(i) /\ sentTo[i] = req[r].email /\ by[i] = r =>
    /\ req[r].pc = "invalidate" => i \in req[r].snap
    /\ req[r].pc = "create" => i \in req[r].dirty

InvitedBy(by) ==
  /\ \A i, j \in issued : Valid(i) /\ Valid(j) /\ sentTo[i] = sentTo[j] /\ by[i] = by[j]
                           => i = j
  /\ \A r \in Requests : Covers(by, r)

Attributed == \E by \in [issued -> Requests] : InvitedBy(by)

LEMMA InitAttributed == Init => Attributed
<1> SUFFICES ASSUME Init PROVE Attributed
  OBVIOUS
<1>1. PICK by : by = [i \in issued |-> CHOOSE r \in Requests : TRUE]
  OBVIOUS
<1>2. by \in [issued -> Requests] /\ InvitedBy(by)
  BY <1>1 DEF Init, InvitedBy, Covers
<1> QED
  BY <1>2 DEF Attributed

(* No row is added and none comes to life: the attribution stands when the *)
(* handlers still hold what they have to. *)
LEMMA AttributionStands ==
  ASSUME Attributed, UNCHANGED <<issued, sentTo>>,
         \A i \in issued : Valid(i)' => Valid(i),
         \A by \in [issued -> Requests], q \in Requests : InvitedBy(by) => Covers(by, q)'
  PROVE  Attributed'
<1>1. PICK by \in [issued -> Requests] : InvitedBy(by)
  BY DEF Attributed
<1>2. InvitedBy(by)'
  BY <1>1 DEF InvitedBy
<1> QED
  BY <1>1, <1>2 DEF Attributed

LEMMA NoneComesToLife ==
  ASSUME IInv, UNCHANGED <<issued, expires>>, usedAt \subseteq usedAt',
         clock' \in Nat, clock <= clock'
  PROVE  \A i \in issued : Valid(i)' => Valid(i)
BY DEF Valid, IInv, TypeOK

(* A handler moves to a step that neither invalidates nor creates. *)
LEMMA MovedAttribution ==
  ASSUME IInv, Attributed, NEW r \in Requests, NEW h, Become(r, h),
         h.pc \notin {"invalidate", "create"},
         UNCHANGED <<clock, issued, sentTo, expires>>, usedAt \subseteq usedAt'
  PROVE  Attributed'
<1>1. \A i \in issued : Valid(i)' => Valid(i)
  BY NoneComesToLife DEF IInv, TypeOK
<1>2. \A q \in Requests : req'[q] = IF q = r THEN h ELSE req[q]
  BY DEF Become, IInv, TypeOK
<1>3. \A by \in [issued -> Requests], q \in Requests : InvitedBy(by) => Covers(by, q)'
  BY <1>1, <1>2 DEF InvitedBy, Covers
<1> QED
  BY <1>1, <1>3, AttributionStands

LEMMA InvalidationAttributes ==
  ASSUME IInv, Attributed, NEW r \in Requests, Snapshot(r) \/ Invalidate(r)
  PROVE  Attributed'
<1>1. /\ UNCHANGED <<clock, issued, usedAt, sentTo, expires>> /\ req[r] \in Handler
      /\ issued \subseteq Ids
  BY DEF Snapshot, Invalidate, invites, IInv, TypeOK
<1>2. \A i \in issued : Valid(i)' => Valid(i)
  BY <1>1 DEF Valid
<1>3. PICK h : /\ \A q \in Requests : req'[q] = IF q = r THEN h ELSE req[q]
               /\ h.email = req[r].email
               /\ \/ h.pc = "invalidate" /\ h.snap = LiveFor(req[r].email, clock)
                  \/ /\ req[r].pc = "invalidate" /\ h.pc = "create"
                     /\ h.dirty = req[r].snap \ usedAt
  <2>1. CASE Snapshot(r)
    <3>1. PICK L : L = LiveFor(req[r].email, clock)
      OBVIOUS
    <3>2. PICK h : h = [req[r] EXCEPT !.pc = "invalidate", !.snap = L]
      OBVIOUS
    <3>3. h.email = req[r].email /\ h.pc = "invalidate" /\ h.snap = L
      BY <1>1, <3>2 DEF Handler
    <3>4. \A q \in Requests : req'[q] = IF q = r THEN h ELSE req[q]
      BY <2>1, <3>1, <3>2 DEF Snapshot, Become, IInv, TypeOK
    <3> QED
      BY <3>1, <3>3, <3>4
  <2>2. CASE Invalidate(r)
    <3>1. PICK D : D = req[r].snap \ usedAt
      OBVIOUS
    <3>2. PICK h : h = [req[r] EXCEPT !.pc = "create", !.snap = {}, !.dirty = D]
      OBVIOUS
    <3>3. h.email = req[r].email /\ h.pc = "create" /\ h.dirty = D
      BY <1>1, <3>2 DEF Handler
    <3>4. /\ req[r].pc = "invalidate"
          /\ \A q \in Requests : req'[q] = IF q = r THEN h ELSE req[q]
      BY <2>2, <3>1, <3>2 DEF Invalidate, Become, IInv, TypeOK
    <3> QED
      BY <3>1, <3>3, <3>4
  <2> QED
    BY <2>1, <2>2
<1>4. ASSUME NEW by \in [issued -> Requests], NEW q \in Requests, InvitedBy(by)
      PROVE  Covers(by, q)'
  <2>1. CASE q # r
    BY <1>1, <1>2, <1>3, <1>4, <2>1 DEF InvitedBy, Covers
  <2>2. ASSUME q = r, NEW i \in issued, Valid(i), sentTo[i] = h.email, by[i] = r
        PROVE  /\ h.pc = "invalidate" => i \in h.snap
               /\ h.pc = "create" => i \in h.dirty
    <3>1. h.pc = "invalidate" /\ h.snap = LiveFor(req[r].email, clock) => i \in h.snap
      BY <1>3, <2>2 DEF LiveFor, Valid
    <3>2. req[r].pc = "invalidate" => i \in req[r].snap \ usedAt
      BY <1>3, <1>4, <2>2 DEF InvitedBy, Covers, Valid
    <3> QED
      BY <1>3, <3>1, <3>2
  <2> QED
    BY <1>1, <1>2, <1>3, <2>1, <2>2 DEF Covers
<1> QED
  BY <1>1, <1>2, <1>4, AttributionStands

(* The new row is its handler's, whose other rows it replaces. *)
LEMMA InsertAttributes ==
  ASSUME IInv, Attributed, NEW r \in Requests, req[r].pc = "create", Insert(r), End(r),
         clock' = clock
  PROVE  Attributed'
<1>1. PICK t \in Ids \ issued :
        /\ issued' = issued \cup {t} /\ usedAt' = usedAt \cup req[r].dirty
        /\ sentTo' = [sentTo EXCEPT ![t] = req[r].email]
        /\ expires' = [expires EXCEPT ![t] = req[r].time]
  BY DEF Insert
<1>2. PICK by \in [issued -> Requests] : InvitedBy(by)
  BY DEF Attributed
<1>3. PICK to \in [issued' -> Requests] : to[t] = r /\ \A i \in issued : to[i] = by[i] /\ i # t
  <2>1. [i \in issued' |-> IF i = t THEN r ELSE by[i]] \in [issued' -> Requests]
    BY <1>1
  <2> QED
    BY <1>1, <2>1
<1>4. /\ sentTo'[t] = req[r].email
      /\ \A i \in issued : sentTo'[i] = sentTo[i] /\ (Valid(i)' => Valid(i) /\ i \notin req[r].dirty)
  BY <1>1 DEF Valid, IInv, TypeOK
<1>5. \A q \in Requests : req'[q] = IF q = r THEN Idle ELSE req[q]
  BY DEF End, Become, IInv, TypeOK
<1>6. \A i \in issued : Valid(i)' /\ sentTo[i] = req[r].email => by[i] # r
  BY <1>2, <1>4 DEF InvitedBy, Covers
<1>7. ASSUME NEW i \in issued', NEW j \in issued', Valid(i)', Valid(j)',
             sentTo'[i] = sentTo'[j], to[i] = to[j]
      PROVE  i = j
  <2>1. CASE i \in issued /\ j \in issued
    BY <1>2, <1>3, <1>4, <1>7, <2>1 DEF InvitedBy
  <2>2. CASE i = t \/ j = t
    BY <1>1, <1>3, <1>4, <1>6, <1>7, <2>2
  <2> QED
    BY <1>1, <2>1, <2>2
<1>8. ASSUME NEW q \in Requests PROVE Covers(to, q)'
  <2>1. CASE q = r
    BY <1>5, <2>1, IdleType DEF Covers
  <2>2. ASSUME q # r, NEW i \in issued', Valid(i)', sentTo'[i] = req[q].email, to[i] = q
        PROVE  /\ req[q].pc = "invalidate" => i \in req[q].snap
               /\ req[q].pc = "create" => i \in req[q].dirty
    <3>1. i \in issued /\ by[i] = q
      BY <1>1, <1>3, <2>2
    <3> QED
      BY <1>2, <1>4, <2>2, <3>1 DEF InvitedBy, Covers
  <2> QED
    BY <1>5, <2>1, <2>2 DEF Covers
<1>9. InvitedBy(to)'
  BY <1>7, <1>8 DEF InvitedBy
<1> QED
  BY <1>3, <1>9 DEF Attributed

LEMMA StepAttributed == IInv /\ Attributed /\ [Next]_vars => Attributed'
<1> SUFFICES ASSUME IInv, Attributed, [Next]_vars PROVE Attributed'
  OBVIOUS
<1> USE DEF invites
<1>1. ASSUME NEW r \in Requests, End(r), UNCHANGED <<clock, issued, sentTo, expires>>,
             usedAt \subseteq usedAt'
      PROVE  Attributed'
  BY <1>1, IdleType, MovedAttribution DEF End
<1>2. ASSUME NEW r \in Requests, NEW s \in {"findUser", "createUser"},
             Become(r, [req[r] EXCEPT !.pc = s]),
             UNCHANGED <<clock, issued, sentTo, expires>>, usedAt \subseteq usedAt'
      PROVE  Attributed'
  <2>1. [req[r] EXCEPT !.pc = s].pc = s
    BY DEF IInv, TypeOK, Handler
  <2> QED
    BY <1>2, <2>1, MovedAttribution
<1>3. ASSUME NEW r \in Requests, Handle(r) PROVE Attributed'
  <2>1. CASE FindRoles(r)
    <3>1. PICK h : h = [req[r] EXCEPT !.pc = "snapshot", !.time = clock + InviteTTL]
      OBVIOUS
    <3>2. h.pc = "snapshot" /\ (Become(r, h) \/ End(r))
      BY <2>1, <3>1 DEF FindRoles, IInv, TypeOK, Handler
    <3> QED
      BY <1>1, <2>1, <3>2, MovedAttribution DEF FindRoles
  <2>2. CASE Snapshot(r) \/ Invalidate(r)
    BY <2>2, InvalidationAttributes
  <2>3. CASE Create(r)
    BY <1>1, <2>3, InsertAttributes DEF Create
  <2>4. CASE MarkUsed(r)
    BY <1>1, <1>2, <2>4 DEF MarkUsed
  <2>5. CASE FindUser(r)
    BY <1>1, <1>2, <2>5 DEF FindUser
  <2>6. CASE CreateUser(r)
    BY <1>1, <2>6 DEF CreateUser
  <2> QED
    BY <1>3, <2>1, <2>2, <2>3, <2>4, <2>5, <2>6 DEF Handle
<1>4. ASSUME NEW r \in Requests, NEW e \in Emails, NEW R \in SUBSET Roles,
             StartInvite(r, e, R)
      PROVE  Attributed'
  BY <1>4, MovedAttribution DEF StartInvite, Idle
<1>5. ASSUME NEW r \in Requests, NEW i \in Ids, StartAccept(r, i) PROVE Attributed'
  BY <1>5, MovedAttribution DEF StartAccept, Idle
<1>6. ASSUME NEW r \in Requests, Crash(r) PROVE Attributed'
  BY <1>1, <1>6 DEF Crash
<1>7. CASE \/ \E e \in Emails : Register(e) \/ DeleteAccount(e)
           \/ \E x \in Roles : DeleteRole(x)
           \/ Tick \/ UNCHANGED vars
  <2>1. /\ UNCHANGED <<issued, usedAt, sentTo, expires, req>>
        /\ clock' \in Nat /\ clock <= clock'
    BY <1>7, InvitesAssumption DEF Register, DeleteAccount, DeleteRole, Tick, vars, IInv, TypeOK
  <2>2. \A i \in issued : Valid(i)' => Valid(i)
    BY <2>1, NoneComesToLife
  <2>3. \A by \in [issued -> Requests], q \in Requests : InvitedBy(by) => Covers(by, q)'
    BY <2>1, <2>2 DEF InvitedBy, Covers
  <2> QED
    BY <2>1, <2>2, <2>3, AttributionStands
<1> QED
  BY <1>3, <1>4, <1>5, <1>6, <1>7 DEF Next

(* inviteUser replaces the earlier invites it sees: however many run, die  *)
(* or overlap, an e-mail has at most as many valid invites as requests can *)
(* overlap. *)
THEOREM ValidInvitesBounded ==
  ASSUME IsFiniteSet(Requests)
  PROVE  Spec => []LiveInvitesBounded
<1>1. IInv /\ Attributed => LiveInvitesBounded
  <2> SUFFICES ASSUME Attributed, NEW e \in Emails
               PROVE  Cardinality(LiveFor(e, clock)) <= Cardinality(Requests)
    BY DEF LiveInvitesBounded
  <2>1. PICK by \in [issued -> Requests] : InvitedBy(by)
    BY DEF Attributed
  <2>2. PICK S : S = LiveFor(e, clock)
    OBVIOUS
  <2>3. \A i \in S : i \in issued /\ Valid(i) /\ sentTo[i] = e
    BY <2>2 DEF LiveFor, Valid
  <2>4. PICK f \in [S -> Requests] : \A i \in S : f[i] = by[i]
    <3>1. [i \in S |-> by[i]] \in [S -> Requests]
      BY <2>1, <2>3
    <3> QED
      BY <3>1
  <2>5. \A i, j \in S : f[i] = f[j] => i = j
    BY <2>1, <2>3, <2>4 DEF InvitedBy
  <2>6. f \in Injection(S, Requests)
    BY <2>4, <2>5, Fun_IsInj
  <2>7. Cardinality(S) <= Cardinality(Requests)
    BY <2>6, FS_Injection
  <2> QED
    BY <2>2, <2>7
<1>2. IInv /\ Attributed /\ [Next]_vars => IInv' /\ Attributed'
  BY StepIInv, StepAttributed
<1>3. Init => IInv /\ Attributed
  BY InitIInv, InitAttributed
<1> QED
  BY <1>1, <1>2, <1>3, PTL DEF Spec

-----------------------------------------------------------------------------
(* One request at a time; a slot serves any number of them. *)
OneAtATime == \A q, r \in Requests : q = r
OneValidInvite == \A e \in Emails : Cardinality(LiveFor(e, clock)) <= 1

(* "Invalidate any previously active invite for this email to prevent      *)
(* parallel valid invites" holds when inviteUser runs one call at a time:  *)
(* of two that overlap neither sees the other's row.                       *)
THEOREM OneInviteValid == ASSUME OneAtATime PROVE Spec => []OneValidInvite
<1>1. IsFiniteSet(Requests) /\ Cardinality(Requests) \in Nat /\ Cardinality(Requests) <= 1
  <2>1. CASE Requests = {}
    BY <2>1, FS_EmptySet
  <2>2. CASE Requests # {}
    <3>1. PICK r : r \in Requests
      BY <2>2
    <3>2. Requests = {r}
      BY <3>1 DEF OneAtATime
    <3>3. IsFiniteSet({r}) /\ Cardinality({r}) = 1
      BY FS_Singleton
    <3> QED
      BY <3>2, <3>3
  <2> QED
    BY <2>1, <2>2
<1>2. Spec => []IInv
  BY InitIInv, StepIInv, PTL DEF Spec
<1>3. IInv /\ LiveInvitesBounded => OneValidInvite
  <2> SUFFICES ASSUME LiveInvitesBounded, IInv, NEW e \in Emails
               PROVE  Cardinality(LiveFor(e, clock)) <= 1
    BY DEF OneValidInvite
  <2>1. LiveFor(e, clock) \subseteq Ids
    BY DEF LiveFor, IInv, TypeOK
  <2>2. IsFiniteSet(Ids)
    BY FS_Interval, InvitesAssumption DEF Ids
  <2>3. Cardinality(LiveFor(e, clock)) \in Nat
    BY <2>1, <2>2, FS_Subset, FS_CardinalityType
  <2>4. Cardinality(LiveFor(e, clock)) <= Cardinality(Requests)
    BY DEF LiveInvitesBounded
  <2> QED
    BY <1>1, <2>3, <2>4
<1>4. Spec => []LiveInvitesBounded
  BY <1>1, ValidInvitesBounded
<1> QED
  BY <1>2, <1>3, <1>4, PTL
=============================================================================
