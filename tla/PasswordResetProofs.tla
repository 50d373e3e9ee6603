------------------------ MODULE PasswordResetProofs ------------------------
(***************************************************************************)
(* Theorems about PasswordReset, for every set of users, every number of   *)
(* overlapping requests and every lifetime.                                *)
(***************************************************************************)
EXTENDS PasswordReset, FiniteSetTheorems, FunctionTheorems, TLAPS

USE DEF history

(* What a handler between the read and the update knows of the row. *)
KnowsItsToken ==
  \A r \in Requests : req[r].pc = "markUsed" =>
    /\ req[r].token \in issued
    /\ owner[req[r].token] = req[r].user

(* A token that was accepted is marked used. *)
GrantedIsUsed == \A t \in Ids : grants[t] > 0 => t \in used

(* The update by id alone accepts a token once per request that overlaps,  *)
(* never more.                                                             *)
GrantsBoundedByOverlap ==
  \A t \in Ids : grants[t] + Cardinality(Reading(t)) <= Cardinality(Requests)

IInv == TypeOK /\ KnowsItsToken /\ GrantedIsUsed /\ GrantsBoundedByOverlap

LEMMA IdleType == Idle \in Handler /\ Idle.pc = "idle"
<1>1. SomeUser \in Users
  BY ResetAssumption DEF SomeUser
<1> QED
  BY <1>1, ResetAssumption DEF Idle, Handler

LEMMA ReadingFinite ==
  ASSUME NEW t \in Ids
  PROVE  IsFiniteSet(Reading(t)) /\ Cardinality(Reading(t)) <= Cardinality(Requests)
         /\ Cardinality(Reading(t)) \in Nat /\ Cardinality(Requests) \in Nat
<1>1. Reading(t) \subseteq Requests
  BY DEF Reading
<1> QED
  BY <1>1, ResetAssumption, FS_Subset, FS_CardinalityType

LEMMA InitIInv == Init => IInv
<1> SUFFICES ASSUME Init PROVE IInv
  OBVIOUS
<1>1. TypeOK
  BY IdleType, ResetAssumption DEF Init, TypeOK, SomeUser, Ids, Nobody
<1>2. KnowsItsToken /\ GrantedIsUsed
  BY IdleType DEF Init, KnowsItsToken, GrantedIsUsed
<1>3. GrantsBoundedByOverlap
  BY ReadingFinite DEF Init, GrantsBoundedByOverlap
<1> QED
  BY <1>1, <1>2, <1>3 DEF IInv

(* A handler moves, and no token is accepted: the bound holds unless the   *)
(* handler is about to update a token that was accepted before.            *)
LEMMA BoundKept ==
  ASSUME IInv, NEW r \in Requests, NEW h \in Handler, Become(r, h), UNCHANGED grants,
         h.pc = "markUsed" => h.token \in Ids /\ grants[h.token] = 0
  PROVE  GrantsBoundedByOverlap'
<1> SUFFICES ASSUME NEW t \in Ids
             PROVE  grants[t] + Cardinality(Reading(t)') <= Cardinality(Requests)
  BY DEF GrantsBoundedByOverlap
<1>1. grants[t] \in Nat /\ grants[t] + Cardinality(Reading(t)) <= Cardinality(Requests)
  BY DEF IInv, TypeOK, GrantsBoundedByOverlap
<1>2. Reading(t)' \subseteq Requests
  BY DEF Reading
<1>3. IsFiniteSet(Reading(t)') /\ Cardinality(Reading(t)') <= Cardinality(Requests)
      /\ Cardinality(Reading(t)') \in Nat
  BY <1>2, ResetAssumption, FS_Subset, FS_CardinalityType
<1>4. CASE h.pc = "markUsed" /\ h.token = t
  BY <1>3, <1>4, ReadingFinite
<1>5. CASE ~(h.pc = "markUsed" /\ h.token = t)
  <2>1. Reading(t)' \subseteq Reading(t)
    BY <1>5 DEF Reading, Become, IInv, TypeOK
  <2>2. Cardinality(Reading(t)') <= Cardinality(Reading(t))
    BY <2>1, ReadingFinite, FS_Subset
  <2> QED
    BY <1>1, <1>3, <2>2, ReadingFinite
<1> QED
  BY <1>4, <1>5

(* A handler moves and the tables stay. *)
LEMMA MovedStep ==
  ASSUME IInv, NEW r \in Requests, NEW h \in Handler, Become(r, h),
         UNCHANGED <<clock, user, table, history>>,
         UNCHANGED password,
         h.pc = "markUsed" => /\ h.token \in issued \ used
                              /\ owner[h.token] = h.user,
         h.pc \in {"findUser", "setPassword"} => h.token \in UsedBy(h.user)
  PROVE  IInv'
<1> USE DEF table
<1>1. TypeOK'
  BY DEF IInv, TypeOK, Become, UsedBy
<1>2. KnowsItsToken' /\ GrantedIsUsed'
  BY DEF IInv, TypeOK, KnowsItsToken, GrantedIsUsed, Become
<1>3. GrantsBoundedByOverlap'
  <2>1. h.pc = "markUsed" => h.token \in Ids /\ grants[h.token] = 0
    BY DEF IInv, TypeOK, GrantedIsUsed
  <2> QED
    BY <2>1, BoundKept
<1> QED
  BY <1>1, <1>2, <1>3 DEF IInv

LEMMA HandlerEdits ==
  ASSUME IInv, NEW r \in Requests
  PROVE  /\ req[r] \in Handler
         /\ \A s \in {"create", "findUser", "setPassword"} :
              LET h == [req[r] EXCEPT !.pc = s] IN
              /\ h \in Handler /\ h.pc = s
              /\ h.token = req[r].token /\ h.user = req[r].user
         /\ \A u \in Users, e \in 0 .. MaxClock + TTL :
              [Idle EXCEPT !.pc = "revoke", !.user = u, !.expires = e] \in Handler
         /\ \A u \in Users, t \in Ids :
              [Idle EXCEPT !.pc = "markUsed", !.user = u, !.token = t] \in Handler
BY IdleType DEF IInv, TypeOK, Handler

-----------------------------------------------------------------------------
LEMMA StartVerifyStep ==
  ASSUME IInv, NEW r \in Requests, NEW u \in Users, StartVerify(r, u)
  PROVE  IInv'
<1> DEFINE h == [Idle EXCEPT !.pc = "revoke", !.user = u, !.expires = clock + TTL]
<1>1. clock + TTL \in 0 .. MaxClock + TTL
  BY ResetAssumption DEF IInv, TypeOK
<1>2. h \in Handler /\ h.pc = "revoke"
  BY <1>1, HandlerEdits DEF Idle
<1>3. Become(r, h) /\ UNCHANGED <<clock, user, table, password, history>>
  BY DEF StartVerify
<1> HIDE DEF h
<1> QED
  BY <1>2, <1>3, MovedStep

LEMMA RevokeStep ==
  ASSUME IInv, NEW r \in Requests, Revoke(r)
  PROVE  IInv'
<1> DEFINE h == [req[r] EXCEPT !.pc = "create"]
<1>1. h \in Handler /\ h.pc = "create" /\ Become(r, h)
  BY HandlerEdits DEF Revoke, Goto, Handler
<1> HIDE DEF h
<1>2. revoked' \subseteq issued /\ UNCHANGED <<clock, user, issued, used, owner, expires,
                                               password, grants>>
  BY DEF Revoke, UnspentOf, Unspent, IInv, TypeOK
<1>a. raced' \subseteq used' \cup revoked'
  BY DEF Revoke, IInv, TypeOK
<1>3. TypeOK'
  BY <1>1, <1>2, <1>a DEF IInv, TypeOK, Become, UsedBy
<1>4. KnowsItsToken' /\ GrantedIsUsed'
  BY <1>1, <1>2 DEF IInv, TypeOK, KnowsItsToken, GrantedIsUsed, Become
<1> QED
  BY <1>1, <1>2, <1>3, <1>4, BoundKept DEF IInv

(* A new row changes no row that a handler or a password refers to. *)
LEMMA CreateStep ==
  ASSUME IInv, NEW r \in Requests, Create(r)
  PROVE  IInv'
<1>1. Idle \in Handler /\ Idle.pc = "idle" /\ Become(r, Idle)
      /\ UNCHANGED <<clock, user, used, revoked, password, history>>
  BY IdleType DEF Create, End
<1>2. /\ issued \subseteq issued' /\ issued' \subseteq Ids
      /\ owner' \in [Ids -> Users] /\ expires' \in [Ids -> 0 .. MaxClock + TTL]
      /\ \A t \in issued : owner'[t] = owner[t]
  <2>1. CASE req[r].user \in user
    <3>1. PICK t \in Ids \ issued : /\ issued' = issued \cup {t}
                                    /\ owner' = [owner EXCEPT ![t] = req[r].user]
                                    /\ expires' = [expires EXCEPT ![t] = req[r].expires]
      BY <2>1 DEF Create
    <3> QED
      BY <2>1, <3>1 DEF IInv, TypeOK, Handler
  <2>2. CASE req[r].user \notin user
    BY <2>2 DEF Create, IInv, TypeOK
  <2> QED
    BY <2>1, <2>2
<1>3. TypeOK'
  <2>1. \A u \in Users : UsedBy(u)' = UsedBy(u)
    BY <1>1, <1>2 DEF UsedBy, IInv, TypeOK
  <2> QED
    BY <1>1, <1>2, <2>1 DEF IInv, TypeOK, Become, Handler
<1>4. KnowsItsToken' /\ GrantedIsUsed'
  BY <1>1, <1>2 DEF IInv, TypeOK, KnowsItsToken, GrantedIsUsed, Become
<1> QED
  BY <1>1, <1>3, <1>4, BoundKept DEF IInv

LEMMA ReadStep ==
  ASSUME IInv, NEW r \in Requests, NEW t \in Ids, Read(r, t)
  PROVE  IInv'
<1> DEFINE h == [Idle EXCEPT !.pc = "markUsed", !.user = owner[t], !.token = t]
<1>1. /\ h \in Handler /\ h.pc = "markUsed" /\ h.token = t /\ h.user = owner[t]
  BY HandlerEdits DEF Idle, IInv, TypeOK
<1>2. /\ Become(r, h) /\ UNCHANGED <<clock, user, table, password, history>>
      /\ t \in issued \ used
  BY DEF Read, Unspent
<1> HIDE DEF h
<1> QED
  BY <1>1, <1>2, MovedStep

(* One reader less, one acceptance more. *)
LEMMA MarkUsedStep ==
  ASSUME IInv, NEW r \in Requests, MarkUsed(r)
  PROVE  IInv'
<1> DEFINE h == [req[r] EXCEPT !.pc = "findUser"]
<1>0. PICK t \in Ids : t = req[r].token
  BY DEF MarkUsed, IInv, TypeOK, KnowsItsToken
<1>a. PICK u \in Users : u = req[r].user
  BY DEF IInv, TypeOK, Handler
<1>1. t \in Ids /\ t \in issued /\ owner[t] = req[r].user /\ req[r].pc = "markUsed"
  BY <1>0 DEF MarkUsed, IInv, TypeOK, KnowsItsToken
<1>2. UNCHANGED <<clock, user, issued, revoked, owner, expires, password>>
  BY DEF MarkUsed
<1>3. CASE owner[t] \in user
  <2>1. /\ h \in Handler /\ h.pc = "findUser" /\ h.token = t /\ h.user = u
        /\ req' = [req EXCEPT ![r] = h]
        /\ used' = used \cup {t} /\ grants' = [grants EXCEPT ![t] = @ + 1]
        /\ raced' \subseteq raced \cup {t}
    BY <1>0, <1>a, <1>3, HandlerEdits DEF MarkUsed, Goto, Become, Handler
  <2> HIDE DEF h
  <2>2. TypeOK'
    <3>1. /\ used' \subseteq issued' /\ raced' \subseteq used' \cup revoked' /\ grants' \in [Ids -> Nat]
          /\ req' \in [Requests -> Handler]
      BY <1>1, <1>2, <2>1 DEF IInv, TypeOK
    <3>2. \A v \in Users : UsedBy(v) \subseteq UsedBy(v)'
      BY <1>2, <2>1 DEF UsedBy
    <3>3. t \in UsedBy(u)'
      BY <1>1, <1>a, <1>2, <2>1 DEF UsedBy
    <3>4. \A q \in Requests : req'[q].pc \in {"findUser", "setPassword"} =>
            (req[q].token \in UsedBy(req[q].user))'
      <4> SUFFICES ASSUME NEW q \in Requests, req'[q].pc \in {"findUser", "setPassword"}
                   PROVE  (req[q].token \in UsedBy(req[q].user))'
        OBVIOUS
      <4>1. CASE q = r
        BY <2>1, <3>3, <4>1 DEF IInv, TypeOK
      <4>2. CASE q # r
        BY <2>1, <3>2, <4>2 DEF IInv, TypeOK, Handler
      <4> QED
        BY <4>1, <4>2
    <3>5. \A v \in Users : password'[v] \in UsedBy(v)' \cup {Nobody}
      BY <1>2, <3>2 DEF IInv, TypeOK
    <3> QED
      BY <1>2, <3>1, <3>4, <3>5 DEF IInv, TypeOK
  <2>3. KnowsItsToken' /\ GrantedIsUsed'
    BY <1>1, <1>2, <2>1 DEF IInv, TypeOK, KnowsItsToken, GrantedIsUsed
  <2>4. GrantsBoundedByOverlap'
    <3> SUFFICES ASSUME NEW s \in Ids
                 PROVE  grants'[s] + Cardinality(Reading(s)') <= Cardinality(Requests)
      BY DEF GrantsBoundedByOverlap
    <3>1. grants[s] \in Nat /\ grants[s] + Cardinality(Reading(s)) <= Cardinality(Requests)
      BY DEF IInv, TypeOK, GrantsBoundedByOverlap
    <3>2. CASE s = t
      <4>1. Reading(s)' = Reading(s) \ {r} /\ r \in Reading(s)
        BY <1>0, <1>1, <2>1, <3>2 DEF Reading, IInv, TypeOK
      <4>2. Cardinality(Reading(s)') = Cardinality(Reading(s)) - 1
        BY <4>1, ReadingFinite, FS_RemoveElement
      <4>3. grants'[s] = grants[s] + 1
        BY <2>1, <3>2 DEF IInv, TypeOK
      <4> QED
        BY <3>1, <4>2, <4>3, ReadingFinite
    <3>3. CASE s # t
      <4>1. Reading(s)' = Reading(s)
        BY <1>0, <1>1, <2>1, <3>3 DEF Reading, IInv, TypeOK
      <4>2. grants'[s] = grants[s]
        BY <2>1, <3>3 DEF IInv, TypeOK
      <4> QED
        BY <3>1, <4>1, <4>2
    <3> QED
      BY <3>2, <3>3
  <2> QED
    BY <2>2, <2>3, <2>4 DEF IInv
<1>4. CASE owner[t] \notin user
  <2>1. Become(r, Idle) /\ UNCHANGED <<clock, user, table, password, history>>
    BY <1>0, <1>2, <1>4 DEF MarkUsed, End, table
  <2> QED
    BY <2>1, IdleType, MovedStep
<1> QED
  BY <1>3, <1>4

LEMMA FindUserStep ==
  ASSUME IInv, NEW r \in Requests, FindUser(r)
  PROVE  IInv'
<1> DEFINE h == [req[r] EXCEPT !.pc = "setPassword"]
<1>1. /\ h \in Handler /\ h.pc = "setPassword"
      /\ h.token = req[r].token /\ h.user = req[r].user
  BY HandlerEdits
<1>2. UNCHANGED <<clock, user, table, password, history>>
      /\ h.token \in UsedBy(h.user)
  BY <1>1 DEF FindUser, IInv, TypeOK
<1>3. Become(r, h) \/ Become(r, Idle)
  BY DEF FindUser, Goto, End
<1> HIDE DEF h
<1> QED
  BY <1>1, <1>2, <1>3, MovedStep, IdleType

(* The password is named by a token that was used, and by its user. *)
LEMMA SetPasswordStep ==
  ASSUME IInv, NEW r \in Requests, SetPassword(r)
  PROVE  IInv'
<1>1. /\ UNCHANGED <<clock, user, table, history>> /\ Become(r, Idle)
      /\ req[r] \in Handler /\ req[r].token \in UsedBy(req[r].user)
  BY DEF SetPassword, End, IInv, TypeOK
<1>2. /\ password' \in [Users -> Ids \cup {Nobody}]
      /\ \A u \in Users : password'[u] \in UsedBy(u) \cup {Nobody}
  BY <1>1 DEF SetPassword, IInv, TypeOK, Handler
<1>3. TypeOK'
  BY <1>1, <1>2, IdleType DEF IInv, TypeOK, Become, UsedBy, table
<1>4. KnowsItsToken' /\ GrantedIsUsed'
  BY <1>1, IdleType DEF IInv, TypeOK, KnowsItsToken, GrantedIsUsed, Become, table
<1> QED
  BY <1>1, <1>3, <1>4, IdleType, BoundKept DEF IInv

LEMMA StepIInv == IInv /\ [Next]_vars => IInv'
<1> SUFFICES ASSUME IInv, [Next]_vars PROVE IInv'
  OBVIOUS
<1>1. ASSUME NEW r \in Requests, Handle(r) PROVE IInv'
  BY <1>1, RevokeStep, CreateStep, MarkUsedStep, FindUserStep, SetPasswordStep DEF Handle
<1>2. ASSUME NEW r \in Requests, Crash(r) PROVE IInv'
  BY <1>2, IdleType, MovedStep DEF Crash, End
<1>3. ASSUME NEW u \in Users, DeleteAccount(u) PROVE IInv'
  BY <1>3 DEF DeleteAccount, IInv, TypeOK, UsedBy, KnowsItsToken, GrantedIsUsed,
              GrantsBoundedByOverlap, Reading, table
<1>4. CASE Tick
  <2>1. clock' \in 0 .. MaxClock
    BY <1>4, ResetAssumption DEF Tick, IInv, TypeOK
  <2> QED
    BY <1>4, <2>1 DEF Tick, IInv, TypeOK, UsedBy, KnowsItsToken, GrantedIsUsed,
                      GrantsBoundedByOverlap, Reading, table
<1>5. CASE UNCHANGED vars
  BY <1>5 DEF vars, IInv, TypeOK, UsedBy, KnowsItsToken, GrantedIsUsed,
              GrantsBoundedByOverlap, Reading, table
<1> QED
  BY <1>1, <1>2, <1>3, <1>4, <1>5, StartVerifyStep, ReadStep DEF Next

(* Only a request that read the token unspent can accept it; nothing makes *)
(* a spent or expired token unspent.                                       *)
LEMMA StepSpent ==
  ASSUME IInv, Next, NEW t \in issued, ~(Unspent(t) /\ clock <= expires[t]), Reading(t) = {}
  PROVE  grants'[t] = grants[t] /\ Reading(t)' = {}
<1> USE DEF IInv, TypeOK
<1>1. t \in Ids /\ \A r \in Requests : ~(req[r].pc = "markUsed" /\ req[r].token = t)
  BY DEF Reading
<1>2. ASSUME NEW r \in Requests, NEW h \in Handler, Become(r, h), UNCHANGED grants,
             ~(h.pc = "markUsed" /\ h.token = t)
      PROVE  grants'[t] = grants[t] /\ Reading(t)' = {}
  BY <1>1, <1>2 DEF Become, Reading
<1>3. ASSUME NEW r \in Requests, End(r), UNCHANGED grants
      PROVE  grants'[t] = grants[t] /\ Reading(t)' = {}
  BY <1>2, <1>3, IdleType DEF End
<1>4. ASSUME NEW r \in Requests, Handle(r)
      PROVE  grants'[t] = grants[t] /\ Reading(t)' = {}
  <2>1. ASSUME NEW s \in {"create", "findUser", "setPassword"}, Goto(r, s), UNCHANGED grants
        PROVE  grants'[t] = grants[t] /\ Reading(t)' = {}
    <3> DEFINE h == [req[r] EXCEPT !.pc = s]
    <3>1. h \in Handler /\ h.pc = s /\ Become(r, h)
      BY <2>1, HandlerEdits DEF Goto
    <3> HIDE DEF h
    <3> QED
      BY <1>2, <2>1, <3>1
  <2>2. CASE Revoke(r)
    BY <2>1, <2>2 DEF Revoke
  <2>3. CASE Create(r) \/ SetPassword(r)
    BY <1>3, <2>3 DEF Create, SetPassword
  <2>4. CASE FindUser(r)
    BY <1>3, <2>1, <2>4 DEF FindUser
  <2>5. CASE MarkUsed(r)
    <3>1. CASE owner[req[r].token] \notin user
      BY <1>3, <2>5, <3>1 DEF MarkUsed
    <3>2. CASE owner[req[r].token] \in user
      <4>1. req[r].token # t /\ grants' = [grants EXCEPT ![req[r].token] = @ + 1]
        BY <1>1, <2>5, <3>2 DEF MarkUsed
      <4>2. Reading(t)' = {}
        BY <1>1, <2>5, <3>2 DEF MarkUsed, Goto, Become, Reading, Handler
      <4> QED
        BY <1>1, <4>1, <4>2
    <3> QED
      BY <3>1, <3>2
  <2> QED
    BY <1>4, <2>2, <2>3, <2>4, <2>5 DEF Handle
<1>5. ASSUME NEW r \in Requests, NEW u \in Users, StartVerify(r, u)
      PROVE  grants'[t] = grants[t] /\ Reading(t)' = {}
  BY <1>1, <1>5 DEF StartVerify, Become, Reading, Idle
<1>6. ASSUME NEW r \in Requests, NEW s \in Ids, Read(r, s)
      PROVE  grants'[t] = grants[t] /\ Reading(t)' = {}
  <2>1. s # t
    BY <1>6 DEF Read
  <2> QED
    BY <1>1, <1>6, <2>1 DEF Read, Become, Reading, Idle
<1>7. CASE Tick \/ \E u \in Users : DeleteAccount(u)
  BY <1>7 DEF Tick, DeleteAccount, Reading
<1> QED
  BY <1>3, <1>4, <1>5, <1>6, <1>7 DEF Next, Crash

-----------------------------------------------------------------------------
(* Of the unspent tokens of a user, no two were stored by handlers in the  *)
(* same slot, and a handler about to store one has revoked its own.        *)
StoredBy(by) ==
  /\ \A i, j \in issued : Unspent(i) /\ Unspent(j) /\ owner[i] = owner[j] /\ by[i] = by[j]
                           => i = j
  /\ \A r \in Requests : req[r].pc = "create" =>
       \A i \in issued : Unspent(i) /\ owner[i] = req[r].user => by[i] # r

Attributed == \E by \in [issued -> Requests] : StoredBy(by)

LEMMA InitAttributed == Init => Attributed
<1> SUFFICES ASSUME Init PROVE Attributed
  OBVIOUS
<1> DEFINE by == [i \in issued |-> CHOOSE r \in Requests : TRUE]
<1>1. by \in [issued -> Requests] /\ StoredBy(by)
  BY IdleType DEF Init, StoredBy
<1> QED
  BY <1>1 DEF Attributed

(* No row is added, none comes to life, and no handler comes to "create":  *)
(* the attribution stands. *)
LEMMA AttributionStands ==
  ASSUME Attributed, issued' = issued, owner' = owner,
         \A i \in issued : Unspent(i)' => Unspent(i),
         \A q \in Requests : req'[q].pc = "create" =>
           \/ req[q].pc = "create" /\ req'[q].user = req[q].user
           \/ \A i \in issued : Unspent(i)' => owner[i] # req'[q].user
  PROVE  Attributed'
<1>1. PICK by \in [issued -> Requests] : StoredBy(by)
  BY DEF Attributed
<1>2. StoredBy(by)'
  BY <1>1 DEF StoredBy
<1> QED
  BY <1>1, <1>2 DEF Attributed

(* The same of a handler that moves. *)
LEMMA MovedAttribution ==
  ASSUME IInv, Attributed, NEW r \in Requests, NEW h, Become(r, h), h.pc # "create",
         issued' = issued, owner' = owner, user' \subseteq user,
         used \subseteq used', revoked \subseteq revoked'
  PROVE  Attributed'
<1>1. \A i \in issued : Unspent(i)' => Unspent(i)
  BY DEF Unspent
<1>2. \A q \in Requests : req'[q].pc = "create" =>
        req[q].pc = "create" /\ req'[q].user = req[q].user
  BY DEF Become, IInv, TypeOK
<1> QED
  BY <1>1, <1>2, AttributionStands

LEMMA RevokeAttributes ==
  ASSUME IInv, Attributed, NEW r \in Requests, Revoke(r)
  PROVE  Attributed'
<1>1. /\ issued' = issued /\ owner' = owner /\ used' = used /\ user' = user
      /\ revoked' = revoked \cup UnspentOf(req[r].user)
      /\ req' = [req EXCEPT ![r] = [req[r] EXCEPT !.pc = "create"]]
      /\ req[r] \in Handler /\ issued \subseteq Ids
  BY DEF Revoke, Goto, Become, IInv, TypeOK
<1>2. \A i \in issued : Unspent(i)' => Unspent(i)
  BY <1>1 DEF Unspent
<1>3. \A i \in issued : Unspent(i)' => owner[i] # req[r].user
  BY <1>1 DEF Unspent, UnspentOf
<1>4. \A q \in Requests : req'[q].user = req[q].user /\ (q # r => req'[q] = req[q])
  BY <1>1 DEF IInv, TypeOK, Handler
<1> QED
  BY <1>1, <1>2, <1>3, <1>4, AttributionStands

LEMMA CreateAttributes ==
  ASSUME IInv, Attributed, NEW r \in Requests, Create(r)
  PROVE  Attributed'
<1>1. /\ Become(r, Idle) /\ Idle.pc # "create" /\ req[r].pc = "create"
      /\ UNCHANGED <<user, used, revoked>>
  BY IdleType DEF Create, End
<1>2. CASE req[r].user \notin user
  BY <1>1, <1>2, MovedAttribution DEF Create
<1>3. CASE req[r].user \in user
  <2>1. PICK t \in Ids \ issued : /\ issued' = issued \cup {t}
                                  /\ owner' = [owner EXCEPT ![t] = req[r].user]
    BY <1>3 DEF Create
  <2>2. PICK by \in [issued -> Requests] : StoredBy(by)
    BY DEF Attributed
  <2>3. PICK to \in [issued' -> Requests] :
          to[t] = r /\ \A i \in issued : to[i] = by[i] /\ i # t
    <3>1. [i \in issued' |-> IF i = t THEN r ELSE by[i]] \in [issued' -> Requests]
      BY <2>1
    <3> QED
      BY <2>1, <3>1
  <2>4. /\ owner'[t] = req[r].user
        /\ \A i \in issued : owner'[i] = owner[i] /\ (Unspent(i)' <=> Unspent(i))
    BY <1>1, <2>1 DEF Unspent, IInv, TypeOK
  <2>5. \A q \in Requests : req'[q].pc = "create" => q # r /\ req'[q] = req[q]
    BY <1>1 DEF Become, IInv, TypeOK
  <2>6. \A i \in issued : Unspent(i) /\ owner[i] = req[r].user => by[i] # r
    BY <1>1, <2>2 DEF StoredBy
  <2>7. ASSUME NEW i \in issued', NEW j \in issued', Unspent(i)', Unspent(j)',
               owner'[i] = owner'[j], to[i] = to[j]
        PROVE  i = j
    <3>1. CASE i \in issued /\ j \in issued
      BY <2>2, <2>3, <2>4, <2>7, <3>1 DEF StoredBy
    <3>2. CASE i = t \/ j = t
      BY <2>1, <2>3, <2>4, <2>6, <2>7, <3>2
    <3> QED
      BY <2>1, <3>1, <3>2
  <2>8. ASSUME NEW q \in Requests, req'[q].pc = "create",
               NEW i \in issued', Unspent(i)', owner'[i] = req'[q].user
        PROVE  to[i] # q
    <3>1. CASE i = t
      BY <2>3, <2>5, <2>8, <3>1
    <3>2. CASE i \in issued
      BY <2>2, <2>3, <2>4, <2>5, <2>8, <3>2 DEF StoredBy
    <3> QED
      BY <2>1, <3>1, <3>2
  <2>9. StoredBy(to)'
    BY <2>7, <2>8 DEF StoredBy
  <2> QED
    BY <2>3, <2>9 DEF Attributed
<1> QED
  BY <1>2, <1>3

LEMMA StepAttributed == IInv /\ Attributed /\ [Next]_vars => Attributed'
<1> SUFFICES ASSUME IInv, Attributed, [Next]_vars PROVE Attributed'
  OBVIOUS
<1> USE DEF table
<1>1. ASSUME NEW r \in Requests, NEW u \in Users, StartVerify(r, u) PROVE Attributed'
  BY <1>1, MovedAttribution DEF StartVerify, Idle
<1>2. ASSUME NEW r \in Requests, NEW t \in Ids, Read(r, t) PROVE Attributed'
  BY <1>2, MovedAttribution DEF Read, Idle
<1>3. ASSUME NEW r \in Requests, MarkUsed(r) \/ FindUser(r) \/ SetPassword(r) \/ Crash(r)
      PROVE  Attributed'
  <2>1. /\ issued' = issued /\ owner' = owner /\ user' = user /\ revoked' = revoked
        /\ used \subseteq used'
    BY <1>3 DEF MarkUsed, FindUser, SetPassword, Crash
  <2>2. \/ Become(r, Idle)
        \/ \E s \in {"findUser", "setPassword"} : Become(r, [req[r] EXCEPT !.pc = s])
    BY <1>3 DEF MarkUsed, FindUser, SetPassword, Crash, End, Goto
  <2>3. ASSUME NEW s \in {"findUser", "setPassword"} PROVE [req[r] EXCEPT !.pc = s].pc = s
    BY DEF IInv, TypeOK, Handler
  <2> QED
    BY <2>1, <2>2, <2>3, IdleType, MovedAttribution
<1>4. CASE Tick \/ (\E u \in Users : DeleteAccount(u)) \/ UNCHANGED vars
  <2>1. /\ issued' = issued /\ owner' = owner /\ req' = req /\ user' \subseteq user
        /\ revoked' = revoked /\ used' = used
    BY <1>4 DEF Tick, DeleteAccount, vars
  <2>2. \A i \in issued : Unspent(i)' => Unspent(i)
    BY <2>1 DEF Unspent
  <2> QED
    BY <2>1, <2>2, AttributionStands
<1> QED
  BY <1>1, <1>2, <1>3, <1>4, RevokeAttributes, CreateAttributes DEF Next, Handle

(* The attribution is one to one on the unspent tokens of a user. *)
LEMMA AttributedBounds == IInv /\ Attributed => LiveTokensBounded
<1> SUFFICES ASSUME IInv, Attributed, NEW u \in Users
             PROVE  Cardinality(UnspentOf(u)) <= Cardinality(Requests)
  BY DEF LiveTokensBounded
<1>1. PICK by \in [issued -> Requests] : StoredBy(by)
  BY DEF Attributed
<1> DEFINE S == UnspentOf(u)
           f == [i \in S |-> by[i]]
<1>2. \A i \in S : i \in issued /\ Unspent(i) /\ owner[i] = u
  BY DEF UnspentOf, Unspent
<1>3. f \in [S -> Requests]
  BY <1>1, <1>2
<1>4. \A i, j \in S : f[i] = f[j] => i = j
  BY <1>1, <1>2 DEF StoredBy
<1> HIDE DEF S, f
<1>5. f \in Injection(S, Requests)
  BY <1>3, <1>4, Fun_IsInj
<1>6. Cardinality(S) <= Cardinality(Requests)
  BY <1>5, ResetAssumption, FS_Injection
<1> QED
  BY <1>6 DEF S

(* The tables are typed, and a password that was reset was reset with a    *)
(* used token of its own user, whatever overlaps, dies or is deleted.      *)
THEOREM TypeCorrect == Spec => []TypeOK
<1>1. IInv => TypeOK
  BY DEF IInv
<1> QED
  BY InitIInv, StepIInv, <1>1, PTL DEF Spec

(* consumePasswordResetToken updates by id alone: a token is accepted once *)
(* per overlapping request at most, and no more however long it lives.     *)
THEOREM AcceptancesBounded == Spec => []GrantsBoundedByOverlap
<1>1. IInv => GrantsBoundedByOverlap
  BY DEF IInv
<1> QED
  BY InitIInv, StepIInv, <1>1, PTL DEF Spec

(* "Revoke any existing unused tokens for this user first": however many   *)
(* verifications run, die or overlap, a user has at most as many valid     *)
(* tokens as requests can overlap.                                         *)
THEOREM ValidTokensBounded == Spec => []LiveTokensBounded
<1>1. IInv /\ Attributed /\ [Next]_vars => IInv' /\ Attributed'
  BY StepIInv, StepAttributed
<1>2. Init => IInv /\ Attributed
  BY InitIInv, InitAttributed
<1> QED
  BY <1>1, <1>2, AttributedBounds, PTL DEF Spec

(* A used, replaced or expired token that no request has read before is    *)
(* never accepted again.                                                   *)
THEOREM SpentStaysSpent == Spec => SpentForGood
<1>1. IInv /\ [Next]_vars =>
        [\A t \in issued : ~(Unspent(t) /\ clock <= expires[t]) /\ Reading(t) = {}
           => grants'[t] = grants[t] /\ Reading(t)' = {}]_vars
  BY StepSpent
<1> QED
  BY InitIInv, StepIInv, <1>1, PTL DEF Spec, SpentForGood
-----------------------------------------------------------------------------
(* The token a handler is about to mark is still unspent, or the one who   *)
(* spent or replaced it saw that it was in hand.  (deleteAccount may have  *)
(* taken the row.)                                                         *)
Held(t) == t \in issued /\ (t \in raced \/ t \notin used \cup revoked)
InHand == \A t \in Ids : Reading(t) # {} => Held(t)

LEMMA InitInHand == Init => InHand
BY IdleType DEF Init, InHand, Reading

(* The handler moves, and what the others hold stays in their hands. *)
LEMMA MovedInHand ==
  ASSUME IInv, InHand, NEW r \in Requests, NEW h \in Handler, Become(r, h),
         h.pc # "markUsed" \/ Held(h.token)',
         \A t \in issued : Held(t) /\ (\E q \in Requests \ {r} : q \in Reading(t)) => Held(t)'
  PROVE  InHand'
<1> SUFFICES ASSUME NEW t \in Ids, NEW q \in Requests,
                    req'[q].pc = "markUsed", req'[q].token = t
             PROVE  Held(t)'
  BY DEF InHand, Reading
<1>1. CASE q = r
  BY <1>1 DEF Become, IInv, TypeOK
<1>2. CASE q # r
  <2>1. req'[q] = req[q]
    BY <1>2 DEF Become, IInv, TypeOK
  <2>2. q \in Reading(t)
    BY <2>1 DEF Reading
  <2>3. Held(t) /\ t \in issued
    BY <2>2 DEF InHand, Held
  <2> QED
    BY <1>2, <2>2, <2>3
<1> QED
  BY <1>1, <1>2

(* Nothing is spent or replaced. *)
LEMMA QuietInHand ==
  ASSUME IInv, InHand, NEW r \in Requests, NEW h \in Handler, Become(r, h),
         h.pc # "markUsed" \/ Held(h.token)',
         issued \subseteq issued', UNCHANGED <<used, revoked, raced>>
  PROVE  InHand'
<1>1. \A t \in issued : Held(t) => Held(t)'
  BY DEF Held
<1> QED
  BY <1>1, MovedInHand

LEMMA StepInHand == IInv /\ InHand /\ [Next]_vars => InHand'
<1> SUFFICES ASSUME IInv, InHand, [Next]_vars PROVE InHand'
  OBVIOUS
<1>1. ASSUME NEW r \in Requests, Revoke(r) PROVE InHand'
  <2>1. PICK h \in Handler : h = [req[r] EXCEPT !.pc = "create"] /\ h.pc = "create"
    BY HandlerEdits
  <2>2. /\ Become(r, h) /\ UNCHANGED <<issued, used>>
        /\ revoked' = revoked \cup UnspentOf(req[r].user)
        /\ raced' = raced \cup {t \in UnspentOf(req[r].user) : Reading(t) # {}}
    BY <1>1, <2>1 DEF Revoke, Goto
  <2>3. \A t \in issued : Held(t) /\ (\E q \in Requests \ {r} : q \in Reading(t)) => Held(t)'
    BY <2>2 DEF Held
  <2> QED
    BY <2>1, <2>2, <2>3, MovedInHand
<1>2. ASSUME NEW r \in Requests, MarkUsed(r) PROVE InHand'
  <2>1. CASE End(r) /\ UNCHANGED <<issued, used, revoked, raced>>
    BY <2>1, IdleType, QuietInHand DEF End
  <2>2. CASE owner[req[r].token] \in user
    <3>1. PICK h \in Handler : h = [req[r] EXCEPT !.pc = "findUser"] /\ h.pc = "findUser"
      BY HandlerEdits
    <3>2. PICK t : t = req[r].token
      OBVIOUS
    <3>3. /\ Become(r, h) /\ UNCHANGED <<issued, revoked>>
          /\ used' = used \cup {t}
          /\ raced' = IF Reading(t) = {r} THEN raced ELSE raced \cup {t}
      BY <1>2, <2>2, <3>1, <3>2 DEF MarkUsed, Goto
    <3>4. \A x \in issued : Held(x) /\ (\E q \in Requests \ {r} : q \in Reading(x)) => Held(x)'
      BY <3>3 DEF Held
    <3> QED
      BY <3>1, <3>3, <3>4, MovedInHand
  <2> QED
    BY <1>2, <2>1, <2>2 DEF MarkUsed
<1>3. ASSUME NEW r \in Requests, Create(r) \/ FindUser(r) \/ SetPassword(r) \/ Crash(r)
      PROVE  InHand'
  <2>1. issued \subseteq issued' /\ UNCHANGED <<used, revoked, raced>>
    BY <1>3 DEF Create, FindUser, SetPassword, Crash, table
  <2>2. PICK h \in Handler : h = [req[r] EXCEPT !.pc = "setPassword"] /\ h.pc = "setPassword"
    BY HandlerEdits
  <2>3. Become(r, Idle) \/ Become(r, h)
    BY <1>3, <2>2 DEF Create, FindUser, SetPassword, Crash, End, Goto
  <2> QED
    BY <2>1, <2>2, <2>3, IdleType, QuietInHand
<1>4. ASSUME NEW r \in Requests, NEW u \in Users, StartVerify(r, u) PROVE InHand'
  <2>1. clock + TTL \in 0 .. MaxClock + TTL
    BY ResetAssumption DEF IInv, TypeOK
  <2>2. PICK h \in Handler :
          h = [Idle EXCEPT !.pc = "revoke", !.user = u, !.expires = clock + TTL]
    BY <2>1, HandlerEdits
  <2>3. h.pc = "revoke" /\ Become(r, h) /\ UNCHANGED <<issued, used, revoked, raced>>
    BY <1>4, <2>2 DEF StartVerify, Idle, table
  <2> QED
    BY <2>3, QuietInHand
<1>5. ASSUME NEW r \in Requests, NEW t \in Ids, Read(r, t) PROVE InHand'
  <2>1. PICK h \in Handler :
          h = [Idle EXCEPT !.pc = "markUsed", !.user = owner[t], !.token = t]
    BY HandlerEdits DEF IInv, TypeOK
  <2>2. /\ h.token = t /\ Become(r, h) /\ UNCHANGED <<issued, used, revoked, raced>>
        /\ t \in issued \ (used \cup revoked)
    BY <1>5, <2>1 DEF Read, Unspent, Idle, table
  <2>3. Held(h.token)'
    BY <2>2 DEF Held
  <2> QED
    BY <2>2, <2>3, QuietInHand
<1>6. CASE Tick \/ (\E u \in Users : DeleteAccount(u)) \/ UNCHANGED vars
  BY <1>6 DEF Tick, DeleteAccount, vars, table, InHand, Held, Reading
<1> QED
  BY <1>1, <1>2, <1>3, <1>4, <1>5, <1>6 DEF Next, Handle

LEMMA HeldByItsReader ==
  ASSUME IInv, InHand, NEW r \in Requests, req[r].pc = "markUsed"
  PROVE  req[r].token \in Ids /\ Held(req[r].token)
<1>1. PICK t : t = req[r].token
  OBVIOUS
<1>2. t \in Ids /\ r \in Reading(t)
  BY <1>1 DEF IInv, TypeOK, KnowsItsToken, Reading
<1>3. Held(t)
  BY <1>2 DEF InHand
<1> QED
  BY <1>1, <1>2, <1>3

(* "a one-time token": it is accepted once, and not after a newer one      *)
(* replaced it.  The exception are tokens that were spent or replaced      *)
(* while another reset was between its read and its update.                *)
AcceptedOnce ==
  \A t \in Ids \ raced : grants[t] <= 1 /\ (t \in revoked => grants[t] = 0)

(* An acceptance of a token nobody races for finds it unspent; a token     *)
(* that is revoked was not used.                                           *)
LEMMA StepAcceptedOnce ==
  IInv /\ InHand /\ AcceptedOnce /\ [Next]_vars => AcceptedOnce'
<1> SUFFICES ASSUME IInv, InHand, AcceptedOnce, [Next]_vars PROVE AcceptedOnce'
  OBVIOUS
<1>1. ASSUME NEW r \in Requests, Revoke(r) PROVE AcceptedOnce'
  <2>1. \A t \in UnspentOf(req[r].user) : t \in Ids /\ t \notin used
    BY DEF UnspentOf, Unspent
  <2>2. \A t \in UnspentOf(req[r].user) : grants[t] = 0
    BY <2>1 DEF IInv, TypeOK, GrantedIsUsed
  <2>3. grants' = grants /\ raced \subseteq raced'
        /\ revoked' = revoked \cup UnspentOf(req[r].user)
    BY <1>1 DEF Revoke
  <2> QED
    BY <2>2, <2>3 DEF AcceptedOnce
<1>2. ASSUME NEW r \in Requests, MarkUsed(r) PROVE AcceptedOnce'
  <2>1. PICK t : t = req[r].token
    OBVIOUS
  <2>2. t \in Ids /\ Held(t) /\ revoked' = revoked
    BY <1>2, <2>1, HeldByItsReader DEF MarkUsed
  <2>3. CASE owner[t] \notin user
    BY <1>2, <2>1, <2>2, <2>3 DEF MarkUsed, AcceptedOnce
  <2>4. CASE owner[t] \in user
    <3>1. raced \subseteq raced' /\ grants' = [grants EXCEPT ![t] = @ + 1]
      BY <1>2, <2>1, <2>4 DEF MarkUsed
    <3>2. t \notin raced => t \notin revoked /\ grants[t] = 0
      BY <2>2 DEF Held, IInv, TypeOK, GrantedIsUsed
    <3>3. ASSUME NEW x \in Ids \ raced'
          PROVE  grants'[x] <= 1 /\ (x \in revoked' => grants'[x] = 0)
      <4>1. CASE x = t
        BY <2>2, <3>1, <3>2, <4>1 DEF IInv, TypeOK
      <4>2. CASE x # t
        BY <2>2, <3>1, <4>2 DEF IInv, TypeOK, AcceptedOnce
      <4> QED
        BY <4>1, <4>2
    <3> QED
      BY <3>3 DEF AcceptedOnce
  <2> QED
    BY <2>3, <2>4
<1>3. CASE \/ \E r \in Requests : Create(r) \/ FindUser(r) \/ SetPassword(r) \/ Crash(r)
           \/ \E r \in Requests, u \in Users : StartVerify(r, u)
           \/ \E r \in Requests, t \in Ids : Read(r, t)
           \/ \E u \in Users : DeleteAccount(u)
           \/ Tick \/ UNCHANGED vars
  <2>1. UNCHANGED <<revoked, grants, raced>>
    BY <1>3 DEF Create, FindUser, SetPassword, Crash, StartVerify, Read, DeleteAccount,
                Tick, vars, table
  <2> QED
    BY <2>1 DEF AcceptedOnce
<1> QED
  BY <1>1, <1>2, <1>3 DEF Next, Handle

-----------------------------------------------------------------------------
(* Every step is one of OneTimeToken, or none. *)
LEMMA Views ==
  /\ View = [t \in Ids |-> View[t]] /\ View' = [t \in Ids |-> View'[t]]
  /\ \A t \in Ids : View[t] = Standing(t) /\ View'[t] = Standing(t)'
BY DEF View

LEMMA Counts ==
  /\ Counted = [t \in Ids |-> Counted[t]] /\ Counted' = [t \in Ids |-> Counted'[t]]
  /\ \A t \in Ids : /\ Counted[t] = IF t \in raced THEN 0 ELSE grants[t]
                    /\ Counted'[t] = IF t \in raced' THEN 0 ELSE grants'[t]
BY DEF Counted

(* A token that becomes raced was never accepted. *)
LEMMA CountedStays ==
  ASSUME IInv, grants' = grants, raced \subseteq raced',
         \A t \in Ids : t \in raced' \ raced => t \notin used
  PROVE  Counted' = Counted
<1>1. \A t \in Ids : t \notin used => grants[t] = 0
  BY DEF IInv, TypeOK, GrantedIsUsed
<1>2. \A t \in Ids : Counted'[t] = Counted[t]
  BY <1>1, Counts
<1> QED
  BY <1>2, Counts

LEMMA InitMaps == Init => Abstract!Init
<1> SUFFICES ASSUME Init PROVE Abstract!Init
  OBVIOUS
<1>1. \A t \in Ids : View[t] = "absent"
  BY Views DEF Init, Standing
<1>2. View = [t \in Ids |-> "absent"]
  BY <1>1, Views
<1>3. Counted = [t \in Ids |-> 0]
  BY DEF Init, Counted
<1> QED
  BY <1>2, <1>3 DEF Abstract!Init

LEMMA NothingShows ==
  ASSUME UNCHANGED <<user, issued, used, revoked, owner, history>>
  PROVE  UNCHANGED Abstract!vars
<1>1. \A t \in Ids : View'[t] = View[t]
  BY Views DEF Standing
<1>2. View' = View
  BY <1>1, Views
<1>3. Counted' = Counted
  BY DEF Counted
<1> QED
  BY <1>2, <1>3 DEF Abstract!vars

LEMMA RevokeMaps ==
  ASSUME IInv, NEW r \in Requests, Revoke(r)
  PROVE  Abstract!Next
<1>1. PICK S : S = UnspentOf(req[r].user)
  OBVIOUS
<1>2. /\ UNCHANGED <<user, issued, used, owner, grants>>
      /\ revoked' = revoked \cup S
      /\ raced \subseteq raced' /\ raced' \subseteq raced \cup S
  BY <1>1 DEF Revoke
<1>3. S \subseteq Ids /\ \A t \in S : t \in issued \ (used \cup revoked) /\ owner[t] \in user
  BY <1>1 DEF UnspentOf, Unspent
<1>4. raced \cap S = {}
  BY <1>3 DEF IInv, TypeOK
<1>5. S \subseteq Abstract!Live
  BY <1>3, <1>4, Views DEF Abstract!Live, Standing
<1>6. \A t \in Ids : View'[t] = IF t \in S THEN "void" ELSE View[t]
  BY <1>2, <1>3, Views DEF Standing
<1>7. View' = [t \in Ids |-> IF t \in S THEN "void" ELSE View[t]]
  BY <1>6, Views
<1>8. Counted' = Counted
  BY <1>2, <1>3, CountedStays
<1>9. Abstract!Void(S)
  BY <1>5, <1>7, <1>8 DEF Abstract!Void
<1> QED
  BY <1>3, <1>9 DEF Abstract!Next

LEMMA CreateMaps ==
  ASSUME IInv, NEW r \in Requests, Create(r)
  PROVE  Abstract!Next \/ UNCHANGED Abstract!vars
<1>1. UNCHANGED <<user, used, revoked, history>>
  BY DEF Create
<1>2. CASE req[r].user \notin user
  BY <1>1, <1>2, NothingShows DEF Create
<1>3. CASE req[r].user \in user
  <2>1. PICK t \in Ids \ issued : /\ issued' = issued \cup {t}
                                  /\ owner' = [owner EXCEPT ![t] = req[r].user]
    BY <1>3 DEF Create
  <2>2. owner'[t] = req[r].user /\ \A x \in Ids \ {t} : owner'[x] = owner[x]
    BY <2>1 DEF IInv, TypeOK
  <2>3. t \notin used /\ t \notin revoked /\ t \notin raced
    BY <2>1 DEF IInv, TypeOK
  <2>4. View[t] = "absent" /\ View'[t] = "live"
    BY <1>1, <1>3, <2>1, <2>2, <2>3, Views DEF Standing
  <2>5. \A x \in Ids \ {t} : View'[x] = View[x]
    BY <1>1, <2>1, <2>2, Views DEF Standing
  <2>6. View' = [x \in Ids |-> IF x = t THEN "live" ELSE IF x \in {} THEN "void" ELSE View[x]]
    BY <2>4, <2>5, Views
  <2>7. Counted' = Counted
    BY <1>1 DEF Counted
  <2>8. Abstract!Issue(t, {})
    BY <2>4, <2>6, <2>7 DEF Abstract!Issue
  <2> QED
    BY <2>8 DEF Abstract!Next
<1> QED
  BY <1>2, <1>3

(* An acceptance redeems the token if nobody else has it in hand; if       *)
(* somebody has, it is raced for from now on; of a token that was raced    *)
(* for before nothing shows.                                               *)
LEMMA MarkUsedMaps ==
  ASSUME IInv, InHand, NEW r \in Requests, MarkUsed(r)
  PROVE  Abstract!Next \/ UNCHANGED Abstract!vars
<1>1. PICK t : t = req[r].token
  OBVIOUS
<1>2. t \in Ids /\ Held(t) /\ UNCHANGED <<user, issued, revoked, owner>>
  BY <1>1, HeldByItsReader DEF MarkUsed
<1>3. CASE owner[t] \notin user
  BY <1>1, <1>2, <1>3, NothingShows DEF MarkUsed
<1>4. CASE owner[t] \in user
  <2>1. /\ used' = used \cup {t} /\ grants' = [grants EXCEPT ![t] = @ + 1]
        /\ raced' = IF Reading(t) = {r} THEN raced ELSE raced \cup {t}
    BY <1>1, <1>4 DEF MarkUsed
  <2>2. \A x \in Ids \ {t} : View'[x] = View[x]
    BY <1>2, <2>1, Views DEF Standing
  <2>3. \A x \in Ids \ {t} : Counted'[x] = Counted[x]
    BY <2>1, Counts DEF IInv, TypeOK
  <2>4. t \notin raced => grants[t] = 0
    BY <1>2 DEF Held, IInv, TypeOK, GrantedIsUsed
  <2>5. CASE t \in raced
    <3>1. View'[t] = View[t] /\ Counted'[t] = Counted[t]
      BY <1>2, <2>1, <2>5, Views, Counts DEF Standing
    <3>2. View' = View /\ Counted' = Counted
      BY <2>2, <2>3, <3>1, Views, Counts
    <3> QED
      BY <3>2 DEF Abstract!vars
  <2>6. CASE t \notin raced /\ Reading(t) # {r}
    <3>1. /\ View[t] = "live" /\ View'[t] = "void"
          /\ Counted'[t] = 0 /\ Counted[t] = 0
      BY <1>2, <1>4, <2>1, <2>4, <2>6, Views, Counts DEF Standing, Held
    <3>2. Counted' = Counted
      BY <2>3, <3>1, Counts
    <3>3. View' = [x \in Ids |-> IF x \in {t} THEN "void" ELSE View[x]]
      BY <2>2, <3>1, Views
    <3>4. {t} \subseteq Abstract!Live
      BY <1>2, <3>1 DEF Abstract!Live
    <3>5. Abstract!Void({t}) /\ {t} \in SUBSET Ids
      BY <1>2, <3>2, <3>3, <3>4 DEF Abstract!Void
    <3> QED
      BY <3>5 DEF Abstract!Next
  <2>7. CASE t \notin raced /\ Reading(t) = {r}
    <3>1. View[t] = "live" /\ View'[t] = "spent"
      BY <1>2, <1>4, <2>1, <2>7, Views DEF Standing, Held
    <3>2. grants'[t] = grants[t] + 1
      BY <1>2, <2>1 DEF IInv, TypeOK
    <3>3. Counted'[t] = Counted[t] + 1
      BY <1>2, <2>1, <2>7, <3>2, Counts
    <3>4. View' = [View EXCEPT ![t] = "spent"]
      BY <2>2, <3>1, Views
    <3>5. Counted' = [Counted EXCEPT ![t] = @ + 1]
      BY <2>3, <3>3, Counts
    <3> QED
      BY <1>2, <3>1, <3>4, <3>5 DEF Abstract!Redeem, Abstract!Next
  <2> QED
    BY <2>5, <2>6, <2>7
<1> QED
  BY <1>3, <1>4

LEMMA DeleteMaps ==
  ASSUME IInv, NEW u \in Users, DeleteAccount(u)
  PROVE  Abstract!Next
<1>1. PICK S : S = {t \in issued : owner[t] = u}
  OBVIOUS
<1>2. user' = user \ {u} /\ UNCHANGED <<issued, used, revoked, owner, grants, raced>>
  BY DEF DeleteAccount, table
<1>3. \A t \in Ids : View'[t] = IF t \in S THEN "erased" ELSE View[t]
  BY <1>1, <1>2, Views DEF Standing
<1>4. View' = [t \in Ids |-> IF t \in S THEN "erased" ELSE View[t]]
  BY <1>3, Views
<1>5. Counted' = Counted
  BY <1>2 DEF Counted
<1>6. Abstract!Erase(S) /\ S \in SUBSET Ids
  BY <1>1, <1>4, <1>5 DEF Abstract!Erase, IInv, TypeOK
<1> QED
  BY <1>6 DEF Abstract!Next

LEMMA StepMaps == IInv /\ InHand /\ [Next]_vars => [Abstract!Next]_(Abstract!vars)
<1> SUFFICES ASSUME IInv, InHand, [Next]_vars
             PROVE  Abstract!Next \/ UNCHANGED Abstract!vars
  OBVIOUS
<1>1. ASSUME NEW r \in Requests, Handle(r)
      PROVE  Abstract!Next \/ UNCHANGED Abstract!vars
  <2>1. CASE FindUser(r) \/ SetPassword(r)
    BY <2>1, NothingShows DEF FindUser, SetPassword, table
  <2> QED
    BY <1>1, <2>1, RevokeMaps, CreateMaps, MarkUsedMaps DEF Handle
<1>2. CASE \/ \E r \in Requests : Crash(r)
           \/ \E r \in Requests, u \in Users : StartVerify(r, u)
           \/ \E r \in Requests, t \in Ids : Read(r, t)
           \/ Tick \/ UNCHANGED vars
  BY <1>2, NothingShows DEF Crash, StartVerify, Read, Tick, vars, table
<1> QED
  BY <1>1, <1>2, DeleteMaps DEF Next

(* A reset token that nobody races for is a one-time token: accepted only  *)
(* while it is unused, unreplaced and its account exists.                  *)
THEOREM TokensAreOneTime == Spec => ImplementsOneTimeToken
<1>1. IInv /\ InHand /\ [Next]_vars => IInv' /\ InHand'
  BY StepIInv, StepInHand
<1> QED
  BY <1>1, InitMaps, StepMaps, InitIInv, InitInHand, PTL
  DEF Spec, ImplementsOneTimeToken, Abstract!Spec

(* "a one-time token": a second password, or one by a replaced token, is   *)
(* set only where two requests had the token in hand at the same time.     *)
THEOREM TokensAcceptedOnce == Spec => []AcceptedOnce
<1>1. Init => AcceptedOnce
  BY DEF Init, AcceptedOnce
<1>2. IInv /\ InHand /\ AcceptedOnce /\ [Next]_vars => IInv' /\ InHand' /\ AcceptedOnce'
  BY StepIInv, StepInHand, StepAcceptedOnce
<1> QED
  BY <1>1, <1>2, InitIInv, InitInHand, PTL DEF Spec

-----------------------------------------------------------------------------
(* One request at a time; a slot serves any number of them. *)
OneAtATime == \A q, r \in Requests : q = r
NoRace == raced = {}

(* Then nobody races, and the two theorems above are about every token.    *)
THEOREM NobodyRacesAlone == ASSUME OneAtATime PROVE Spec => []NoRace
<1>1. Init => NoRace
  BY DEF Init, NoRace
<1>2. NoRace /\ [Next]_vars => NoRace'
  <2> SUFFICES ASSUME raced = {}, [Next]_vars PROVE raced' = {}
    BY DEF NoRace
  <2>1. ASSUME NEW r \in Requests, Revoke(r) PROVE raced' = {}
    <3>1. \A t \in Ids : Reading(t) = {}
      BY <2>1 DEF Revoke, Reading, OneAtATime
    <3> QED
      BY <2>1, <3>1 DEF Revoke, UnspentOf
  <2>2. ASSUME NEW r \in Requests, MarkUsed(r) PROVE raced' = {}
    <3>1. Reading(req[r].token) = {r}
      BY <2>2 DEF MarkUsed, Reading, OneAtATime
    <3> QED
      BY <2>2, <3>1 DEF MarkUsed
  <2>3. CASE \/ \E r \in Requests : Create(r) \/ FindUser(r) \/ SetPassword(r) \/ Crash(r)
             \/ \E r \in Requests, u \in Users : StartVerify(r, u)
             \/ \E r \in Requests, t \in Ids : Read(r, t)
             \/ \E u \in Users : DeleteAccount(u)
             \/ Tick \/ UNCHANGED vars
    BY <2>3 DEF Create, FindUser, SetPassword, Crash, StartVerify, Read, DeleteAccount,
                Tick, vars, table
  <2> QED
    BY <2>1, <2>2, <2>3 DEF Next, Handle
<1> QED
  BY <1>1, <1>2, PTL DEF Spec
=============================================================================
