------------------------- MODULE RefreshTokensProofs -------------------------
(***************************************************************************)
(* Theorems about RefreshTokens, for every set of users, every finite      *)
(* number of overlapping requests and every value of the bounds.           *)
(***************************************************************************)
EXTENDS RefreshTokens, FiniteSetTheorems, TLAPS

(* What a handler in the middle of a refresh knows of the row it read,     *)
(* unless the account was deleted meanwhile: user and family are those of  *)
(* the presented token, and past markUsed that token is marked used.       *)
KnowsItsRow ==
  \A r \in Requests :
    /\ req[r].pc \in {"revokeFamily", "revokeToken", "markUsed", "lookup", "rotate"}
         => /\ req[r].user = Owner(req[r].token)
            /\ \/ account[req[r].user] = "deleted"
               \/ /\ req[r].token \in stored
                  /\ req[r].fam = family[req[r].token]
    /\ req[r].pc \in {"lookup", "rotate"}
         => account[req[r].user] = "deleted" \/ req[r].token \in used

(* Rows belong to existing accounts and were not issued in the future. *)
RowsAreLive ==
  \A t \in stored : account[Owner(t)] # "deleted" /\ IssuedAt(t) <= clock

IInv == TypeOK /\ Lineage /\ KnowsItsRow /\ RowsAreLive

LEMMA BlankType == Blank \in Handler
<1>1. SomeUser \in Users
  BY ConstantsAssumption DEF SomeUser
<1>2. <<SomeUser, 0>> \in Tokens
  BY <1>1, ConstantsAssumption DEF Tokens
<1>. QED
  BY <1>1, <1>2, ConstantsAssumption DEF Blank, Handler, Resting

(* Moving a handler and writing what it learned keeps it a handler. *)
LEMMA HandlerEdits ==
  ASSUME NEW h \in Handler, NEW pc \in Resting \cup Steps
  PROVE  /\ [h EXCEPT !.pc = pc] \in Handler
         /\ \A t \in Tokens : [h EXCEPT !.pc = pc, !.token = t] \in Handler
         /\ \A u \in Users : [h EXCEPT !.pc = pc, !.user = u] \in Handler
         /\ \A t \in Tokens, ip \in Addresses :
              [h EXCEPT !.pc = pc, !.token = t, !.ip = ip] \in Handler
         /\ \A u \in Users, ip \in Addresses, pw \in 0 .. MaxResets :
              [h EXCEPT !.pc = pc, !.user = u, !.ip = ip, !.pw = pw] \in Handler
         /\ \A u \in Users, f \in Tokens, pw \in 0 .. MaxResets :
              [h EXCEPT !.pc = pc, !.user = u, !.fam = f, !.pw = pw] \in Handler
BY DEF Handler

(* Whichever way a handler stops, its slot holds a handler at rest. *)
LEMMA RestType ==
  ASSUME TypeOK, NEW r \in Requests, Done(r) \/ \E as \in Resting : Throw(r, as)
  PROVE  /\ req' \in [Requests -> Handler]
         /\ req'[r].pc \in Resting
         /\ \A q \in Requests \ {r} : req'[q] = req[q]
<1>1. CASE Done(r)
  BY <1>1, BlankType DEF Done, Become, TypeOK, Blank, Resting
<1>2. ASSUME NEW as \in Resting, Throw(r, as)
      PROVE  /\ req' \in [Requests -> Handler]
             /\ req'[r].pc \in Resting
             /\ \A q \in Requests \ {r} : req'[q] = req[q]
  <2>1. [Blank EXCEPT !.pc = as, !.user = req[r].user] \in Handler
    BY <1>2, BlankType DEF Handler, TypeOK
  <2>2. [Blank EXCEPT !.pc = as, !.user = req[r].user].pc = as
    BY DEF Blank
  <2>. QED
    BY <1>2, <2>1, <2>2 DEF Throw, Become, TypeOK
<1>. QED
  BY <1>1, <1>2

LEMMA TokenParts ==
  /\ \A t \in Tokens : Owner(t) \in Users /\ IssuedAt(t) \in 0 .. MaxClock
  /\ \A s, t \in Tokens : Owner(s) = Owner(t) /\ IssuedAt(s) = IssuedAt(t) => s = t
  /\ \A u \in Users, i \in 0 .. MaxClock :
       <<u, i>> \in Tokens /\ Owner(<<u, i>>) = u /\ IssuedAt(<<u, i>>) = i
BY DEF Tokens, Owner, IssuedAt

LEMMA InitIInv == Init => IInv
<1>. SUFFICES ASSUME Init PROVE IInv
  OBVIOUS
<1>1. TypeOK
  BY BlankType, ConstantsAssumption DEF Init, TypeOK
<1>2. KnowsItsRow
  BY DEF Init, KnowsItsRow, Blank
<1>. QED
  BY <1>1, <1>2 DEF Init, IInv, Lineage, RowsAreLive

(* A request that is not in the middle of a refresh claims nothing of a    *)
(* row, so a step that moves only handlers out of these states keeps what  *)
(* is known of the rest.                                                   *)
LEMMA StoreStep ==
  ASSUME IInv, NEW r \in Requests, NEW t \in Tokens, NEW f \in Tokens, NEW p \in Tokens,
         t = Signed(r), Store(r, t, f, p), req[r].pc \in {"open", "rotate"},
         \/ p = t /\ f = t
         \/ /\ account[req[r].user] # "deleted" =>
                 p \in used /\ family[p] = f /\ Owner(p) = req[r].user
  PROVE  IInv'
<1>1. CASE account[req[r].user] = "deleted" \/ t \in stored
  <2>1. req' \in [Requests -> Handler] /\ req'[r].pc \in Resting
        /\ \A q \in Requests \ {r} : req'[q] = req[q]
    BY <1>1, RestType DEF Store, IInv, Resting
  <2>2. UNCHANGED <<clock, account, password, table, held, history>>
    BY <1>1 DEF Store
  <2>3. TypeOK'
    BY <2>1, <2>2 DEF IInv, TypeOK, table, history
  <2>4. KnowsItsRow'
    BY <2>1, <2>2 DEF IInv, KnowsItsRow, table, Resting
  <2>. QED
    BY <2>2, <2>3, <2>4 DEF IInv, Lineage, RowsAreLive, table, history
<1>2. CASE ~(account[req[r].user] = "deleted" \/ t \in stored)
  <2>. USE <1>2
  <2>1. /\ stored' = stored \cup {t}
        /\ family' = [family EXCEPT ![t] = f]
        /\ boundIP' = [boundIP EXCEPT ![t] = req[r].ip]
        /\ parent' = [parent EXCEPT ![t] = p]
        /\ provedBy' = [provedBy EXCEPT ![t] = req[r].pw]
        /\ req' = [req EXCEPT ![r] = [req[r] EXCEPT !.pc = "reply", !.token = t]]
        /\ UNCHANGED <<clock, account, password, used, revoked, held, grants, condemned>>
    BY DEF Store, Become
  <2>2. Owner(t) = req[r].user /\ IssuedAt(t) = clock
    BY TokenParts DEF Signed, IInv, TypeOK, Handler
  <2>3. TypeOK'
    <3>1. req' \in [Requests -> Handler]
      <4>1. [req[r] EXCEPT !.pc = "reply", !.token = t] \in Handler
        BY HandlerEdits DEF IInv, TypeOK, Steps
      <4>. QED
        BY <2>1, <4>1 DEF IInv, TypeOK
    <3>2. req[r].ip \in Addresses \cup {NoIP} /\ req[r].pw \in 0 .. MaxResets
      BY DEF IInv, TypeOK, Handler
    <3>. QED
      BY <2>1, <3>1, <3>2 DEF IInv, TypeOK
  <2>4. KnowsItsRow'
    <3>1. \A q \in Requests \ {r} : req'[q] = req[q]
      BY <2>1 DEF IInv, TypeOK
    <3>2. req'[r].pc = "reply"
      BY <2>1 DEF IInv, TypeOK, Handler
    <3>3. \A s \in stored : family'[s] = family[s] /\ s \in stored'
      BY <2>1 DEF IInv, TypeOK
    <3>. QED
      BY <2>1, <3>1, <3>2, <3>3 DEF IInv, KnowsItsRow
  <2>5. RowsAreLive'
    BY <2>1, <2>2 DEF IInv, RowsAreLive, TypeOK
  <2>6. Lineage'
    <3>. SUFFICES ASSUME NEW s \in stored'
                  PROVE  /\ family'[s] \in stored'
                         /\ family'[family'[s]] = family'[s]
                         /\ Owner(family'[s]) = Owner(s)
                         /\ \/ parent'[s] = s /\ family'[s] = s
                            \/ /\ parent'[s] \in used'
                               /\ family'[parent'[s]] = family'[s]
                               /\ IssuedAt(parent'[s]) < IssuedAt(s)
      BY DEF Lineage
    <3>1. CASE s # t
      <4>1. s \in stored /\ family'[s] = family[s] /\ parent'[s] = parent[s]
        BY <2>1, <3>1 DEF IInv, TypeOK
      <4>2. \A x \in stored : family'[x] = family[x]
        BY <2>1 DEF IInv, TypeOK
      <4>. QED
        BY <2>1, <4>1, <4>2 DEF IInv, Lineage, TypeOK
    <3>2. CASE s = t /\ p = t /\ f = t
      BY <2>1, <3>2 DEF IInv, TypeOK
    <3>3. CASE s = t /\ p \in used /\ family[p] = f /\ Owner(p) = req[r].user
      <4>1. p \in stored /\ p # t /\ family'[p] = f /\ family'[t] = f /\ parent'[t] = p
        BY <2>1, <3>3 DEF IInv, TypeOK
      <4>2. f \in stored /\ f # t /\ family'[f] = f /\ Owner(f) = Owner(p)
        BY <2>1, <3>3, <4>1 DEF IInv, TypeOK, Lineage
      <4>3. IssuedAt(p) < IssuedAt(t)
        <5>1. IssuedAt(p) <= clock /\ IssuedAt(p) # IssuedAt(t)
          BY <2>2, <3>3, <4>1, TokenParts DEF IInv, RowsAreLive, TypeOK
        <5>2. IssuedAt(p) \in Nat /\ clock \in Nat
          BY TokenParts, <4>1 DEF IInv, TypeOK
        <5>. QED
          BY <2>2, <5>1, <5>2
      <4>. QED
        BY <2>1, <2>2, <3>3, <4>1, <4>2, <4>3
    <3>. QED
      BY <3>1, <3>2, <3>3
  <2>. QED
    BY <2>3, <2>4, <2>5, <2>6 DEF IInv
<1>. QED
  BY <1>1, <1>2

(* A step that touches only the handler in slot r, and leaves it outside   *)
(* the states in which KnowsItsRow says something, preserves IInv.         *)
LEMMA QuietStep ==
  ASSUME IInv, NEW r \in Requests,
         UNCHANGED <<account, stored, used, family, boundIP, parent, provedBy>>,
         clock' \in 0 .. MaxClock, clock <= clock',
         password' \in [Users -> 0 .. MaxResets],
         revoked' \subseteq stored, held' \subseteq Tokens,
         grants' \in [Tokens -> Nat], condemned' \subseteq Tokens,
         req' \in [Requests -> Handler],
         \A q \in Requests \ {r} : req'[q] = req[q],
         \/ req'[r] = req[r]
         \/ req'[r].pc \notin {"revokeFamily", "revokeToken", "markUsed", "lookup", "rotate"}
  PROVE  IInv'
<1>1. TypeOK'
  BY DEF IInv, TypeOK
<1>2. Lineage'
  BY DEF IInv, Lineage
<1>3. KnowsItsRow'
  BY DEF IInv, KnowsItsRow
<1>4. RowsAreLive'
  BY TokenParts DEF IInv, RowsAreLive, TypeOK
<1>. QED
  BY <1>1, <1>2, <1>3, <1>4 DEF IInv
(* What Goto and Done leave in the slot. *)
LEMMA MoveType ==
  ASSUME TypeOK, NEW r \in Requests, NEW pc \in Resting \cup Steps,
         Goto(r, pc) \/ Done(r) \/ Failed(r)
  PROVE  /\ req' \in [Requests -> Handler]
         /\ req'[r].pc \in {pc, "idle", "failed"}
         /\ \A q \in Requests \ {r} : req'[q] = req[q]
<1>1. CASE Goto(r, pc)
  <2>1. [req[r] EXCEPT !.pc = pc] \in Handler
    BY HandlerEdits DEF TypeOK
  <2>2. [req[r] EXCEPT !.pc = pc].pc = pc
    BY DEF TypeOK, Handler
  <2>. QED
    BY <1>1, <2>1, <2>2 DEF Goto, Become, TypeOK
<1>2. CASE Done(r)
  BY <1>2, BlankType DEF Done, Become, TypeOK, Blank
<1>3. CASE Failed(r)
  <2>1. [Blank EXCEPT !.pc = "failed", !.user = req[r].user] \in Handler
    BY BlankType, HandlerEdits DEF TypeOK, Handler, Resting
  <2>2. [Blank EXCEPT !.pc = "failed", !.user = req[r].user].pc = "failed"
    BY DEF Blank
  <2>. QED
    BY <1>3, <2>1, <2>2 DEF Failed, Throw, Become, TypeOK
<1>. QED
  BY <1>1, <1>2, <1>3

LEMMA ReadStep == ASSUME IInv, NEW r \in Requests, ReadRecord(r) PROVE IInv'
<1>. DEFINE t == req[r].token
            h == [req[r] EXCEPT !.pc = Verdict(r), !.user = Owner(t),
                                !.fam = family[t], !.pw = provedBy[t]]
<1>1. t \in Tokens /\ req[r] \in Handler
  BY DEF IInv, TypeOK, Handler
<1>2. CASE t \notin stored \/ ExpiresAt(t) < clock
  <2>1. Done(r) /\ UNCHANGED <<clock, account, password, table, held, history>>
    BY <1>2 DEF ReadRecord
  <2>2. /\ req' \in [Requests -> Handler]
        /\ req'[r].pc \in {"idle", "failed"}
        /\ \A q \in Requests \ {r} : req'[q] = req[q]
    BY <2>1, MoveType DEF IInv, Resting
  <2>. QED
    BY <2>1, <2>2, QuietStep DEF IInv, TypeOK, table, history
<1>3. CASE ~(t \notin stored \/ ExpiresAt(t) < clock)
  <2>1. req' = [req EXCEPT ![r] = h]
        /\ UNCHANGED <<clock, account, password, table, held, history>>
    BY <1>3 DEF ReadRecord, Become
  <2>2. Verdict(r) \in {"revokeFamily", "revokeToken", "markUsed"}
    BY DEF Verdict
  <2>3. h \in Handler
    BY <1>1, <2>2, TokenParts, HandlerEdits DEF IInv, TypeOK, Steps
  <2>4. /\ h.pc \in {"revokeFamily", "revokeToken", "markUsed"}
        /\ h.user = Owner(h.token) /\ h.token \in stored /\ h.fam = family[h.token]
    BY <1>1, <1>3, <2>2 DEF Handler
  <2>5. TypeOK'
    BY <2>1, <2>3 DEF IInv, TypeOK, table, history
  <2>6. KnowsItsRow'
    <3>1. req'[r] = h /\ \A q \in Requests \ {r} : req'[q] = req[q]
      BY <2>1 DEF IInv, TypeOK
    <3>. QED
      BY <2>1, <2>4, <3>1 DEF IInv, KnowsItsRow, table
  <2>. QED
    BY <2>1, <2>5, <2>6 DEF IInv, Lineage, RowsAreLive, table, history
<1>. QED
  BY <1>2, <1>3

LEMMA MarkStep == ASSUME IInv, NEW r \in Requests, MarkUsed(r) PROVE IInv'
<1>. DEFINE t == req[r].token
<1>1. CASE t \notin stored
  <2>1. Failed(r) /\ UNCHANGED <<clock, account, password, table, held, history>>
    BY <1>1 DEF MarkUsed, table, history
  <2>2. /\ req' \in [Requests -> Handler]
        /\ req'[r].pc \in {"idle", "failed"}
        /\ \A q \in Requests \ {r} : req'[q] = req[q]
    BY <2>1, MoveType DEF IInv, Resting
  <2>. QED
    BY <2>1, <2>2, QuietStep DEF IInv, TypeOK, table, history
<1>2. CASE t \in stored
  <2>1. /\ used' = used \cup {t}
        /\ grants' = [grants EXCEPT ![t] = @ + 1]
        /\ req' = [req EXCEPT ![r] = [req[r] EXCEPT !.pc = "lookup"]]
        /\ UNCHANGED <<clock, account, password, stored, revoked, family, boundIP,
                       held, parent, provedBy, condemned>>
    BY <1>2 DEF MarkUsed, Goto, Become
  <2>2. [req[r] EXCEPT !.pc = "lookup"] \in Handler
    BY HandlerEdits DEF IInv, TypeOK, Steps
  <2>3. TypeOK'
    BY <1>2, <2>1, <2>2 DEF IInv, TypeOK
  <2>4. /\ req'[r].pc = "lookup" /\ req'[r].user = req[r].user
        /\ req'[r].token = t /\ req'[r].fam = req[r].fam
        /\ \A q \in Requests \ {r} : req'[q] = req[q]
    BY <2>1 DEF IInv, TypeOK, Handler
  <2>5. KnowsItsRow'
    <3>1. req[r].pc = "markUsed"
      BY DEF MarkUsed
    <3>. QED
      BY <1>2, <2>1, <2>4, <3>1 DEF IInv, KnowsItsRow
  <2>6. Lineage' /\ RowsAreLive'
    BY <2>1 DEF IInv, Lineage, RowsAreLive
  <2>. QED
    BY <2>3, <2>5, <2>6 DEF IInv
<1>. QED
  BY <1>1, <1>2

LEMMA LookupStep == ASSUME IInv, NEW r \in Requests, LookupUser(r) PROVE IInv'
<1>0. UNCHANGED <<clock, account, password, table, held, history>> /\ req[r].pc = "lookup"
  BY DEF LookupUser
<1>1. CASE Done(r)
  <2>1. /\ req' \in [Requests -> Handler]
        /\ req'[r].pc \in {"idle", "failed"}
        /\ \A q \in Requests \ {r} : req'[q] = req[q]
    BY <1>1, MoveType DEF IInv, Resting
  <2>. QED
    BY <1>0, <2>1, QuietStep DEF IInv, TypeOK, table, history
<1>2. CASE Goto(r, "rotate")
  <2>1. req' = [req EXCEPT ![r] = [req[r] EXCEPT !.pc = "rotate"]]
    BY <1>2 DEF Goto, Become
  <2>2. [req[r] EXCEPT !.pc = "rotate"] \in Handler
    BY HandlerEdits DEF IInv, TypeOK, Steps
  <2>3. TypeOK'
    BY <1>0, <2>1, <2>2 DEF IInv, TypeOK, table, history
  <2>4. /\ req'[r].pc = "rotate" /\ req'[r].user = req[r].user
        /\ req'[r].token = req[r].token /\ req'[r].fam = req[r].fam
        /\ \A q \in Requests \ {r} : req'[q] = req[q]
    BY <2>1 DEF IInv, TypeOK, Handler
  <2>5. KnowsItsRow'
    BY <1>0, <2>4 DEF IInv, KnowsItsRow, table
  <2>. QED
    BY <1>0, <2>3, <2>5 DEF IInv, Lineage, RowsAreLive, table, history
<1>. QED
  BY <1>1, <1>2 DEF LookupUser

LEMMA DeleteStep == ASSUME IInv, NEW u \in Users, DeleteAccount(u) PROVE IInv'
<1>. DEFINE mine == {t \in Tokens : Owner(t) = u}
<1>1. /\ account' = [account EXCEPT ![u] = "deleted"]
      /\ stored' = stored \ mine /\ used' = used \ mine /\ revoked' = revoked \ mine
      /\ family' = [t \in Tokens |-> IF t \in mine THEN t ELSE family[t]]
      /\ boundIP' = [t \in Tokens |-> IF t \in mine THEN NoIP ELSE boundIP[t]]
      /\ parent' = [t \in Tokens |-> IF t \in mine THEN t ELSE parent[t]]
      /\ UNCHANGED <<clock, password, req, held, provedBy, grants, condemned>>
  BY DEF DeleteAccount
<1>2. TypeOK'
  BY <1>1 DEF IInv, TypeOK
<1>3. RowsAreLive'
  BY <1>1, TokenParts DEF IInv, RowsAreLive, TypeOK
<1>4. KnowsItsRow'
  <2>. SUFFICES ASSUME NEW r \in Requests,
                       req[r].pc \in {"revokeFamily", "revokeToken", "markUsed", "lookup", "rotate"},
                       req[r].user # u
                PROVE  /\ req[r].token \in stored => req[r].token \in stored'
                       /\ req[r].token \in used => req[r].token \in used'
                       /\ family'[req[r].token] = family[req[r].token]
    BY <1>1 DEF IInv, KnowsItsRow, TypeOK, Handler
  <2>1. req[r].token \in Tokens \ mine
    BY DEF IInv, KnowsItsRow, TypeOK, Handler
  <2>. QED
    BY <1>1, <2>1
<1>5. Lineage'
  <2>. SUFFICES ASSUME NEW t \in stored, t \notin mine
                PROVE  /\ family'[t] \in stored'
                       /\ family'[family'[t]] = family'[t]
                       /\ Owner(family'[t]) = Owner(t)
                       /\ \/ parent'[t] = t /\ family'[t] = t
                          \/ /\ parent'[t] \in used'
                             /\ family'[parent'[t]] = family'[t]
                             /\ IssuedAt(parent'[t]) < IssuedAt(t)
    BY <1>1 DEF Lineage
  <2>1. t \in Tokens /\ family'[t] = family[t] /\ parent'[t] = parent[t] /\ Owner(t) # u
    BY <1>1 DEF IInv, TypeOK
  <2>2. /\ family[t] \in stored /\ family[family[t]] = family[t]
        /\ Owner(family[t]) = Owner(t) /\ family[t] \in Tokens
    BY DEF IInv, Lineage, TypeOK
  <2>3. family'[family[t]] = family[t] /\ family[t] \in stored'
    BY <1>1, <2>1, <2>2
  <2>4. CASE parent[t] = t /\ family[t] = t
    BY <2>1, <2>2, <2>3, <2>4
  <2>5. CASE /\ parent[t] \in used /\ family[parent[t]] = family[t]
             /\ IssuedAt(parent[t]) < IssuedAt(t)
    <3>1. parent[t] \in stored /\ parent[t] \in Tokens
      BY <2>5 DEF IInv, TypeOK
    <3>2. Owner(parent[t]) = Owner(t)
      BY <2>2, <2>5, <3>1 DEF IInv, Lineage
    <3>3. parent[t] \notin mine
      BY <2>1, <3>2
    <3>. QED
      BY <1>1, <2>1, <2>2, <2>3, <2>5, <3>1, <3>3
  <2>. QED
    BY <2>4, <2>5 DEF IInv, Lineage
<1>. QED
  BY <1>2, <1>3, <1>4, <1>5 DEF IInv
(* Steps that start a handler, or move it without touching what KnowsItsRow *)
(* relates.                                                                *)
LEMMA EditStep ==
  ASSUME IInv, NEW r \in Requests, NEW h \in Handler, Become(r, h),
         h.pc \notin {"revokeFamily", "revokeToken", "markUsed", "lookup", "rotate"},
         UNCHANGED <<clock, account, stored, used, family, boundIP, parent, provedBy,
                     grants>>,
         password' \in [Users -> 0 .. MaxResets],
         revoked' \subseteq stored, held' \subseteq Tokens, condemned' \subseteq Tokens
  PROVE  IInv'
<1>1. /\ req' \in [Requests -> Handler] /\ req'[r] = h
      /\ \A q \in Requests \ {r} : req'[q] = req[q]
  BY DEF Become, IInv, TypeOK
<1>. QED
  BY <1>1, QuietStep DEF IInv, TypeOK

LEMMA HandleStep == ASSUME IInv, NEW r \in Requests, Handle(r) PROVE IInv'
<1>. USE DEF IInv
<1>0. req[r] \in Handler /\ req[r].token \in Tokens /\ req[r].user \in Users /\ req[r].fam \in Tokens
  BY DEF TypeOK, Handler
<1>a. Blank \in Handler /\ Blank.pc = "idle"
  BY BlankType DEF Blank
<1>b. /\ [Blank EXCEPT !.pc = "failed", !.user = req[r].user] \in Handler
      /\ [Blank EXCEPT !.pc = "failed", !.user = req[r].user].pc = "failed"
  BY <1>0, BlankType, HandlerEdits DEF Resting, Blank
<1>c. Signed(r) \in Tokens
  BY <1>0, TokenParts DEF Signed, TypeOK
<1>1. CASE Open(r)
  BY <1>1, <1>c, StoreStep DEF Open
<1>2. CASE Rotate(r)
  <2>1. account[req[r].user] # "deleted" =>
          /\ req[r].token \in used
          /\ family[req[r].token] = req[r].fam
          /\ Owner(req[r].token) = req[r].user
    BY <1>2 DEF Rotate, KnowsItsRow
  <2>. QED
    BY <1>0, <1>2, <1>c, <2>1, StoreStep DEF Rotate
<1>3. CASE Reply(r)
  <2>1. held' \subseteq Tokens
    BY <1>0, <1>3 DEF Reply, TypeOK
  <2>. QED
    BY <1>3, <1>a, <2>1, EditStep DEF Reply, Done, table, history, TypeOK
<1>4. CASE ReadRecord(r)
  BY <1>4, ReadStep
<1>5. CASE RevokeFamily(r)
  <2>1. revoked' \subseteq stored /\ condemned' \subseteq Tokens
    BY <1>0, <1>5 DEF RevokeFamily, TypeOK, ActiveIn, FamilyOf
  <2>. QED
    BY <1>5, <1>a, <2>1, EditStep DEF RevokeFamily, Done, TypeOK
<1>6. CASE RevokeToken(r)
  <2>1. revoked' \subseteq stored
    BY <1>6 DEF RevokeToken, TypeOK
  <2>2. \E h \in Handler : Become(r, h) /\ h.pc \in {"idle", "failed"}
    BY <1>6, <1>a, <1>b DEF RevokeToken, Done, Failed, Throw
  <2>. QED
    BY <1>6, <2>1, <2>2, EditStep DEF RevokeToken, history, TypeOK
<1>7. CASE MarkUsed(r)
  BY <1>7, MarkStep
<1>8. CASE LookupUser(r)
  BY <1>8, LookupStep
<1>9. CASE SetPassword(r)
  <2>1. password' \in [Users -> 0 .. MaxResets]
    BY <1>0, <1>9, ConstantsAssumption DEF SetPassword, TypeOK
  <2>2. /\ [req[r] EXCEPT !.pc = "revokeAll"] \in Handler
        /\ [req[r] EXCEPT !.pc = "revokeAll"].pc = "revokeAll"
    BY <1>0, HandlerEdits DEF Handler, Steps
  <2>3. \E h \in Handler : Become(r, h) /\ h.pc \in {"revokeAll", "failed"}
    BY <1>9, <1>b, <2>2 DEF SetPassword, Goto, Failed, Throw
  <2>. QED
    BY <1>9, <2>1, <2>3, EditStep DEF SetPassword, table, history, TypeOK
<1>10. CASE RevokeAll(r)
  <2>1. revoked' \subseteq stored
    BY <1>10 DEF RevokeAll, TypeOK, ActiveIn
  <2>. QED
    BY <1>10, <1>a, <2>1, EditStep DEF RevokeAll, Done, history, TypeOK
<1>. QED
  BY <1>1, <1>2, <1>3, <1>4, <1>5, <1>6, <1>7, <1>8, <1>9, <1>10 DEF Handle

LEMMA NextIInv == IInv /\ [Next]_vars => IInv'
<1>. SUFFICES ASSUME IInv, [Next]_vars PROVE IInv'
  OBVIOUS
<1>1. ASSUME NEW r \in Requests, Handle(r) PROVE IInv'
  BY <1>1, HandleStep
<1>2. ASSUME NEW r \in Requests, Crash(r) PROVE IInv'
  <2>1. Blank \in Handler /\ Blank.pc = "idle"
    BY BlankType DEF Blank
  <2>. QED
    BY <1>2, <2>1, EditStep DEF Crash, Done, table, history, IInv, TypeOK
<1>3. ASSUME NEW r \in Requests, NEW u \in Users, NEW ip \in Addresses, StartLogin(r, u, ip)
      PROVE  IInv'
  <2>. DEFINE h == [req[r] EXCEPT !.pc = "open", !.user = u, !.ip = ip, !.pw = password[u]]
  <2>1. h \in Handler
    BY HandlerEdits DEF IInv, TypeOK, Steps
  <2>2. h.pc = "open"
    BY DEF IInv, TypeOK, Handler
  <2>. QED
    BY <1>3, <2>1, <2>2, EditStep DEF StartLogin, table, history, IInv, TypeOK
<1>4. ASSUME NEW r \in Requests, NEW t \in Tokens, NEW ip \in Addresses, StartRefresh(r, t, ip)
      PROVE  IInv'
  <2>. DEFINE h == [req[r] EXCEPT !.pc = "read", !.token = t, !.ip = ip]
  <2>1. h \in Handler
    BY HandlerEdits DEF IInv, TypeOK, Steps
  <2>2. h.pc = "read"
    BY DEF IInv, TypeOK, Handler
  <2>. QED
    BY <1>4, <2>1, <2>2, EditStep DEF StartRefresh, table, history, IInv, TypeOK
<1>5. ASSUME NEW r \in Requests, NEW t \in Tokens, Logout(r, t) PROVE IInv'
  BY <1>5, QuietStep DEF Logout, history, IInv, TypeOK
<1>6. ASSUME NEW r \in Requests, NEW u \in Users, StartReset(r, u) PROVE IInv'
  <2>. DEFINE h == [req[r] EXCEPT !.pc = "setPassword", !.user = u]
  <2>1. h \in Handler
    BY HandlerEdits DEF IInv, TypeOK, Steps
  <2>2. h.pc = "setPassword"
    BY DEF IInv, TypeOK, Handler
  <2>. QED
    BY <1>6, <2>1, <2>2, EditStep DEF StartReset, table, history, IInv, TypeOK
<1>7. ASSUME NEW u \in Users, DeleteAccount(u) PROVE IInv'
  BY <1>7, DeleteStep
<1>8. ASSUME NEW u \in Users, NEW a \in {"active", "inactive"}, SetActive(u, a) PROVE IInv'
  <2>1. /\ account[u] # "deleted" /\ account' = [account EXCEPT ![u] = a]
        /\ UNCHANGED <<clock, password, stored, used, revoked, family, boundIP, req, held,
                       parent, provedBy, grants, condemned>>
    BY <1>8 DEF SetActive, table, history
  <2>2. TypeOK'
    BY <2>1 DEF IInv, TypeOK
  <2>3. RowsAreLive'
    BY <2>1, TokenParts DEF IInv, RowsAreLive, TypeOK
  <2>4. KnowsItsRow'
    BY <2>1 DEF IInv, KnowsItsRow, TypeOK, Handler
  <2>. QED
    BY <2>1, <2>2, <2>3, <2>4 DEF IInv, Lineage
<1>9. CASE Tick
  <2>1. /\ clock' \in 0 .. MaxClock /\ clock <= clock'
        /\ UNCHANGED <<account, password, stored, used, revoked, family, boundIP, req, held,
                       parent, provedBy, grants, condemned>>
    BY <1>9, ConstantsAssumption DEF Tick, table, history, IInv, TypeOK
  <2>2. TypeOK'
    BY <2>1 DEF IInv, TypeOK
  <2>3. RowsAreLive'
    BY <2>1, TokenParts, ConstantsAssumption DEF IInv, RowsAreLive, TypeOK
  <2>. QED
    BY <2>1, <2>2, <2>3 DEF IInv, Lineage, KnowsItsRow
<1>10. CASE UNCHANGED vars
  BY <1>10 DEF vars, table, history, IInv, TypeOK, Lineage, KnowsItsRow, RowsAreLive
<1>. QED
  BY <1>1, <1>2, <1>3, <1>4, <1>5, <1>6, <1>7, <1>8, <1>9, <1>10 DEF Next

LEMMA Invariance == Spec => []IInv
BY InitIInv, NextIInv, PTL DEF Spec

(* The state has the declared types whatever requests overlap, crash or    *)
(* find their account deleted.                                             *)
THEOREM TypeCorrect == Spec => []TypeOK
<1>1. IInv => TypeOK
  BY DEF IInv
<1>. QED
  BY <1>1, Invariance, PTL

(* Every stored token descends, through tokens marked used and strictly    *)
(* older, from the token that opened its family, within one account.       *)
THEOREM LineageHolds == Spec => []Lineage
<1>1. IInv => Lineage
  BY DEF IInv
<1>. QED
  BY <1>1, Invariance, PTL
-----------------------------------------------------------------------------
(* A session that is over stays over.                                      *)

InRotation == {"markUsed", "lookup", "rotate"}

(* A step that stores no row, clears no flag and lets no request enter the *)
(* rotation leaves a finished session finished.                            *)
LEMMA OverKept ==
  ASSUME NEW f \in Tokens, Over(f),
         \A t \in stored' : /\ t \in stored /\ family'[t] = family[t]
                            /\ t \in used => t \in used'
                            /\ t \in revoked => t \in revoked',
         \A q \in Requests : req'[q].pc \in InRotation =>
                               req[q].pc \in InRotation /\ req'[q].fam = req[q].fam
  PROVE  Over(f)'
BY DEF Over, ActiveIn, FamilyOf, Active, RotationOf, InRotation

(* A handler that takes h over, h not in the rotation, adds no rotation. *)
LEMMA OverKeptBecome ==
  ASSUME TypeOK, NEW f \in Tokens, Over(f), NEW r \in Requests, NEW h, Become(r, h),
         h.pc \notin InRotation,
         UNCHANGED <<stored, used, family>>, revoked \subseteq revoked'
  PROVE  Over(f)'
<1>1. req'[r] = h /\ \A q \in Requests \ {r} : req'[q] = req[q]
  BY DEF Become, TypeOK
<1>. QED
  BY <1>1, OverKept

LEMMA OverStore ==
  ASSUME TypeOK, NEW f \in Tokens, Opened(f), Over(f), NEW r \in Requests,
         NEW t \in Tokens, NEW g \in Tokens, NEW p \in Tokens, Store(r, t, g, p),
         g # f \/ (t = f /\ Owner(f) = req[r].user)
  PROVE  Over(f)'
<1>1. CASE account[req[r].user] = "deleted" \/ t \in stored
  <2>1. \E as \in {"lost", "failed"} : Throw(r, as)
    BY <1>1 DEF Store
  <2>2. \A as : [Blank EXCEPT !.pc = as, !.user = req[r].user].pc = as
    BY DEF Blank
  <2>. QED
    BY <1>1, <2>1, <2>2, OverKeptBecome DEF Store, Throw, table, InRotation
<1>2. CASE ~(account[req[r].user] = "deleted" \/ t \in stored)
  <2>1. g # f
    BY <1>2 DEF Opened
  <2>2. /\ stored' = stored \cup {t} /\ UNCHANGED <<used, revoked>>
        /\ family' = [family EXCEPT ![t] = g]
        /\ req' = [req EXCEPT ![r] = [req[r] EXCEPT !.pc = "reply", !.token = t]]
    BY <1>2 DEF Store, Become
  <2>3. req'[r].pc = "reply" /\ \A q \in Requests \ {r} : req'[q] = req[q]
    BY <2>2 DEF TypeOK, Handler
  <2>4. RotationOf(f)' = {}
    BY <2>3 DEF RotationOf, Over
  <2>5. \A x \in stored' : family'[x] = f => x \in stored /\ family[x] = f
    BY <2>1, <2>2 DEF TypeOK
  <2>6. ActiveIn(FamilyOf(f))' = {}
    BY <2>2, <2>5 DEF Over, ActiveIn, FamilyOf, Active
  <2>. QED
    BY <2>4, <2>6 DEF Over
<1>. QED
  BY <1>1, <1>2

LEMMA OverHandle ==
  ASSUME IInv, NEW f \in Tokens, Opened(f), Over(f), NEW r \in Requests, Handle(r)
  PROVE  Over(f)'
<1>. USE DEF IInv
<1>0. req[r] \in Handler /\ req[r].token \in Tokens /\ req[r].user \in Users /\ req[r].fam \in Tokens
  BY DEF TypeOK, Handler
<1>a. Blank.pc = "idle" /\ [Blank EXCEPT !.pc = "failed", !.user = req[r].user].pc = "failed"
  BY DEF Blank
<1>b. \A pc : /\ [req[r] EXCEPT !.pc = pc].pc = pc
              /\ [req[r] EXCEPT !.pc = pc].fam = req[r].fam
  BY <1>0 DEF Handler
<1>c. /\ Signed(r) \in Tokens /\ Owner(Signed(r)) = req[r].user
  BY <1>0, TokenParts DEF Signed, TypeOK
<1>1. CASE Open(r)
  <2>1. PICK t \in Tokens : t = Signed(r) /\ Store(r, t, t, t)
    BY <1>1, <1>c DEF Open
  <2>2. Owner(t) = req[r].user
    BY <1>c, <2>1
  <2>3. t # f \/ (t = f /\ Owner(f) = req[r].user)
    BY <2>2
  <2>. QED
    BY <2>1, <2>3, OverStore
<1>2. CASE Rotate(r)
  <2>1. req[r].fam # f
    BY <1>2 DEF Rotate, Over, RotationOf
  <2>. QED
    <3>1. PICK t \in Tokens, g \in Tokens, p \in Tokens :
            t = Signed(r) /\ g = req[r].fam /\ Store(r, t, g, p)
      BY <1>0, <1>2, <1>c DEF Rotate
    <3>. QED
      BY <2>1, <3>1, OverStore
<1>3. CASE Reply(r)
  BY <1>3, <1>a, OverKeptBecome DEF Reply, Done, table, InRotation
<1>4. CASE ReadRecord(r)
  <2>. DEFINE t == req[r].token
              h == [req[r] EXCEPT !.pc = Verdict(r), !.user = Owner(t),
                                  !.fam = family[t], !.pw = provedBy[t]]
  <2>1. CASE Done(r)
    BY <1>4, <1>a, <2>1, OverKeptBecome DEF ReadRecord, Done, table, InRotation
  <2>2. CASE t \in stored /\ Become(r, h)
    <3>1. h.pc = Verdict(r) /\ h.fam = family[t]
      BY <1>0 DEF Handler
    <3>2. CASE Verdict(r) # "markUsed"
      <4>1. Verdict(r) \notin InRotation
        BY <3>2 DEF Verdict, InRotation
      <4>. QED
        BY <1>4, <2>2, <3>1, <4>1, OverKeptBecome DEF ReadRecord, table
    <3>3. CASE Verdict(r) = "markUsed"
      <4>1. Active(t)
        BY <3>3 DEF Verdict
      <4>2. family[t] # f
        BY <2>2, <4>1 DEF Over, ActiveIn, FamilyOf
      <4>3. req'[r].fam # f /\ \A q \in Requests \ {r} : req'[q] = req[q]
        BY <2>2, <3>1, <4>2 DEF Become, TypeOK
      <4>. QED
        BY <1>4, <4>3 DEF ReadRecord, table, Over, ActiveIn, FamilyOf, Active, RotationOf
    <3>. QED
      BY <3>2, <3>3
  <2>. QED
    BY <1>4, <2>1, <2>2 DEF ReadRecord
<1>5. CASE RevokeFamily(r)
  BY <1>5, <1>a, OverKeptBecome DEF RevokeFamily, Done, InRotation
<1>6. CASE RevokeToken(r)
  BY <1>6, <1>a, OverKeptBecome DEF RevokeToken, Done, Failed, Throw, InRotation
<1>7. CASE MarkUsed(r)
  <2>1. CASE Failed(r)
    BY <1>7, <1>a, <2>1, OverKept DEF MarkUsed, Failed, Throw, Become, InRotation, TypeOK
  <2>2. CASE Goto(r, "lookup")
    <3>1. /\ req'[r].fam = req[r].fam /\ \A q \in Requests \ {r} : req'[q] = req[q]
      BY <1>b, <2>2 DEF Goto, Become, TypeOK
    <3>. QED
      BY <1>7, <3>1, OverKept DEF MarkUsed, InRotation
  <2>. QED
    BY <1>7, <2>1, <2>2 DEF MarkUsed
<1>8. CASE LookupUser(r)
  <2>1. CASE Done(r)
    BY <1>8, <1>a, <2>1, OverKeptBecome DEF LookupUser, Done, table, InRotation
  <2>2. CASE Goto(r, "rotate")
    <3>1. /\ req'[r].fam = req[r].fam /\ \A q \in Requests \ {r} : req'[q] = req[q]
      BY <1>b, <2>2 DEF Goto, Become, TypeOK
    <3>. QED
      BY <1>8, <3>1, OverKept DEF LookupUser, InRotation, table
  <2>. QED
    BY <1>8, <2>1, <2>2 DEF LookupUser
<1>9. CASE SetPassword(r)
  BY <1>9, <1>a, <1>b, OverKeptBecome
     DEF SetPassword, Goto, Failed, Throw, table, InRotation
<1>10. CASE RevokeAll(r)
  BY <1>10, <1>a, OverKeptBecome DEF RevokeAll, Done, InRotation
<1>. QED
  BY <1>1, <1>2, <1>3, <1>4, <1>5, <1>6, <1>7, <1>8, <1>9, <1>10 DEF Handle

LEMMA OpenedKept ==
  ASSUME IInv, Next, NEW f \in Tokens, Opened(f)
  PROVE  Opened(f)'
<1>1. \A r \in Requests : Handle(r) =>
        (stored \subseteq stored' /\ UNCHANGED account)
  BY DEF Handle, Open, Rotate, Store, Reply, ReadRecord, RevokeFamily, RevokeToken, MarkUsed,
         LookupUser, SetPassword, RevokeAll, table
<1>2. \A u \in Users : DeleteAccount(u) => Opened(f)'
  BY TokenParts DEF DeleteAccount, Opened, IInv, TypeOK
<1>3. \A u \in Users, a \in {"active", "inactive"} : SetActive(u, a) => Opened(f)'
  BY TokenParts DEF SetActive, Opened, table, IInv, TypeOK
<1>. QED
  BY <1>1, <1>2, <1>3
     DEF Next, Opened, Crash, StartLogin, StartRefresh, Logout, StartReset, Tick, table

LEMMA OverStep ==
  ASSUME IInv, Next, NEW f \in Tokens, Opened(f), Over(f)
  PROVE  Over(f)'
<1>. USE DEF IInv
<1>1. ASSUME NEW r \in Requests, Handle(r) PROVE Over(f)'
  BY <1>1, OverHandle
<1>2. ASSUME NEW r \in Requests, Crash(r) PROVE Over(f)'
  BY <1>2, OverKeptBecome DEF Crash, Done, Blank, table, InRotation
<1>3. ASSUME NEW r \in Requests, NEW u \in Users, NEW ip \in Addresses, StartLogin(r, u, ip)
      PROVE  Over(f)'
  <2>1. [req[r] EXCEPT !.pc = "open", !.user = u, !.ip = ip, !.pw = password[u]].pc = "open"
    BY DEF TypeOK, Handler
  <2>. QED
    BY <1>3, <2>1, OverKeptBecome DEF StartLogin, table, InRotation
<1>4. ASSUME NEW r \in Requests, NEW t \in Tokens, NEW ip \in Addresses, StartRefresh(r, t, ip)
      PROVE  Over(f)'
  <2>1. [req[r] EXCEPT !.pc = "read", !.token = t, !.ip = ip].pc = "read"
    BY DEF TypeOK, Handler
  <2>. QED
    BY <1>4, <2>1, OverKeptBecome DEF StartRefresh, table, InRotation
<1>5. ASSUME NEW r \in Requests, NEW t \in Tokens, Logout(r, t) PROVE Over(f)'
  BY <1>5, OverKept DEF Logout
<1>6. ASSUME NEW r \in Requests, NEW u \in Users, StartReset(r, u) PROVE Over(f)'
  <2>1. [req[r] EXCEPT !.pc = "setPassword", !.user = u].pc = "setPassword"
    BY DEF TypeOK, Handler
  <2>. QED
    BY <1>6, <2>1, OverKeptBecome DEF StartReset, table, InRotation
<1>7. ASSUME NEW u \in Users, DeleteAccount(u) PROVE Over(f)'
  BY <1>7, OverKept DEF DeleteAccount, TypeOK
<1>8. ASSUME NEW u \in Users, NEW a \in {"active", "inactive"}, SetActive(u, a) PROVE Over(f)'
  BY <1>8, OverKept DEF SetActive, table
<1>9. CASE Tick
  BY <1>9, OverKept DEF Tick, table
<1>. QED
  BY <1>1, <1>2, <1>3, <1>4, <1>5, <1>6, <1>7, <1>8, <1>9 DEF Next

(* A session without an active token and without a rotation in flight      *)
(* never gets an active token again, for any number of requests and users. *)
THEOREM SessionsEndForGood == Spec => OverIsForever
<1>1. IInv /\ [Next]_vars =>
        [\A f \in Tokens : Opened(f) /\ Over(f) => (Opened(f) /\ Over(f))']_vars
  BY OpenedKept, OverStep
<1>. QED
  BY <1>1, Invariance, PTL DEF Spec, OverIsForever

(* usedAt and revokedAt are never cleared while the account exists, and    *)
(* no token is stored for a deleted account.                               *)
THEOREM FlagsAreFinal == Spec => SpentIsFinal
<1>. DEFINE A == /\ \A t \in used : t \in used' \/ account'[Owner(t)] = "deleted"
                 /\ \A t \in revoked : t \in revoked' \/ account'[Owner(t)] = "deleted"
                 /\ \A t \in stored' : account[Owner(t)] # "deleted"
<1>1. ASSUME IInv, Next PROVE A
  <2>. USE <1>1 DEF IInv, RowsAreLive
  <2>1. ASSUME NEW r \in Requests, Handle(r) PROVE A
    <3>1. ASSUME NEW f, NEW p, Store(r, Signed(r), f, p) PROVE A
      <4>1. Owner(Signed(r)) = req[r].user
        BY TokenParts DEF Signed, TypeOK, Handler
      <4>. QED
        BY <3>1, <4>1 DEF Store, table
    <3>. QED
      BY <2>1, <3>1
         DEF Handle, Open, Rotate, Reply, ReadRecord, RevokeFamily, RevokeToken, MarkUsed,
             LookupUser, SetPassword, RevokeAll, table
  <2>2. ASSUME NEW u \in Users, DeleteAccount(u) PROVE A
    BY <2>2, TokenParts DEF DeleteAccount, TypeOK
  <2>. QED
    BY <2>1, <2>2
       DEF Next, Crash, StartLogin, StartRefresh, Logout, StartReset, SetActive, Tick, table
<1>2. IInv /\ [Next]_vars => [A]_vars
  BY <1>1
<1>. QED
  BY <1>2, Invariance, PTL DEF Spec, SpentIsFinal

-----------------------------------------------------------------------------
(* One request at a time: what the documentation says of rotation, reuse   *)
(* and reset then holds.                                                   *)
OneAtATime == \A q, r \in Requests : q = r

Gone(u) == account[u] = "deleted"

(* No stored token replaces t. *)
Childless(t) == \A s \in stored : parent[s] = t => s = t

(* What the only handler knows: the family it read belongs to its user,    *)
(* and nothing happened to a token it read as active but the deletion of   *)
(* the account. *)
Alone(h) ==
  /\ h.pc \in {"revokeFamily"} \cup InRotation => Owner(h.fam) = h.user
  /\ h.pc = "markUsed" => Gone(h.user) \/ Active(h.token)
  /\ h.pc \in InRotation => h.fam \notin condemned /\ Childless(h.token)

Serial ==
  /\ OneSuccessor /\ ReuseKillsFamily
  /\ \A f \in condemned : Opened(f)
  /\ \A r \in Requests : Alone(req[r])

(* A step that leaves the rows but may revoke some, with the only handler  *)
(* elsewhere.                                                              *)
LEMMA SerialCalm ==
  ASSUME IInv, Serial, UNCHANGED <<stored, used, family, parent, condemned>>,
         revoked \subseteq revoked', \A u \in Users : Gone(u) => Gone(u)',
         \A q \in Requests : req'[q].pc \notin {"revokeFamily"} \cup InRotation
  PROVE  Serial'
<1>1. OneSuccessor' /\ ReuseKillsFamily'
  BY DEF Serial, OneSuccessor, ReuseKillsFamily, Active
<1>2. \A f \in condemned' : Opened(f)'
  BY TokenParts DEF Serial, Opened, Gone, IInv, TypeOK
<1>3. \A q \in Requests : Alone(req[q])'
  BY DEF Alone, InRotation
<1> QED
  BY <1>1, <1>2, <1>3 DEF Serial

(* A step that only touches accounts or the clock. *)
LEMMA SerialStill ==
  ASSUME IInv, Serial, UNCHANGED <<stored, used, revoked, family, parent, condemned, req>>,
         \A u \in Users : Gone(u) => Gone(u)'
  PROVE  Serial'
<1>1. OneSuccessor' /\ ReuseKillsFamily'
  BY DEF Serial, OneSuccessor, ReuseKillsFamily, Active
<1>2. \A f \in condemned' : Opened(f)'
  BY TokenParts DEF Serial, Opened, Gone, IInv, TypeOK
<1>3. ASSUME NEW q \in Requests PROVE Alone(req[q])'
  <2>1. Alone(req[q]) /\ req[q].user \in Users
    BY DEF Serial, IInv, TypeOK, Handler
  <2> QED
    BY <2>1 DEF Alone, Active, Childless
<1> QED
  BY <1>1, <1>2, <1>3 DEF Serial

(* The handler in the only slot after it moved on. *)
LEMMA OnlySlot ==
  ASSUME OneAtATime, TypeOK, NEW r \in Requests, NEW h, Become(r, h)
  PROVE  \A q \in Requests : q = r /\ req'[q] = h
BY DEF OneAtATime, Become, TypeOK

LEMMA SerialDelete ==
  ASSUME IInv, Serial, NEW u \in Users, DeleteAccount(u)
  PROVE  Serial'
<1> USE DEF IInv
<1>1. /\ account' = [account EXCEPT ![u] = "deleted"]
      /\ req' = req /\ condemned' = condemned
      /\ \A t \in Tokens : t \in stored' <=> t \in stored /\ Owner(t) # u
      /\ \A t \in Tokens : t \in used' <=> t \in used /\ Owner(t) # u
      /\ \A t \in Tokens : t \in revoked' <=> t \in revoked /\ Owner(t) # u
      /\ \A t \in Tokens : Owner(t) # u => family'[t] = family[t] /\ parent'[t] = parent[t]
      /\ stored' \subseteq Tokens
  BY DEF DeleteAccount, TypeOK
<1>2. OneSuccessor' /\ ReuseKillsFamily'
  BY <1>1 DEF Serial, OneSuccessor, ReuseKillsFamily, Active, TypeOK
<1>3. \A f \in condemned' : Opened(f)'
  BY <1>1, TokenParts DEF Serial, Opened, TypeOK
<1>4. ASSUME NEW q \in Requests PROVE Alone(req[q])'
  <2>1. PICK h \in Handler : h = req[q]
    BY DEF TypeOK
  <2>2. h = req'[q] /\ Alone(h)
    BY <1>1, <2>1 DEF Serial
  <2>3. Childless(h.token) => Childless(h.token)'
    BY <1>1 DEF Childless, TypeOK
  <2>4. h.pc = "markUsed" => h.user = Owner(h.token) /\ h.token \in Tokens /\ h.user \in Users
    BY <2>1 DEF KnowsItsRow, Handler
  <2>5. h.pc = "markUsed" => Gone(h.user)' \/ Active(h.token)'
    BY <1>1, <2>2, <2>4 DEF Alone, Gone, Active, TypeOK
  <2> QED
    BY <1>1, <2>2, <2>3, <2>5 DEF Alone
<1> QED
  BY <1>2, <1>3, <1>4 DEF Serial

(* A new row: of a family of its own, or in the place of a used token. *)
LEMMA SerialStore ==
  ASSUME IInv, Serial, OneAtATime, NEW r \in Requests,
         NEW t \in Tokens, NEW f \in Tokens, NEW p \in Tokens,
         t = Signed(r), Store(r, t, f, p),
         \/ p = t /\ f = t
         \/ Childless(p) /\ f \notin condemned
  PROVE  Serial'
<1> USE DEF IInv
<1>1. CASE account[req[r].user] = "deleted" \/ t \in stored
  <2>1. PICK as \in {"lost", "failed"} : Throw(r, as)
    BY <1>1 DEF Store
  <2>2. [Blank EXCEPT !.pc = as, !.user = req[r].user].pc = as
    BY DEF Blank
  <2>3. \A q \in Requests : req'[q].pc \notin {"revokeFamily"} \cup InRotation
    BY <2>1, <2>2, OnlySlot DEF Throw, InRotation
  <2> QED
    BY <1>1, <2>3, SerialCalm DEF Store, table, history, Gone
<1>2. CASE ~(account[req[r].user] = "deleted" \/ t \in stored)
  <2>1. /\ stored' = stored \cup {t} /\ family' = [family EXCEPT ![t] = f]
        /\ parent' = [parent EXCEPT ![t] = p]
        /\ Become(r, [req[r] EXCEPT !.pc = "reply", !.token = t])
        /\ UNCHANGED <<account, used, revoked, condemned>>
    BY <1>2 DEF Store
  <2>2. \A x \in stored : x # t /\ family'[x] = family[x] /\ parent'[x] = parent[x]
    BY <1>2, <2>1 DEF TypeOK
  <2>3. family'[t] = f /\ parent'[t] = p
    BY <2>1 DEF TypeOK
  <2>4. t \notin condemned
    <3>1. Owner(t) = req[r].user
      BY TokenParts DEF Signed, TypeOK, Handler
    <3> QED
      BY <1>2, <3>1 DEF Serial, Opened
  <2>5. ReuseKillsFamily'
    <3> SUFFICES ASSUME NEW x \in stored', Active(x)' PROVE family'[x] \notin condemned
      BY <2>1 DEF ReuseKillsFamily
    <3>1. CASE x = t
      BY <2>3, <2>4, <3>1
    <3>2. CASE x # t
      BY <2>1, <2>2, <3>2 DEF Serial, ReuseKillsFamily, Active
    <3> QED
      BY <3>1, <3>2
  <2>6. OneSuccessor'
    <3>1. \A x, y \in stored : parent'[x] = parent'[y] /\ parent'[x] # x /\ parent'[y] # y => x = y
      BY <2>2 DEF Serial, OneSuccessor
    <3>2. \A x \in stored : parent'[t] # t /\ parent'[x] = parent'[t] => parent'[x] = x
      BY <2>2, <2>3 DEF Childless
    <3> QED
      BY <2>1, <3>1, <3>2 DEF OneSuccessor
  <2>7. \A x \in condemned' : Opened(x)'
    BY <2>1 DEF Serial, Opened
  <2>8. \A q \in Requests : Alone(req[q])'
    <3>1. PICK h : h = [req[r] EXCEPT !.pc = "reply", !.token = t] /\ Become(r, h)
      BY <2>1
    <3>2. h.pc = "reply"
      BY <3>1 DEF TypeOK, Handler
    <3>3. \A q \in Requests : req'[q].pc = "reply"
      BY <3>1, <3>2, OnlySlot
    <3> QED
      BY <3>3 DEF Alone, InRotation
  <2> QED
    BY <2>5, <2>6, <2>7, <2>8 DEF Serial
<1> QED
  BY <1>1, <1>2

(* What was active has no successor, and its family is not condemned. *)
LEMMA SerialRead ==
  ASSUME IInv, Serial, OneAtATime, NEW r \in Requests, ReadRecord(r)
  PROVE  Serial'
<1> USE DEF IInv
<1>0. UNCHANGED <<clock, account, password, table, held, history>>
  BY DEF ReadRecord
<1>1. CASE Done(r)
  <2>1. \A q \in Requests : req'[q].pc = "idle"
    BY <1>1, OnlySlot DEF Done, Blank
  <2> QED
    BY <1>0, <2>1, SerialCalm DEF table, history, InRotation, Gone
<1>2. CASE ~Done(r)
  <2>1. PICK t \in Tokens : t = req[r].token
    BY DEF TypeOK, Handler
  <2>2. PICK h : /\ h = [req[r] EXCEPT !.pc = Verdict(r), !.user = Owner(t),
                                       !.fam = family[t], !.pw = provedBy[t]]
                 /\ Become(r, h)
    BY <1>2, <2>1 DEF ReadRecord
  <2>3. h.pc = Verdict(r) /\ h.user = Owner(t) /\ h.fam = family[t] /\ h.token = t
    BY <2>1, <2>2 DEF TypeOK, Handler
  <2>4. t \in stored
    BY <1>2, <2>1 DEF ReadRecord
  <2>5. Owner(h.fam) = h.user
    BY <2>3, <2>4 DEF Lineage
  <2>6. Verdict(r) \in InRotation => Active(t) /\ Verdict(r) = "markUsed"
    BY <2>1 DEF Verdict, InRotation
  <2>7. Active(t) => Childless(t) /\ h.fam \notin condemned
    <3>1. Active(t) => Childless(t)
      BY DEF Active, Childless, Lineage
    <3>2. Active(t) => h.fam \notin condemned
      BY <2>3, <2>4 DEF Serial, ReuseKillsFamily
    <3> QED
      BY <3>1, <3>2
  <2>8. Alone(h)
    BY <2>3, <2>5, <2>6, <2>7 DEF Alone, InRotation
  <2>9. Alone(h)'
    BY <1>0, <2>8 DEF Alone, Gone, Active, Childless, table, history
  <2>10. \A q \in Requests : Alone(req[q])'
    BY <2>2, <2>9, OnlySlot
  <2>11. OneSuccessor' /\ ReuseKillsFamily' /\ \A f \in condemned' : Opened(f)'
    BY <1>0 DEF Serial, OneSuccessor, ReuseKillsFamily, Active, Opened, table, history
  <2> QED
    BY <2>10, <2>11 DEF Serial
<1> QED
  BY <1>1, <1>2

LEMMA SerialCondemn ==
  ASSUME IInv, Serial, OneAtATime, NEW r \in Requests, RevokeFamily(r)
  PROVE  Serial'
<1> USE DEF IInv
<1>1. PICK f \in Tokens : f = req[r].fam
  BY DEF TypeOK, Handler
<1>2. /\ revoked' = revoked \cup ActiveIn(FamilyOf(f)) /\ condemned' = condemned \cup {f}
      /\ Done(r) /\ UNCHANGED <<account, stored, used, family, parent>>
      /\ req[r].pc = "revokeFamily"
  BY <1>1 DEF RevokeFamily
<1>3. \A q \in Requests : Alone(req[q])'
  BY <1>2, OnlySlot DEF Done, Blank, Alone, InRotation
<1>4. Opened(f)
  BY <1>1, <1>2 DEF Serial, Alone, KnowsItsRow, Lineage, Opened
<1>5. \A x \in condemned' : Opened(x)'
  BY <1>2, <1>4 DEF Serial, Opened
<1>6. ReuseKillsFamily'
  <2> SUFFICES ASSUME NEW x \in stored, Active(x)' PROVE family[x] \notin condemned'
    BY <1>2 DEF ReuseKillsFamily
  <2>1. Active(x) /\ x \notin ActiveIn(FamilyOf(f))
    BY <1>2 DEF Active
  <2> QED
    BY <1>2, <2>1 DEF Serial, ReuseKillsFamily, ActiveIn, FamilyOf
<1>7. OneSuccessor'
  BY <1>2 DEF Serial, OneSuccessor
<1> QED
  BY <1>3, <1>5, <1>6, <1>7 DEF Serial

LEMMA SerialMark ==
  ASSUME IInv, Serial, OneAtATime, NEW r \in Requests, MarkUsed(r)
  PROVE  Serial'
<1> USE DEF IInv
<1>0. UNCHANGED <<account, stored, revoked, family, parent, condemned>> /\ req[r].pc = "markUsed"
  BY DEF MarkUsed
<1>1. CASE Failed(r) /\ used' = used
  <2>1. [Blank EXCEPT !.pc = "failed", !.user = req[r].user].pc = "failed"
    BY DEF Blank
  <2>2. \A q \in Requests : req'[q].pc = "failed"
    BY <1>1, <2>1, OnlySlot DEF Failed, Throw
  <2> QED
    BY <1>0, <1>1, <2>2, SerialCalm DEF InRotation, Gone
<1>2. CASE Goto(r, "lookup") /\ used' = used \cup {req[r].token}
  <2>1. PICK h : h = [req[r] EXCEPT !.pc = "lookup"] /\ Become(r, h)
    BY <1>2 DEF Goto
  <2>2. h.pc = "lookup" /\ h.fam = req[r].fam /\ h.token = req[r].token /\ h.user = req[r].user
    BY <2>1 DEF TypeOK, Handler
  <2>3. Alone(h)'
    BY <1>0, <2>2 DEF Serial, Alone, Childless, InRotation
  <2>4. \A q \in Requests : Alone(req[q])'
    BY <2>1, <2>3, OnlySlot
  <2>5. OneSuccessor' /\ ReuseKillsFamily' /\ \A f \in condemned' : Opened(f)'
    BY <1>0, <1>2 DEF Serial, OneSuccessor, ReuseKillsFamily, Active, Opened
  <2> QED
    BY <2>4, <2>5 DEF Serial
<1> QED
  BY <1>1, <1>2 DEF MarkUsed

LEMMA SerialLookup ==
  ASSUME IInv, Serial, OneAtATime, NEW r \in Requests, LookupUser(r)
  PROVE  Serial'
<1> USE DEF IInv
<1>0. UNCHANGED <<account, table, history>> /\ req[r].pc = "lookup"
  BY DEF LookupUser
<1>1. CASE Done(r)
  <2>1. \A q \in Requests : req'[q].pc = "idle"
    BY <1>1, OnlySlot DEF Done, Blank
  <2> QED
    BY <1>0, <2>1, SerialCalm DEF table, history, InRotation, Gone
<1>2. CASE Goto(r, "rotate")
  <2>1. PICK h : h = [req[r] EXCEPT !.pc = "rotate"] /\ Become(r, h)
    BY <1>2 DEF Goto
  <2>2. h.pc = "rotate" /\ h.fam = req[r].fam /\ h.token = req[r].token /\ h.user = req[r].user
    BY <2>1 DEF TypeOK, Handler
  <2>3. Alone(h)'
    BY <1>0, <2>2 DEF Serial, Alone, Childless, InRotation, table, history
  <2>4. \A q \in Requests : Alone(req[q])'
    BY <2>1, <2>3, OnlySlot
  <2>5. OneSuccessor' /\ ReuseKillsFamily' /\ \A f \in condemned' : Opened(f)'
    BY <1>0 DEF Serial, OneSuccessor, ReuseKillsFamily, Active, Opened, table, history
  <2> QED
    BY <2>4, <2>5 DEF Serial
<1> QED
  BY <1>1, <1>2 DEF LookupUser

LEMMA SerialHandle ==
  ASSUME IInv, Serial, OneAtATime, NEW r \in Requests, Handle(r)
  PROVE  Serial'
<1> USE DEF IInv
<1>0. /\ req[r].token \in Tokens /\ req[r].fam \in Tokens /\ Signed(r) \in Tokens
      /\ Blank.pc = "idle" /\ [Blank EXCEPT !.pc = "failed", !.user = req[r].user].pc = "failed"
      /\ \A pc : [req[r] EXCEPT !.pc = pc].pc = pc
  BY TokenParts DEF TypeOK, Handler, Signed, Blank
<1>1. CASE Open(r)
  BY <1>0, <1>1, SerialStore DEF Open
<1>2. CASE Rotate(r)
  <2>1. Childless(req[r].token) /\ req[r].fam \notin condemned
    BY <1>2 DEF Rotate, Serial, Alone, InRotation
  <2> QED
    BY <1>0, <1>2, <2>1, SerialStore DEF Rotate
<1>3. ASSUME NEW h, Become(r, h), h.pc \in {"idle", "failed", "revokeAll"},
             UNCHANGED <<account, stored, used, family, parent, condemned>>,
             revoked \subseteq revoked'
      PROVE  Serial'
  <2>1. \A q \in Requests : req'[q].pc \notin {"revokeFamily"} \cup InRotation
    BY <1>3, OnlySlot DEF InRotation
  <2> QED
    BY <1>3, <2>1, SerialCalm DEF Gone
<1>4. CASE Reply(r) \/ RevokeToken(r) \/ SetPassword(r) \/ RevokeAll(r)
  BY <1>0, <1>3, <1>4
  DEF Reply, RevokeToken, SetPassword, RevokeAll, Done, Goto, Failed, Throw, table, history
<1> QED
  BY <1>1, <1>2, <1>4, SerialRead, SerialCondemn, SerialMark, SerialLookup DEF Handle

LEMMA SerialStep == OneAtATime /\ IInv /\ Serial /\ [Next]_vars => Serial'
<1> SUFFICES ASSUME OneAtATime, IInv, Serial, [Next]_vars PROVE Serial'
  OBVIOUS
<1> USE DEF IInv
<1>1. ASSUME NEW r \in Requests, NEW h, Become(r, h), h.pc \in {"idle", "open", "read", "setPassword"},
             UNCHANGED <<account, table, history>>
      PROVE  Serial'
  <2>1. \A q \in Requests : req'[q].pc \notin {"revokeFamily"} \cup InRotation
    BY <1>1, OnlySlot DEF InRotation
  <2> QED
    BY <1>1, <2>1, SerialCalm DEF Gone, table, history
<1>2. ASSUME NEW r \in Requests, Crash(r) PROVE Serial'
  BY <1>1, <1>2 DEF Crash, Done, Blank
<1>3. ASSUME NEW r \in Requests, NEW u \in Users, NEW ip \in Addresses, StartLogin(r, u, ip)
      PROVE  Serial'
  <2>1. [req[r] EXCEPT !.pc = "open", !.user = u, !.ip = ip, !.pw = password[u]].pc = "open"
    BY DEF TypeOK, Handler
  <2> QED
    BY <1>1, <1>3, <2>1 DEF StartLogin
<1>4. ASSUME NEW r \in Requests, NEW t \in Tokens, NEW ip \in Addresses, StartRefresh(r, t, ip)
      PROVE  Serial'
  <2>1. [req[r] EXCEPT !.pc = "read", !.token = t, !.ip = ip].pc = "read"
    BY DEF TypeOK, Handler
  <2> QED
    BY <1>1, <1>4, <2>1 DEF StartRefresh
<1>5. ASSUME NEW r \in Requests, NEW u \in Users, StartReset(r, u) PROVE Serial'
  <2>1. [req[r] EXCEPT !.pc = "setPassword", !.user = u].pc = "setPassword"
    BY DEF TypeOK, Handler
  <2> QED
    BY <1>1, <1>5, <2>1 DEF StartReset
<1>6. ASSUME NEW r \in Requests, NEW t \in Tokens, Logout(r, t) PROVE Serial'
  <2>1. \A q \in Requests : q = r
    BY DEF OneAtATime
  <2>2. \A q \in Requests : req'[q].pc \notin {"revokeFamily"} \cup InRotation
    BY <1>6, <2>1 DEF Logout, Resting, InRotation
  <2> QED
    BY <1>6, <2>2, SerialCalm DEF Logout, history, Gone
<1>7. ASSUME NEW u \in Users, NEW a, SetActive(u, a) PROVE Serial'
  BY <1>7, SerialStill DEF SetActive, table, history, Gone, TypeOK
<1>8. CASE Tick \/ UNCHANGED vars
  BY <1>8, SerialStill DEF Tick, vars, table, history, Gone
<1> QED
  BY <1>2, <1>3, <1>4, <1>5, <1>6, <1>7, <1>8, SerialHandle, SerialDelete DEF Next

LEMMA SerialAlways == ASSUME OneAtATime PROVE Spec => []Serial
<1>1. Init => Serial
  BY DEF Init, Serial, OneSuccessor, ReuseKillsFamily, Alone, Blank, InRotation
<1>2. IInv /\ Serial /\ [Next]_vars => Serial'
  BY SerialStep
<1> QED
  BY <1>1, <1>2, Invariance, PTL DEF Spec

(* One request at a time, a rotated token has one successor, *)
THEOREM RotationIsSingle == ASSUME OneAtATime PROVE Spec => []OneSuccessor
<1>1. Serial => OneSuccessor
  BY DEF Serial
<1> QED
  BY <1>1, SerialAlways, PTL

(* and the reuse of a token ends every session of its family. *)
THEOREM ReuseIsFatal == ASSUME OneAtATime PROVE Spec => []ReuseKillsFamily
<1>1. Serial => ReuseKillsFamily
  BY DEF Serial
<1> QED
  BY <1>1, SerialAlways, PTL

-----------------------------------------------------------------------------
(* The session a request hands on was opened with the current password.    *)
Proven(h) == h.pc \in {"open"} \cup InRotation => h.pw = password[h.user]

Fresh == ResetEndsSessions /\ \A r \in Requests : Proven(req[r])

(* No token becomes active and the handler stays where it is. *)
LEMMA FreshStill ==
  ASSUME IInv, Fresh, UNCHANGED <<req, password, provedBy>>,
         \A t \in stored' : t \in stored /\ (Active(t)' => Active(t))
  PROVE  Fresh'
BY DEF Fresh, ResetEndsSessions, Proven

(* No token becomes active and no reset was half done. *)
LEMMA FreshCalm ==
  ASSUME IInv, Fresh, OneAtATime, UNCHANGED <<password, provedBy>>,
         NEW r \in Requests, req[r].pc # "revokeAll", NEW h, Become(r, h), Proven(h)',
         \A t \in stored' : t \in stored /\ (Active(t)' => Active(t))
  PROVE  Fresh'
<1>1. ResetEndsSessions'
  BY DEF Fresh, ResetEndsSessions, OneAtATime
<1>2. \A q \in Requests : Proven(req[q])'
  BY OnlySlot DEF IInv, Proven
<1> QED
  BY <1>1, <1>2 DEF Fresh

(* ... because its handler moved on to a state that claims nothing. *)
LEMMA FreshRest ==
  ASSUME IInv, Fresh, OneAtATime, UNCHANGED <<password, provedBy, stored>>,
         used \subseteq used', revoked \subseteq revoked',
         NEW r \in Requests, req[r].pc # "revokeAll",
         NEW h, Become(r, h), h.pc \notin {"open"} \cup InRotation
  PROVE  Fresh'
<1>1. Proven(h)'
  BY DEF Proven
<1>2. \A t \in stored' : t \in stored /\ (Active(t)' => Active(t))
  BY DEF Active
<1> QED
  BY <1>1, <1>2, FreshCalm

LEMMA FreshStore ==
  ASSUME IInv, Fresh, OneAtATime, NEW r \in Requests, req[r].pc \in {"open", "rotate"},
         NEW t \in Tokens, NEW f, NEW p, t = Signed(r), Store(r, t, f, p)
  PROVE  Fresh'
<1> USE DEF IInv
<1>1. CASE account[req[r].user] = "deleted" \/ t \in stored
  <2>1. PICK as \in {"lost", "failed"} : Throw(r, as)
    BY <1>1 DEF Store
  <2>2. PICK h : h = [Blank EXCEPT !.pc = as, !.user = req[r].user] /\ Become(r, h)
    BY <2>1 DEF Throw
  <2>3. h.pc = as
    BY <2>2 DEF Blank
  <2> QED
    BY <1>1, <2>2, <2>3, FreshRest DEF Store, table, history, InRotation
<1>2. CASE ~(account[req[r].user] = "deleted" \/ t \in stored)
  <2>1. PICK h : h = [req[r] EXCEPT !.pc = "reply", !.token = t] /\ Become(r, h)
    BY <1>2 DEF Store
  <2>2. h.pc = "reply"
    BY <2>1 DEF TypeOK, Handler
  <2>3. /\ stored' = stored \cup {t} /\ provedBy' = [provedBy EXCEPT ![t] = req[r].pw]
        /\ UNCHANGED <<password, used, revoked>>
    BY <1>2 DEF Store
  <2>4. Owner(t) = req[r].user /\ req[r].pw = password[req[r].user]
    BY TokenParts DEF Signed, Fresh, Proven, InRotation, TypeOK, Handler
  <2>5. \A q \in Requests : Proven(req[q])'
    <3>1. \A q \in Requests : req'[q].pc = "reply"
      BY <2>1, <2>2, OnlySlot
    <3> QED
      BY <3>1 DEF Proven, InRotation
  <2>6. ResetEndsSessions'
    <3> SUFFICES ASSUME NEW s \in stored', Active(s)' PROVE provedBy'[s] = password'[Owner(s)]
      BY DEF ResetEndsSessions
    <3>1. CASE s = t
      BY <2>3, <2>4, <3>1 DEF TypeOK
    <3>2. CASE s # t
      <4>1. s \in stored /\ Active(s) /\ provedBy'[s] = provedBy[s]
        BY <2>3, <3>2 DEF Active, TypeOK
      <4> QED
        BY <2>3, <4>1 DEF Fresh, ResetEndsSessions, OneAtATime
    <3> QED
      BY <3>1, <3>2
  <2> QED
    BY <2>5, <2>6 DEF Fresh
<1> QED
  BY <1>1, <1>2

LEMMA FreshRead ==
  ASSUME IInv, Fresh, OneAtATime, NEW r \in Requests, ReadRecord(r)
  PROVE  Fresh'
<1> USE DEF IInv
<1>0. UNCHANGED <<clock, account, password, table, held, history>> /\ req[r].pc = "read"
  BY DEF ReadRecord
<1>1. CASE Done(r)
  BY <1>0, <1>1, FreshRest DEF Done, Blank, table, history, InRotation
<1>2. CASE ~Done(r)
  <2>1. PICK t \in Tokens : t = req[r].token
    BY DEF TypeOK, Handler
  <2>2. PICK h : /\ h = [req[r] EXCEPT !.pc = Verdict(r), !.user = Owner(t),
                                       !.fam = family[t], !.pw = provedBy[t]]
                 /\ Become(r, h)
    BY <1>2, <2>1 DEF ReadRecord
  <2>3. h.pc = Verdict(r) /\ h.user = Owner(t) /\ h.pw = provedBy[t]
    BY <2>1, <2>2 DEF TypeOK, Handler
  <2>4. t \in stored
    BY <1>2, <2>1 DEF ReadRecord
  <2>5. Verdict(r) \in {"open"} \cup InRotation => Active(t)
    BY <2>1 DEF Verdict, InRotation
  <2>6. Active(t) => provedBy[t] = password[Owner(t)]
    BY <1>0, <2>4 DEF Fresh, ResetEndsSessions, OneAtATime
  <2>7. Proven(h)'
    BY <1>0, <2>3, <2>5, <2>6 DEF Proven
  <2> QED
    BY <1>0, <2>2, <2>7, FreshCalm DEF table, history, Active
<1> QED
  BY <1>1, <1>2

LEMMA FreshSetPassword ==
  ASSUME IInv, Fresh, OneAtATime, NEW r \in Requests, SetPassword(r)
  PROVE  Fresh'
<1> USE DEF IInv
<1>0. req[r].pc = "setPassword" /\ UNCHANGED <<table, history>>
  BY DEF SetPassword
<1>1. CASE Failed(r) /\ password' = password
  <2>1. PICK h : h = [Blank EXCEPT !.pc = "failed", !.user = req[r].user] /\ Become(r, h)
    BY <1>1 DEF Failed, Throw
  <2>2. h.pc = "failed"
    BY <2>1 DEF Blank
  <2> QED
    BY <1>0, <1>1, <2>1, <2>2, FreshRest DEF table, history, InRotation
<1>2. CASE Goto(r, "revokeAll")
           /\ \A u \in Users : u # req[r].user => password'[u] = password[u]
  <2>1. PICK h : h = [req[r] EXCEPT !.pc = "revokeAll"] /\ Become(r, h)
    BY <1>2 DEF Goto
  <2>2. h.pc = "revokeAll" /\ h.user = req[r].user
    BY <2>1 DEF TypeOK, Handler
  <2>3. \A q \in Requests : Proven(req[q])'
    <3>1. \A q \in Requests : req'[q].pc = "revokeAll"
      BY <2>1, <2>2, OnlySlot
    <3> QED
      BY <3>1 DEF Proven, InRotation
  <2>4. req'[r] = h
    BY <2>1, OnlySlot
  <2>5. ResetEndsSessions'
    <3> SUFFICES ASSUME NEW t \in stored', Active(t)', Owner(t) # req[r].user
                 PROVE  provedBy'[t] = password'[Owner(t)]
      BY <2>2, <2>4 DEF ResetEndsSessions
    <3>1. t \in stored /\ Active(t) /\ Owner(t) \in Users
      BY <1>0, TokenParts DEF table, Active, TypeOK
    <3>2. provedBy[t] = password[Owner(t)]
      BY <1>0, <3>1 DEF Fresh, ResetEndsSessions, OneAtATime
    <3> QED
      BY <1>0, <1>2, <3>1, <3>2 DEF history
  <2> QED
    BY <2>3, <2>5 DEF Fresh
<1>3. Goto(r, "revokeAll") => \A u \in Users : u # req[r].user => password'[u] = password[u]
  BY DEF SetPassword, TypeOK
<1>4. (Failed(r) /\ password' = password) \/ Goto(r, "revokeAll")
  BY DEF SetPassword
<1> QED
  BY <1>1, <1>2, <1>3, <1>4

LEMMA FreshRevokeAll ==
  ASSUME IInv, Fresh, OneAtATime, NEW r \in Requests, RevokeAll(r)
  PROVE  Fresh'
<1> USE DEF IInv
<1>1. /\ revoked' = revoked \cup ActiveIn({t \in stored : Owner(t) = req[r].user})
      /\ Done(r) /\ UNCHANGED <<password, stored, used, provedBy>>
  BY DEF RevokeAll, history
<1>2. \A q \in Requests : Proven(req[q])'
  BY <1>1, OnlySlot DEF Done, Blank, Proven, InRotation
<1>3. ResetEndsSessions'
  <2> SUFFICES ASSUME NEW t \in stored', Active(t)' PROVE provedBy'[t] = password'[Owner(t)]
    BY DEF ResetEndsSessions
  <2>1. t \in stored /\ Active(t) /\ Owner(t) # req[r].user
    BY <1>1 DEF Active, ActiveIn
  <2>2. provedBy[t] = password[Owner(t)]
    BY <2>1 DEF Fresh, ResetEndsSessions, OneAtATime
  <2> QED
    BY <1>1, <2>2
<1> QED
  BY <1>2, <1>3 DEF Fresh

LEMMA FreshHandle ==
  ASSUME IInv, Fresh, OneAtATime, NEW r \in Requests, Handle(r)
  PROVE  Fresh'
<1> USE DEF IInv
<1>0. /\ Signed(r) \in Tokens /\ Blank.pc = "idle"
      /\ [Blank EXCEPT !.pc = "failed", !.user = req[r].user].pc = "failed"
  BY TokenParts DEF TypeOK, Handler, Signed, Blank
<1>1. CASE Open(r) \/ Rotate(r)
  BY <1>0, <1>1, FreshStore DEF Open, Rotate
<1>2. ASSUME NEW h, Become(r, h), h.pc \in {"idle", "failed"}, req[r].pc # "revokeAll",
             UNCHANGED <<password, provedBy, stored>>, used \subseteq used', revoked \subseteq revoked'
      PROVE  Fresh'
  BY <1>2, FreshRest DEF InRotation
<1>3. CASE Reply(r) \/ RevokeFamily(r) \/ RevokeToken(r)
  BY <1>0, <1>2, <1>3
  DEF Reply, RevokeFamily, RevokeToken, Done, Failed, Throw, table, history
<1>4. ASSUME NEW step \in {"lookup", "rotate"}, Goto(r, step), req[r].pc \in {"markUsed", "lookup"},
             UNCHANGED <<password, provedBy, stored>>, used \subseteq used', revoked \subseteq revoked'
      PROVE  Fresh'
  <2>1. PICK h : h = [req[r] EXCEPT !.pc = step] /\ Become(r, h)
    BY <1>4 DEF Goto
  <2>2. h.pw = req[r].pw /\ h.user = req[r].user /\ h.pc = step
    BY <2>1 DEF TypeOK, Handler
  <2>3. Proven(h)'
    BY <1>4, <2>2 DEF Proven, Fresh, InRotation
  <2> QED
    BY <1>4, <2>1, <2>3, FreshCalm DEF Active
<1>5. CASE MarkUsed(r)
  BY <1>0, <1>2, <1>4, <1>5 DEF MarkUsed, Failed, Throw
<1>6. CASE LookupUser(r)
  BY <1>0, <1>2, <1>4, <1>6 DEF LookupUser, Done, table, history
<1> QED
  BY <1>1, <1>3, <1>5, <1>6, FreshRead, FreshSetPassword, FreshRevokeAll DEF Handle

LEMMA FreshStep == OneAtATime /\ ~MayCrash /\ IInv /\ Fresh /\ [Next]_vars => Fresh'
<1> SUFFICES ASSUME OneAtATime, ~MayCrash, IInv, Fresh, [Next]_vars PROVE Fresh'
  OBVIOUS
<1> USE DEF IInv
<1>1. ASSUME NEW r \in Requests, NEW u \in Users, NEW ip \in Addresses, StartLogin(r, u, ip)
      PROVE  Fresh'
  <2>1. PICK h : /\ h = [req[r] EXCEPT !.pc = "open", !.user = u, !.ip = ip, !.pw = password[u]]
                 /\ Become(r, h)
    BY <1>1 DEF StartLogin
  <2>2. h.user = u /\ h.pw = password[u]
    BY <2>1 DEF TypeOK, Handler
  <2>3. Proven(h)'
    BY <1>1, <2>2 DEF StartLogin, Proven
  <2> QED
    BY <1>1, <2>1, <2>3, FreshCalm DEF StartLogin, Resting, table, history, Active
<1>2. ASSUME NEW r \in Requests, NEW t \in Tokens, NEW ip \in Addresses, StartRefresh(r, t, ip)
      PROVE  Fresh'
  <2>1. PICK h : h = [req[r] EXCEPT !.pc = "read", !.token = t, !.ip = ip] /\ Become(r, h)
    BY <1>2 DEF StartRefresh
  <2>2. h.pc = "read"
    BY <2>1 DEF TypeOK, Handler
  <2> QED
    BY <1>2, <2>1, <2>2, FreshRest DEF StartRefresh, Resting, table, history, InRotation
<1>3. ASSUME NEW r \in Requests, NEW u \in Users, StartReset(r, u) PROVE Fresh'
  <2>1. PICK h : h = [req[r] EXCEPT !.pc = "setPassword", !.user = u] /\ Become(r, h)
    BY <1>3 DEF StartReset
  <2>2. h.pc = "setPassword"
    BY <2>1 DEF TypeOK, Handler
  <2> QED
    BY <1>3, <2>1, <2>2, FreshRest DEF StartReset, Resting, table, history, InRotation
<1>4. ASSUME NEW r \in Requests, NEW t \in Tokens, Logout(r, t) PROVE Fresh'
  BY <1>4, FreshStill DEF Logout, history, Active
<1>5. ASSUME NEW u \in Users, DeleteAccount(u) PROVE Fresh'
  <2>1. \A t \in stored' : t \in stored /\ (Active(t)' => Active(t))
    BY <1>5 DEF DeleteAccount, Active, TypeOK
  <2> QED
    BY <1>5, <2>1, FreshStill DEF DeleteAccount
<1>6. ASSUME NEW u \in Users, NEW a, SetActive(u, a) PROVE Fresh'
  BY <1>6, FreshStill DEF SetActive, table, history, Active
<1>7. CASE Tick \/ UNCHANGED vars
  BY <1>7, FreshStill DEF Tick, vars, table, history, Active
<1> QED
  BY <1>1, <1>2, <1>3, <1>4, <1>5, <1>6, <1>7, FreshHandle DEF Next, Crash

(* One request at a time, and none that dies, a password reset ends every  *)
(* session opened with an older password. *)
THEOREM ResetEnds == ASSUME OneAtATime, ~MayCrash PROVE Spec => []ResetEndsSessions
<1>1. Init => Fresh
  BY DEF Init, Fresh, ResetEndsSessions, Proven, Blank, InRotation
<1>2. IInv /\ Fresh /\ [Next]_vars => Fresh'
  BY FreshStep
<1>3. Fresh => ResetEndsSessions
  BY DEF Fresh
<1> QED
  BY <1>1, <1>2, <1>3, Invariance, PTL DEF Spec

-----------------------------------------------------------------------------
(* How often one token is accepted when requests overlap. *)
Spent(t) == t \in used \/ account[Owner(t)] = "deleted"

Bounded(t) ==
  /\ grants[t] + Cardinality(PendingMarks(t)) <= Cardinality(Requests)
  /\ grants[t] > 0 => Spent(t)

LEMMA MarksFinite ==
  ASSUME NEW t
  PROVE  /\ IsFiniteSet(PendingMarks(t)) /\ Cardinality(PendingMarks(t)) \in Nat
         /\ IsFiniteSet(PendingMarks(t)') /\ Cardinality(PendingMarks(t)') \in Nat
         /\ Cardinality(PendingMarks(t)') <= Cardinality(Requests)
         /\ Cardinality(Requests) \in Nat
<1>1. PendingMarks(t) \subseteq Requests /\ PendingMarks(t)' \subseteq Requests
  BY DEF PendingMarks
<1> QED
  BY <1>1, ConstantsAssumption, FS_Subset, FS_CardinalityType

(* Only reading an active token makes a request intend to mark it. *)
LEMMA MarksFewer ==
  ASSUME TypeOK, NEW r \in Requests, NEW h, Become(r, h), NEW t,
         ~(h.pc = "markUsed" /\ h.token = t)
  PROVE  PendingMarks(t)' = PendingMarks(t) \ {r}
BY DEF PendingMarks, Become, TypeOK

LEMMA BoundKept ==
  ASSUME IInv, NEW t \in Tokens, Bounded(t), PendingMarks(t)' \subseteq PendingMarks(t),
         grants'[t] = grants[t], Spent(t) => Spent(t)'
  PROVE  Bounded(t)'
<1>1. Cardinality(PendingMarks(t)') <= Cardinality(PendingMarks(t))
  BY MarksFinite, FS_Subset
<1>2. grants[t] \in Nat
  BY DEF IInv, TypeOK
<1> QED
  BY <1>1, <1>2, MarksFinite DEF Bounded

LEMMA SpentKept ==
  ASSUME IInv, NEW t \in Tokens, Next, Spent(t)
  PROVE  Spent(t)'
<1>1. ASSUME NEW u \in Users, DeleteAccount(u) PROVE Spent(t)'
  BY <1>1, TokenParts DEF DeleteAccount, Spent, IInv, TypeOK
<1>2. ASSUME NEW u \in Users, NEW a, SetActive(u, a) PROVE Spent(t)'
  BY <1>2, TokenParts DEF SetActive, Spent, table, IInv, TypeOK
<1>3. ASSUME NEW r \in Requests, Handle(r) PROVE Spent(t)'
  BY <1>3 DEF Spent, Handle, Open, Rotate, Store, Reply, ReadRecord, RevokeFamily, RevokeToken,
              MarkUsed, LookupUser, SetPassword, RevokeAll, table
<1> QED
  BY <1>1, <1>2, <1>3
  DEF Next, Spent, Crash, StartLogin, StartRefresh, Logout, StartReset, Tick, table

LEMMA BoundRead ==
  ASSUME IInv, NEW r \in Requests, ReadRecord(r), NEW t \in Tokens, Bounded(t)
  PROVE  Bounded(t)'
<1> USE DEF IInv
<1>0. /\ UNCHANGED <<account, table, history>>
      /\ Spent(t) => Spent(t)'
  BY DEF ReadRecord, Spent, table
<1>1. CASE Done(r)
  BY <1>0, <1>1, MarksFewer, BoundKept DEF Done, Blank, history
<1>2. CASE ~Done(r)
  <2>1. PICK x \in Tokens : x = req[r].token
    BY DEF TypeOK, Handler
  <2>2. PICK h : /\ h = [req[r] EXCEPT !.pc = Verdict(r), !.user = Owner(x),
                                       !.fam = family[x], !.pw = provedBy[x]]
                 /\ Become(r, h)
    BY <1>2, <2>1 DEF ReadRecord
  <2>3. h.pc = Verdict(r) /\ h.token = x
    BY <2>1, <2>2 DEF TypeOK, Handler
  <2>4. CASE ~(h.pc = "markUsed" /\ h.token = t)
    <3>1. PendingMarks(t)' \subseteq PendingMarks(t)
      <4>1. TypeOK /\ Become(r, h)
        BY <2>2
      <4>2. PendingMarks(t)' = PendingMarks(t) \ {r}
        BY <2>4, <4>1, MarksFewer
      <4> QED
        BY <4>2
    <3> QED
      BY <1>0, <3>1, BoundKept DEF history
  <2>5. CASE h.pc = "markUsed" /\ h.token = t
    <3>1. Active(t)
      BY <2>1, <2>3, <2>5 DEF Verdict
    <3>2. ~Spent(t)
      BY <3>1 DEF Active, RowsAreLive, Spent
    <3>3. grants[t] = 0
      BY <3>2 DEF Bounded, TypeOK
    <3>4. grants'[t] = 0
      BY <1>0, <3>3 DEF history
    <3> QED
      BY <3>4, MarksFinite DEF Bounded
  <2> QED
    BY <2>4, <2>5
<1> QED
  BY <1>1, <1>2

LEMMA BoundMark ==
  ASSUME IInv, NEW r \in Requests, MarkUsed(r), NEW t \in Tokens, Bounded(t)
  PROVE  Bounded(t)'
<1> USE DEF IInv
<1>0. req[r].pc = "markUsed" /\ account' = account
  BY DEF MarkUsed
<1>1. CASE Failed(r) /\ UNCHANGED <<used, grants>>
  <2>1. PICK h : h = [Blank EXCEPT !.pc = "failed", !.user = req[r].user] /\ Become(r, h)
    BY <1>1 DEF Failed, Throw
  <2>2. h.pc = "failed"
    BY <2>1 DEF Blank
  <2> QED
    BY <1>0, <1>1, <2>1, <2>2, MarksFewer, BoundKept DEF Spent
<1>2. ASSUME NEW x \in Tokens, x = req[r].token, Goto(r, "lookup"), used' = used \cup {x},
             grants' = [grants EXCEPT ![x] = @ + 1]
      PROVE  Bounded(t)'
  <2>1. PICK h : h = [req[r] EXCEPT !.pc = "lookup"] /\ Become(r, h)
    BY <1>2 DEF Goto
  <2>2. h.pc = "lookup"
    BY <2>1 DEF TypeOK, Handler
  <2>3. PendingMarks(t)' = PendingMarks(t) \ {r}
    BY <2>1, <2>2, MarksFewer
  <2>4. CASE t # x
    BY <1>0, <1>2, <2>3, <2>4, BoundKept DEF Spent, TypeOK
  <2>5. CASE t = x
    <3>1. r \in PendingMarks(t)
      BY <1>0, <1>2, <2>5 DEF PendingMarks
    <3>2. Cardinality(PendingMarks(t)') = Cardinality(PendingMarks(t)) - 1
      BY <2>3, <3>1, MarksFinite, FS_RemoveElement
    <3>3. grants'[t] = grants[t] + 1 /\ grants[t] \in Nat /\ Spent(t)'
      BY <1>2, <2>5 DEF TypeOK, Spent
    <3> QED
      BY <3>2, <3>3, MarksFinite DEF Bounded
  <2> QED
    BY <2>4, <2>5
<1>3. req[r].token \in Tokens
  BY DEF TypeOK, Handler
<1> QED
  BY <1>1, <1>2, <1>3 DEF MarkUsed

(* A handler that moves on to anything else. *)
LEMMA BoundMove ==
  ASSUME IInv, NEW r \in Requests, NEW h, Become(r, h), h.pc # "markUsed", grants' = grants,
         NEW t \in Tokens, Bounded(t), Spent(t) => Spent(t)'
  PROVE  Bounded(t)'
BY MarksFewer, BoundKept DEF IInv

LEMMA BoundHandle ==
  ASSUME IInv, Next, NEW r \in Requests, Handle(r), NEW t \in Tokens, Bounded(t)
  PROVE  Bounded(t)'
<1> USE DEF IInv
<1>0. /\ Spent(t) => Spent(t)'
      /\ Blank.pc = "idle"
      /\ \A as : [Blank EXCEPT !.pc = as, !.user = req[r].user].pc = as
      /\ \A step : [req[r] EXCEPT !.pc = step].pc = step
      /\ \A x : [req[r] EXCEPT !.pc = "reply", !.token = x].pc = "reply"
  BY SpentKept DEF Blank, TypeOK, Handler
<1>1. ASSUME NEW x, NEW f, NEW p, Store(r, x, f, p) PROVE Bounded(t)'
  <2>1. grants' = grants
    BY <1>1 DEF Store, history
  <2>2. \/ \E as \in {"lost", "failed"} : Throw(r, as)
        \/ Become(r, [req[r] EXCEPT !.pc = "reply", !.token = x])
    BY <1>1 DEF Store
  <2> QED
    BY <1>0, <2>1, <2>2, BoundMove DEF Throw
<1>2. CASE Open(r) \/ Rotate(r)
  BY <1>1, <1>2 DEF Open, Rotate
<1>3. CASE Reply(r) \/ RevokeFamily(r) \/ RevokeToken(r) \/ RevokeAll(r) \/ LookupUser(r)
             \/ SetPassword(r)
  <2>1. grants' = grants
    BY <1>3 DEF Reply, RevokeFamily, RevokeToken, RevokeAll, LookupUser, SetPassword, history
  <2>2. Done(r) \/ Failed(r) \/ Goto(r, "rotate") \/ Goto(r, "revokeAll")
    BY <1>3 DEF Reply, RevokeFamily, RevokeToken, RevokeAll, LookupUser, SetPassword
  <2>3. PICK h : h.pc # "markUsed" /\ Become(r, h)
    BY <1>0, <2>2 DEF Done, Failed, Throw, Goto
  <2> QED
    BY <1>0, <2>1, <2>3, BoundMove
<1> QED
  BY <1>2, <1>3, BoundRead, BoundMark DEF Handle

LEMMA BoundStep ==
  ASSUME IInv, [Next]_vars, NEW t \in Tokens, Bounded(t)
  PROVE  Bounded(t)'
<1> USE DEF IInv
<1>1. CASE UNCHANGED vars
  BY <1>1 DEF vars, history, table, Bounded, Spent, PendingMarks
<1>2. CASE Next
  <2>0. Spent(t) => Spent(t)'
    BY <1>2, SpentKept
  <2>1. ASSUME NEW r \in Requests, NEW h, Become(r, h), h.pc # "markUsed", grants' = grants
        PROVE  Bounded(t)'
    BY <2>0, <2>1, BoundMove
  <2>2. ASSUME grants' = grants, req' = req PROVE Bounded(t)'
    <3>1. PendingMarks(t)' = PendingMarks(t)
      BY <2>2 DEF PendingMarks
    <3> QED
      BY <2>0, <2>2, <3>1, BoundKept
  <2>3. ASSUME NEW r \in Requests, Crash(r) PROVE Bounded(t)'
    BY <2>1, <2>3 DEF Crash, Done, Blank, history
  <2>4. ASSUME NEW r \in Requests, NEW u \in Users, NEW ip \in Addresses, StartLogin(r, u, ip)
        PROVE  Bounded(t)'
    <3>1. [req[r] EXCEPT !.pc = "open", !.user = u, !.ip = ip, !.pw = password[u]].pc = "open"
      BY DEF TypeOK, Handler
    <3> QED
      BY <2>1, <2>4, <3>1 DEF StartLogin, history
  <2>5. ASSUME NEW r \in Requests, NEW x \in Tokens, NEW ip \in Addresses, StartRefresh(r, x, ip)
        PROVE  Bounded(t)'
    <3>1. [req[r] EXCEPT !.pc = "read", !.token = x, !.ip = ip].pc = "read"
      BY DEF TypeOK, Handler
    <3> QED
      BY <2>1, <2>5, <3>1 DEF StartRefresh, history
  <2>6. ASSUME NEW r \in Requests, NEW u \in Users, StartReset(r, u) PROVE Bounded(t)'
    <3>1. [req[r] EXCEPT !.pc = "setPassword", !.user = u].pc = "setPassword"
      BY DEF TypeOK, Handler
    <3> QED
      BY <2>1, <2>6, <3>1 DEF StartReset, history
  <2>7. ASSUME NEW r \in Requests, Handle(r) PROVE Bounded(t)'
    BY <1>2, <2>7, BoundHandle
  <2> QED
    BY <1>2, <2>2, <2>3, <2>4, <2>5, <2>6, <2>7
    DEF Next, Logout, DeleteAccount, SetActive, Tick, history
<1> QED
  BY <1>1, <1>2

(* However many requests overlap, the acceptances of a token are bounded   *)
(* by the number of requests that run at once, and never grow once they    *)
(* are answered. *)
THEOREM AcceptancesBounded == Spec => []GrantsBoundedByOverlap
<1> DEFINE All == \A t \in Tokens : Bounded(t)
<1>1. Init => All
  <2> SUFFICES ASSUME Init, NEW t \in Tokens PROVE Bounded(t)
    OBVIOUS
  <2>1. grants[t] = 0 /\ PendingMarks(t) = {}
    BY DEF Init, Blank, PendingMarks
  <2> QED
    BY <2>1, MarksFinite, FS_EmptySet DEF Bounded
<1>2. IInv /\ All /\ [Next]_vars => All'
  BY BoundStep
<1>3. All => GrantsBoundedByOverlap
  BY DEF Bounded, Spent, GrantsBoundedByOverlap
<1> HIDE DEF All
<1> QED
  BY <1>1, <1>2, <1>3, Invariance, PTL DEF Spec

-----------------------------------------------------------------------------
(* The refinement of OneTimeToken, one request at a time. *)
Standing(t) == IF account[Owner(t)] = "deleted" THEN "erased"
               ELSE IF t \notin stored THEN "absent"
               ELSE IF t \in used THEN "spent"
               ELSE IF t \in revoked THEN "void" ELSE "live"

LEMMA Views ==
  /\ View = [t \in Tokens |-> View[t]] /\ View' = [t \in Tokens |-> View'[t]]
  /\ \A t \in Tokens : View[t] = Standing(t) /\ View'[t] = Standing(t)'
BY DEF View, Standing

LEMMA InitMaps == Init => Abstract!Init
<1> SUFFICES ASSUME Init PROVE Abstract!Init
  OBVIOUS
<1>1. \A t \in Tokens : View[t] = "absent"
  BY Views, TokenParts DEF Init, Standing
<1>2. View = [t \in Tokens |-> "absent"]
  BY <1>1, Views
<1> QED
  BY <1>2 DEF Init, Abstract!Init

(* What shows of a step in which accounts and rows stay. *)
LEMMA NothingShows ==
  ASSUME UNCHANGED <<stored, used, revoked, grants>>,
         \A t \in Tokens : account'[Owner(t)] = "deleted" <=> account[Owner(t)] = "deleted"
  PROVE  UNCHANGED Abstract!vars
<1>1. \A t \in Tokens : View'[t] = View[t]
  BY Views DEF Standing
<1>2. View' = View
  BY <1>1, Views
<1> QED
  BY <1>2 DEF Abstract!vars

(* What was active and is revoked has lost its worth. *)
LEMMA RevocationMaps ==
  ASSUME IInv, UNCHANGED <<account, stored, used, grants>>,
         revoked \subseteq revoked', revoked' \subseteq stored
  PROVE  Abstract!Next
<1>1. PICK S : S = {t \in Tokens : t \in revoked' /\ t \notin revoked /\ t \notin used}
  OBVIOUS
<1>2. S \subseteq Abstract!Live /\ S \in SUBSET Tokens
  BY <1>1, Views DEF Abstract!Live, Standing, IInv, RowsAreLive
<1>3. \A t \in Tokens : View'[t] = IF t \in S THEN "void" ELSE View[t]
  BY <1>1, Views DEF Standing, IInv, RowsAreLive
<1>4. View' = [t \in Tokens |-> IF t \in S THEN "void" ELSE View[t]]
  BY <1>3, Views
<1> QED
  BY <1>2, <1>4 DEF Abstract!Void, Abstract!Next

LEMMA StoreMaps ==
  ASSUME IInv, NEW r \in Requests, NEW t \in Tokens, NEW f, NEW p, t = Signed(r), Store(r, t, f, p)
  PROVE  Abstract!Next \/ UNCHANGED Abstract!vars
<1>1. CASE account[req[r].user] = "deleted" \/ t \in stored
  BY <1>1, NothingShows DEF Store, table, history
<1>2. CASE ~(account[req[r].user] = "deleted" \/ t \in stored)
  <2>1. Owner(t) = req[r].user
    BY TokenParts DEF Signed, IInv, TypeOK, Handler
  <2>2. stored' = stored \cup {t} /\ UNCHANGED <<account, used, revoked, grants>>
    BY <1>2 DEF Store
  <2>3. t \notin used /\ t \notin revoked
    BY <1>2 DEF IInv, TypeOK
  <2>4. View[t] = "absent" /\ View'[t] = "live"
    BY <1>2, <2>1, <2>2, <2>3, Views DEF Standing
  <2>5. \A x \in Tokens \ {t} : View'[x] = View[x]
    BY <2>2, Views DEF Standing
  <2>6. View' = [x \in Tokens |-> IF x = t THEN "live" ELSE IF x \in {} THEN "void" ELSE View[x]]
    BY <2>4, <2>5, Views
  <2>7. Abstract!Issue(t, {})
    BY <2>2, <2>4, <2>6 DEF Abstract!Issue
  <2> QED
    BY <2>7 DEF Abstract!Next
<1> QED
  BY <1>1, <1>2

LEMMA MarkMaps ==
  ASSUME IInv, Serial, NEW r \in Requests, MarkUsed(r)
  PROVE  Abstract!Next \/ UNCHANGED Abstract!vars
<1>1. PICK t \in Tokens : t = req[r].token
  BY DEF IInv, TypeOK, Handler
<1>2. CASE t \notin stored
  BY <1>1, <1>2, NothingShows DEF MarkUsed
<1>3. CASE t \in stored
  <2>1. /\ used' = used \cup {t} /\ grants' = [grants EXCEPT ![t] = @ + 1]
        /\ UNCHANGED <<account, stored, revoked>> /\ req[r].pc = "markUsed"
    BY <1>1, <1>3 DEF MarkUsed
  <2>2. req[r].user = Owner(t) /\ account[Owner(t)] # "deleted"
    BY <1>1, <1>3, <2>1 DEF IInv, KnowsItsRow, RowsAreLive
  <2>3. Active(t)
    BY <1>1, <2>1, <2>2 DEF Serial, Alone, Gone
  <2>4. View[t] = "live" /\ View'[t] = "spent"
    BY <2>1, <2>2, <2>3, Views DEF Active, Standing
  <2>5. \A x \in Tokens \ {t} : View'[x] = View[x]
    BY <2>1, Views DEF Standing
  <2>6. View' = [View EXCEPT ![t] = "spent"]
    BY <2>4, <2>5, Views
  <2> QED
    BY <2>1, <2>4, <2>6 DEF Abstract!Redeem, Abstract!Next
<1> QED
  BY <1>2, <1>3

LEMMA DeleteMaps ==
  ASSUME IInv, NEW u \in Users, DeleteAccount(u)
  PROVE  Abstract!Next
<1>1. PICK S : S = {t \in Tokens : Owner(t) = u}
  OBVIOUS
<1>2. /\ account' = [account EXCEPT ![u] = "deleted"]
      /\ stored' = stored \ S /\ used' = used \ S /\ revoked' = revoked \ S /\ grants' = grants
  BY <1>1 DEF DeleteAccount
<1>3. \A t \in Tokens : account'[Owner(t)] = IF t \in S THEN "deleted" ELSE account[Owner(t)]
  BY <1>1, <1>2, TokenParts DEF IInv, TypeOK
<1>4. \A t \in Tokens : View'[t] = IF t \in S THEN "erased" ELSE View[t]
  BY <1>2, <1>3, Views DEF Standing
<1>5. View' = [t \in Tokens |-> IF t \in S THEN "erased" ELSE View[t]]
  BY <1>4, Views
<1>6. Abstract!Erase(S) /\ S \in SUBSET Tokens
  BY <1>1, <1>2, <1>5 DEF Abstract!Erase
<1> QED
  BY <1>6 DEF Abstract!Next

LEMMA StepMaps ==
  ASSUME OneAtATime, IInv, Serial, [Next]_vars
  PROVE  [Abstract!Next]_Abstract!vars
<1>1. ASSUME NEW r \in Requests, Open(r) \/ Rotate(r)
      PROVE  Abstract!Next \/ UNCHANGED Abstract!vars
  <2>1. Signed(r) \in Tokens
    BY TokenParts DEF Signed, IInv, TypeOK, Handler
  <2> QED
    BY <1>1, <2>1, StoreMaps DEF Open, Rotate
<1>2. ASSUME UNCHANGED <<account, stored, used, revoked, grants>>
      PROVE  Abstract!Next \/ UNCHANGED Abstract!vars
  BY <1>2, NothingShows
<1>3. ASSUME NEW r \in Requests, Handle(r)
      PROVE  Abstract!Next \/ UNCHANGED Abstract!vars
  <2>1. CASE Reply(r) \/ ReadRecord(r) \/ LookupUser(r) \/ SetPassword(r)
    BY <1>2, <2>1 DEF Reply, ReadRecord, LookupUser, SetPassword, table, history
  <2>2. CASE RevokeFamily(r) \/ RevokeToken(r) \/ RevokeAll(r)
    <3>1. UNCHANGED <<account, stored, used, grants>> /\ revoked \subseteq revoked'
      BY <2>2 DEF RevokeFamily, RevokeToken, RevokeAll, history
    <3>2. revoked' \subseteq stored
      BY <2>2 DEF RevokeFamily, RevokeToken, RevokeAll, ActiveIn, FamilyOf, IInv, TypeOK
    <3> QED
      BY <3>1, <3>2, RevocationMaps
  <2> QED
    BY <1>1, <1>3, <2>1, <2>2, MarkMaps DEF Handle
<1>4. ASSUME NEW r \in Requests, NEW t \in Tokens, Logout(r, t)
      PROVE  Abstract!Next
  <2>1. /\ UNCHANGED <<account, stored, used, grants>>
        /\ revoked \subseteq revoked' /\ revoked' \subseteq stored
    BY <1>4 DEF Logout, history, IInv, TypeOK
  <2> QED
    BY <2>1, RevocationMaps
<1>5. ASSUME NEW u \in Users, NEW a \in {"active", "inactive"}, SetActive(u, a)
      PROVE  UNCHANGED Abstract!vars
  <2>1. \A t \in Tokens : account'[Owner(t)] = "deleted" <=> account[Owner(t)] = "deleted"
    BY <1>5, TokenParts DEF SetActive, IInv, TypeOK
  <2> QED
    BY <1>5, <2>1, NothingShows DEF SetActive, table, history
<1> QED
  BY <1>2, <1>3, <1>4, <1>5, DeleteMaps
  DEF Next, Crash, StartLogin, StartRefresh, StartReset, Tick, vars, table, history

(* One request at a time, refresh tokens are one-time tokens. *)
THEOREM TokensAreOneTime == ASSUME OneAtATime PROVE Spec => ImplementsOneTimeToken
<1>1. IInv /\ Serial /\ [Next]_vars => [Abstract!Next]_Abstract!vars
  BY StepMaps
<1> QED
  BY <1>1, InitMaps, Invariance, SerialAlways, PTL DEF Spec, ImplementsOneTimeToken, Abstract!Spec

(* ... of which each is worth one new pair. *)
THEOREM TokensGrantOnce == ASSUME OneAtATime PROVE Spec => []Abstract!AtMostOnce
<1>1. Cardinality(Requests) <= 1
  <2>1. CASE Requests = {}
    BY <2>1, FS_EmptySet
  <2>2. ASSUME NEW r \in Requests PROVE Cardinality(Requests) <= 1
    <3>1. Requests = {r}
      BY DEF OneAtATime
    <3> QED
      BY <3>1, FS_Singleton
  <2> QED
    BY <2>1, <2>2
<1>2. IInv /\ GrantsBoundedByOverlap => Abstract!AtMostOnce
  <2> SUFFICES ASSUME IInv, GrantsBoundedByOverlap, NEW t \in Tokens PROVE grants[t] <= 1
    BY DEF Abstract!AtMostOnce
  <2>1. grants[t] + Cardinality(PendingMarks(t)) <= Cardinality(Requests) /\ grants[t] \in Nat
    BY DEF GrantsBoundedByOverlap, IInv, TypeOK
  <2> QED
    BY <1>1, <2>1, MarksFinite
<1> QED
  BY <1>2, Invariance, AcceptancesBounded, PTL
=============================================================================
