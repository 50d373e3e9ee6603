--------------------------- MODULE OtpCodesProofs ---------------------------
(***************************************************************************)
(* Theorems about OtpCodes, for every set of purposes and addresses, every *)
(* finite number of overlapping requests and every lifetime, cooldown and  *)
(* limit.                                                                  *)
(***************************************************************************)
EXTENDS OtpCodes, FiniteSetTheorems, TLAPS

(* The advisory lock: one transaction per scope. *)
Exclusive ==
  \A q, r \in Requests :
    tx[q].pc \in InTx /\ tx[r].pc \in InTx /\ tx[q].scope = tx[r].scope => q = r

(* The kind of a transaction fits the statement it is at; a sender and a   *)
(* consumption lock the purpose they work on, a resend the one it names;   *)
(* both that send a code have made its expiry.                             *)
KindFits(h) ==
  /\ h.pc \in {"latest", "throttle"} => h.kind = "resend"
  /\ h.pc \in {"snapshot", "invalidate", "create"} => h.kind \in {"store", "resend"}
  /\ h.pc \in {"find", "use"} => h.kind = "consume"
  /\ h.pc # "idle" => h.kind # "none"
  /\ h.kind \in {"store", "consume"} => h.scope = h.purpose /\ h.purpose \in Purposes
  /\ h.kind = "resend" => h.scope \in ResendScopes
  /\ h.kind \in {"store", "resend"} => h.ip \in Addresses /\ h.expires \in TTL .. MaxClock + TTL
  /\ h.kind = "resend" /\ h.pc \in {"throttle", "snapshot", "invalidate", "create"}
       => h.scope \in {h.purpose, AnyPurpose}

(* The rows that compete with what a transaction in state h will create.   *)
Rivals(h) == {i \in Ids : /\ Pending(i) /\ otp[i].purpose = h.purpose
                          /\ otp[i].scope = h.scope}

(* The snapshot, and then what was changed, holds all rivals; the changed  *)
(* rows are held until the commit. *)
RowsKnown(h) ==
  /\ h.pc = "invalidate" => Rivals(h) \subseteq h.snap
  /\ h.pc = "create" => Rivals(h) \subseteq h.dirty
  /\ h.dirty \subseteq {i \in Ids : Pending(i)}
  /\ h.pc # "create" => h.dirty = {}
  /\ h.pc = "use" => h.code \in Ids

HandlersKnow == \A r \in Requests : KindFits(tx[r]) /\ RowsKnown(tx[r])

DirtyApart == \A q, r \in Requests : q # r => tx[q].dirty \cap tx[r].dirty = {}

(* A code is never created beside a pending one made under the same lock.  *)
NewestPerLock ==
  \A i, j \in Ids :
    i < j /\ otp[i].purpose = otp[j].purpose /\ otp[i].scope = otp[j].scope => ~Pending(i)

(* The lock a row was made under: its purpose, or that of an unnamed resend. *)
ScopesTrue ==
  \A i \in Ids : otp[i].scope = otp[i].purpose \/ otp[i].scope \in ResendScopes \ Purposes

RoomKept == Len(otp) + Cardinality(Creating) <= MaxCodes

IInv == /\ TypeOK /\ Exclusive /\ HandlersKnow /\ DirtyApart
        /\ NewestPerLock /\ ScopesTrue /\ RoomKept

-----------------------------------------------------------------------------
(* What TypeOK says of one transaction beyond its fields. *)
NamesRows(h) ==
  /\ h.snap \cup h.dirty \subseteq Ids /\ {h.code, h.latest} \subseteq {0} \cup Ids
  /\ h.pc \in {"throttle", "snapshot", "invalidate", "create", "find", "use"}
       => h.purpose \in Purposes

LEMMA IdleType ==
  /\ Idle \in Tx /\ Idle.pc = "idle" /\ Idle.kind = "none" /\ Idle.snap = {} /\ Idle.dirty = {}
  /\ Idle.code = 0 /\ Idle.latest = 0
BY OtpAssumption DEF Idle, Tx

LEMMA IdleKnows == NamesRows(Idle) /\ KindFits(Idle) /\ RowsKnown(Idle)
BY IdleType DEF NamesRows, KindFits, RowsKnown

LEMMA TypeParts ==
  /\ TypeOK <=> /\ clock \in 0 .. MaxClock
                /\ otp \in Seq(Row) /\ Len(otp) <= MaxCodes
                /\ tx \in [Requests -> Tx] /\ \A r \in Requests : NamesRows(tx[r])
                /\ grants \in [1 .. MaxCodes -> Nat]
  /\ TypeOK' <=> (/\ clock \in 0 .. MaxClock
                  /\ otp \in Seq(Row) /\ Len(otp) <= MaxCodes
                  /\ tx \in [Requests -> Tx] /\ \A r \in Requests : NamesRows(tx[r])
                  /\ grants \in [1 .. MaxCodes -> Nat])'
BY DEF TypeOK, NamesRows

LEMMA Sizes ==
  ASSUME NEW S \in SUBSET Requests
  PROVE  IsFiniteSet(S) /\ Cardinality(S) \in Nat
BY OtpAssumption, FS_Subset, FS_CardinalityType

LEMMA InitIInv == Init => IInv
<1> SUFFICES ASSUME Init PROVE IInv
  OBVIOUS
<1>1. otp = <<>> /\ Ids = {} /\ Len(otp) = 0 /\ otp \in Seq(Row)
  BY DEF Init, Ids
<1>2. TypeOK
  BY <1>1, IdleType, IdleKnows, OtpAssumption, TypeParts DEF Init
<1>3. Exclusive /\ HandlersKnow /\ DirtyApart /\ NewestPerLock /\ ScopesTrue
  BY <1>1, IdleType, IdleKnows
     DEF Init, Exclusive, HandlersKnow, DirtyApart, NewestPerLock, ScopesTrue, InTx
<1>4. RoomKept
  <2>1. Creating = {}
    BY IdleType DEF Init, Creating
  <2> QED
    BY <1>1, <2>1, FS_EmptySet, OtpAssumption DEF RoomKept
<1> QED
  BY <1>2, <1>3, <1>4 DEF IInv

-----------------------------------------------------------------------------
(* A step of one transaction that commits nothing. *)
LEMMA Moved ==
  ASSUME IInv, NEW r \in Requests, NEW h \in Tx, tx' = [tx EXCEPT ![r] = h],
         UNCHANGED <<clock, otp, grants>>, NamesRows(h), KindFits(h), RowsKnown(h),
         h.pc \in InTx => \A q \in Requests \ {r} : tx[q].pc \in InTx => tx[q].scope # h.scope,
         \A q \in Requests \ {r} : tx[q].dirty \cap h.dirty = {},
         RoomKept'
  PROVE  IInv'
<1>1. /\ tx' \in [Requests -> Tx]
      /\ \A q \in Requests : tx'[q] = IF q = r THEN h ELSE tx[q]
  BY DEF IInv, TypeOK
<1>2. Ids' = Ids /\ otp' = otp
  BY DEF Ids
<1>3. \A g : /\ NamesRows(g)' <=> NamesRows(g)
             /\ KindFits(g)' <=> KindFits(g)
             /\ RowsKnown(g)' <=> RowsKnown(g)
  BY <1>2 DEF NamesRows, KindFits, RowsKnown, Rivals, Pending
<1>4. \A q \in Requests : NamesRows(tx[q])
  BY TypeParts DEF IInv
<1>5. \A q \in Requests :
        (NamesRows(tx[q]) /\ KindFits(tx[q]) /\ RowsKnown(tx[q]))'
  <2> TAKE q \in Requests
  <2>1. PICK g : g = tx'[q]
    OBVIOUS
  <2>2. NamesRows(g) /\ KindFits(g) /\ RowsKnown(g)
    BY <1>1, <1>4, <2>1 DEF IInv, HandlersKnow
  <2>3. (NamesRows(g) /\ KindFits(g) /\ RowsKnown(g))'
    BY <1>3, <2>2
  <2> QED
    BY <2>1, <2>3
<1>6. TypeOK'
  BY <1>1, <1>2, <1>5, TypeParts DEF IInv
<1>7. Exclusive' /\ DirtyApart'
  BY <1>1 DEF IInv, Exclusive, DirtyApart
<1>8. NewestPerLock' /\ ScopesTrue'
  BY <1>2 DEF IInv, NewestPerLock, ScopesTrue, Pending
<1> QED
  BY <1>5, <1>6, <1>7, <1>8 DEF IInv, HandlersKnow

(* No new sender, no new row. *)
LEMMA RoomStays ==
  ASSUME IInv, NEW r \in Requests, NEW h \in Tx, tx' = [tx EXCEPT ![r] = h], UNCHANGED otp,
         h.kind \in {"store", "resend"} => tx[r].kind = h.kind
  PROVE  RoomKept'
<1>1. Creating' \subseteq Creating /\ Creating \in SUBSET Requests /\ Creating' \in SUBSET Requests
  BY DEF IInv, TypeOK, Creating
<1>2. Cardinality(Creating') <= Cardinality(Creating)
  BY <1>1, Sizes, FS_Subset
<1>3. Len(otp) \in Nat /\ Cardinality(Creating') \in Nat /\ Cardinality(Creating) \in Nat
  BY <1>1, Sizes DEF IInv, TypeOK
<1> QED
  BY <1>2, <1>3, OtpAssumption DEF IInv, RoomKept

LEMMA EndStep ==
  ASSUME IInv, NEW r \in Requests, End(r), UNCHANGED <<clock, otp, grants>>
  PROVE  IInv'
BY IdleType, IdleKnows, Moved, RoomStays DEF End, InTx

(* The next statement of a transaction that holds its lock. *)
LEMMA InTxMoved ==
  ASSUME IInv, NEW r \in Requests, NEW h \in Tx, tx' = [tx EXCEPT ![r] = h],
         UNCHANGED <<clock, otp, grants>>, NamesRows(h), KindFits(h), RowsKnown(h),
         tx[r].pc \in InTx, h.scope = tx[r].scope, h.kind = tx[r].kind,
         \A q \in Requests \ {r} : tx[q].dirty \cap h.dirty = {}
  PROVE  IInv'
<1>1. \A q \in Requests \ {r} : tx[q].pc \in InTx => tx[q].scope # h.scope
  BY DEF IInv, Exclusive
<1>2. RoomKept'
  BY RoomStays
<1> QED
  BY <1>1, <1>2, Moved

LEMMA HandlerType ==
  ASSUME IInv, NEW r \in Requests
  PROVE  tx[r] \in Tx /\ NamesRows(tx[r]) /\ KindFits(tx[r]) /\ RowsKnown(tx[r])
BY TypeParts DEF IInv, HandlersKnow

-----------------------------------------------------------------------------
(* A request enters; a code that is sent has room. *)
LEMMA StartStep ==
  ASSUME IInv, NEW r \in Requests, NEW h \in Tx, tx' = [tx EXCEPT ![r] = h],
         UNCHANGED <<clock, otp, grants>>, h.pc = "lock", h.dirty = {}, NamesRows(h), KindFits(h),
         h.kind \in {"store", "resend"} => Room
  PROVE  IInv'
<1>1. RowsKnown(h) /\ h.pc \notin InTx
  BY DEF RowsKnown, InTx
<1>2. RoomKept'
  <2>1. CASE h.kind \notin {"store", "resend"}
    BY <2>1, RoomStays
  <2>2. CASE Room
    <3>1. Creating \in SUBSET Requests /\ Creating' \subseteq Creating \cup {r}
      BY DEF IInv, TypeOK, Creating
    <3>2. /\ IsFiniteSet(Creating) /\ Cardinality(Creating) \in Nat
          /\ IsFiniteSet(Creating \cup {r}) /\ Cardinality(Creating \cup {r}) \in Nat
          /\ IsFiniteSet(Creating') /\ Cardinality(Creating') \in Nat
      BY <3>1, Sizes
    <3>3. Cardinality(Creating \cup {r}) <= Cardinality(Creating) + 1
      BY <3>2, FS_AddElement
    <3>4. Cardinality(Creating') <= Cardinality(Creating \cup {r})
      BY <3>1, <3>2, FS_Subset
    <3>5. Len(otp) \in Nat /\ Len(otp') = Len(otp)
      BY DEF IInv, TypeOK
    <3> QED
      BY <2>2, <3>2, <3>3, <3>4, <3>5, OtpAssumption DEF Room, RoomKept
  <2> QED
    BY <2>1, <2>2
<1> QED
  BY <1>1, <1>2, Moved

LEMMA StartStoreStep ==
  ASSUME IInv, NEW r \in Requests, NEW p \in Purposes, NEW ip \in Addresses, StartStore(r, p, ip)
  PROVE  IInv'
<1>1. PICK h : h = [Idle EXCEPT !.pc = "lock", !.kind = "store", !.scope = p, !.purpose = p,
                                !.ip = ip, !.expires = clock + TTL]
  OBVIOUS
<1>2. clock + TTL \in TTL .. MaxClock + TTL /\ clock + TTL \in 0 .. MaxClock + TTL
  BY OtpAssumption DEF IInv, TypeOK
<1>3. /\ h \in Tx /\ h.pc = "lock" /\ h.kind = "store" /\ h.scope = p /\ h.purpose = p
      /\ h.ip = ip /\ h.expires = clock + TTL
      /\ h.snap = {} /\ h.dirty = {} /\ h.code = 0 /\ h.latest = 0
  BY <1>1, <1>2, IdleType DEF Tx
<1>4. NamesRows(h) /\ KindFits(h)
  BY <1>2, <1>3 DEF NamesRows, KindFits
<1>5. tx' = [tx EXCEPT ![r] = h] /\ Room /\ UNCHANGED <<clock, otp, grants>>
  BY <1>1 DEF StartStore
<1> QED
  BY <1>3, <1>4, <1>5, StartStep

LEMMA StartResendStep ==
  ASSUME IInv, NEW r \in Requests, NEW s \in ResendScopes, NEW ip \in Addresses,
         StartResend(r, s, ip)
  PROVE  IInv'
<1>1. PICK h : h = [Idle EXCEPT !.pc = "lock", !.kind = "resend", !.scope = s,
                                !.ip = ip, !.expires = clock + TTL]
  OBVIOUS
<1>2. /\ clock + TTL \in TTL .. MaxClock + TTL /\ clock + TTL \in 0 .. MaxClock + TTL
      /\ s \in Purposes \cup {AnyPurpose}
  BY OtpAssumption DEF IInv, TypeOK
<1>3. /\ h \in Tx /\ h.pc = "lock" /\ h.kind = "resend" /\ h.scope = s
      /\ h.ip = ip /\ h.expires = clock + TTL
      /\ h.snap = {} /\ h.dirty = {} /\ h.code = 0 /\ h.latest = 0
  BY <1>1, <1>2, IdleType DEF Tx
<1>4. NamesRows(h) /\ KindFits(h)
  BY <1>2, <1>3 DEF NamesRows, KindFits
<1>5. tx' = [tx EXCEPT ![r] = h] /\ Room /\ UNCHANGED <<clock, otp, grants>>
  BY <1>1 DEF StartResend
<1> QED
  BY <1>3, <1>4, <1>5, StartStep

LEMMA StartConsumeStep ==
  ASSUME IInv, NEW r \in Requests, NEW p \in Purposes, NEW c \in {0} \cup Ids,
         NEW ip \in Addresses, StartConsume(r, p, c, ip)
  PROVE  IInv'
<1>1. PICK h : h = [Idle EXCEPT !.pc = "lock", !.kind = "consume", !.scope = p, !.purpose = p,
                                !.ip = ip, !.code = c]
  OBVIOUS
<1>2. c \in 0 .. MaxCodes
  BY OtpAssumption DEF IInv, TypeOK, Ids
<1>3. /\ h \in Tx /\ h.pc = "lock" /\ h.kind = "consume" /\ h.scope = p /\ h.purpose = p
      /\ h.snap = {} /\ h.dirty = {} /\ h.code = c /\ h.latest = 0
  BY <1>1, <1>2, IdleType DEF Tx
<1>4. NamesRows(h) /\ KindFits(h)
  BY <1>3 DEF NamesRows, KindFits
<1>5. tx' = [tx EXCEPT ![r] = h] /\ UNCHANGED <<clock, otp, grants>>
  BY <1>1 DEF StartConsume
<1> QED
  BY <1>3, <1>4, <1>5, StartStep

-----------------------------------------------------------------------------
(* The statements that change nothing that is committed. *)
LEMMA LockStep ==
  ASSUME IInv, NEW r \in Requests, Lock(r)
  PROVE  IInv'
<1>1. /\ tx[r].pc = "lock" /\ UNCHANGED <<clock, otp, grants>>
      /\ \A q \in Requests : tx[q].pc \in InTx => tx[q].scope # tx[r].scope
      /\ tx[r] \in Tx /\ NamesRows(tx[r]) /\ KindFits(tx[r]) /\ RowsKnown(tx[r])
  BY HandlerType DEF Lock
<1>2. tx[r].kind \in {"store", "resend", "consume"}
  BY <1>1 DEF KindFits, Tx
<1>3. PICK step \in {"snapshot", "latest", "find"} :
        /\ Move(r, step)
        /\ step = FirstStatement(tx[r].kind)
  BY <1>2 DEF Lock, FirstStatement
<1>4. /\ step = "snapshot" <=> tx[r].kind = "store"
      /\ step = "latest" <=> tx[r].kind = "resend"
  BY <1>2, <1>3 DEF FirstStatement
<1>5. PICK h : h = [tx[r] EXCEPT !.pc = step]
  OBVIOUS
<1>5a. step \in {"idle", "lock"} \cup InTx
  BY <1>3 DEF InTx
<1>6. /\ h \in Tx /\ h.pc = step /\ h.kind = tx[r].kind /\ h.scope = tx[r].scope
      /\ h.ip = tx[r].ip /\ h.expires = tx[r].expires
      /\ h.purpose = tx[r].purpose /\ h.code = tx[r].code /\ h.latest = tx[r].latest
      /\ h.snap = tx[r].snap /\ h.dirty = tx[r].dirty
  BY <1>1, <1>5, <1>5a DEF Tx
<1>7. NamesRows(h) /\ KindFits(h) /\ RowsKnown(h)
  BY <1>1, <1>2, <1>4, <1>6 DEF NamesRows, KindFits, RowsKnown
<1>8. tx' = [tx EXCEPT ![r] = h]
  BY <1>3, <1>5 DEF Move
<1>9. \A q \in Requests \ {r} : tx[q].dirty \cap h.dirty = {}
  BY <1>6 DEF IInv, DirtyApart
<1>10. RoomKept'
  BY <1>1, <1>6, <1>8, RoomStays
<1> QED
  BY <1>1, <1>6, <1>7, <1>8, <1>9, <1>10, Moved

LEMMA ReadLatestStep ==
  ASSUME IInv, NEW r \in Requests, ReadLatest(r)
  PROVE  IInv'
<1>1. /\ tx[r].pc = "latest" /\ UNCHANGED <<clock, otp, grants>>
      /\ tx[r] \in Tx /\ NamesRows(tx[r]) /\ KindFits(tx[r]) /\ RowsKnown(tx[r])
  BY HandlerType DEF ReadLatest
<1>2. CASE End(r)
  BY <1>1, <1>2, EndStep
<1>3. ASSUME NEW i \in Latest(ResendOf(r)), Found(r, i, otp[i].purpose)
      PROVE  IInv'
  <2>1. /\ i \in Ids /\ otp[i].purpose \in Purposes
        /\ tx[r].scope = AnyPurpose \/ otp[i].purpose = tx[r].scope
    <3>1. i \in Ids /\ otp[i] \in Row
      BY DEF Latest, ResendOf, PendingOf, IInv, TypeOK, Ids
    <3> QED
      BY <3>1 DEF Latest, ResendOf, PendingOf, Row
  <2>2. PICK p \in Purposes : p = otp[i].purpose
    BY <2>1
  <2>3. PICK h : h = [tx[r] EXCEPT !.pc = "throttle", !.purpose = p, !.latest = i, !.now = clock]
    OBVIOUS
  <2>4. i \in 0 .. MaxCodes /\ clock \in 0 .. MaxClock
    BY <2>1, OtpAssumption DEF IInv, TypeOK, Ids
  <2>5. /\ h \in Tx /\ h.pc = "throttle" /\ h.kind = tx[r].kind /\ h.scope = tx[r].scope
        /\ h.ip = tx[r].ip /\ h.expires = tx[r].expires
        /\ h.purpose = p /\ h.code = tx[r].code /\ h.latest = i
        /\ h.snap = tx[r].snap /\ h.dirty = tx[r].dirty
    BY <1>1, <2>3, <2>4 DEF Tx, InTx
  <2>6. NamesRows(h) /\ KindFits(h) /\ RowsKnown(h)
    BY <1>1, <2>1, <2>2, <2>5 DEF NamesRows, KindFits, RowsKnown
  <2>7. tx' = [tx EXCEPT ![r] = h] /\ tx[r].pc \in InTx
    BY <1>1, <1>3, <2>2, <2>3 DEF Found, InTx
  <2>8. \A q \in Requests \ {r} : tx[q].dirty \cap h.dirty = {}
    BY <2>5 DEF IInv, DirtyApart
  <2> QED
    BY <1>1, <2>5, <2>6, <2>7, <2>8, InTxMoved
<1> QED
  BY <1>2, <1>3 DEF ReadLatest

LEMMA ThrottleStep ==
  ASSUME IInv, NEW r \in Requests, Throttle(r)
  PROVE  IInv'
<1>1. /\ tx[r].pc = "throttle" /\ UNCHANGED <<clock, otp, grants>>
      /\ tx[r] \in Tx /\ NamesRows(tx[r]) /\ KindFits(tx[r]) /\ RowsKnown(tx[r])
  BY HandlerType DEF Throttle
<1>2. CASE End(r)
  BY <1>1, <1>2, EndStep
<1>3. CASE Move(r, "snapshot")
  <2>1. PICK h : h = [tx[r] EXCEPT !.pc = "snapshot"]
    OBVIOUS
  <2>2. /\ h \in Tx /\ h.pc = "snapshot" /\ h.kind = tx[r].kind /\ h.scope = tx[r].scope
        /\ h.ip = tx[r].ip /\ h.expires = tx[r].expires
        /\ h.purpose = tx[r].purpose /\ h.code = tx[r].code /\ h.latest = tx[r].latest
        /\ h.snap = tx[r].snap /\ h.dirty = tx[r].dirty
    BY <1>1, <2>1 DEF Tx, InTx
  <2>3. NamesRows(h) /\ KindFits(h) /\ RowsKnown(h)
    BY <1>1, <2>2 DEF NamesRows, KindFits, RowsKnown
  <2>4. tx' = [tx EXCEPT ![r] = h] /\ tx[r].pc \in InTx
    BY <1>1, <1>3, <2>1 DEF Move, InTx
  <2>5. \A q \in Requests \ {r} : tx[q].dirty \cap h.dirty = {}
    BY <2>2 DEF IInv, DirtyApart
  <2> QED
    BY <1>1, <2>2, <2>3, <2>4, <2>5, InTxMoved
<1> QED
  BY <1>2, <1>3 DEF Throttle

(* The snapshot holds every rival, since a rival made later would have     *)
(* been made under the lock that is held.                                  *)
LEMMA SnapshotStep ==
  ASSUME IInv, NEW r \in Requests, Snapshot(r)
  PROVE  IInv'
<1>1. /\ tx[r].pc = "snapshot" /\ UNCHANGED <<clock, otp, grants>>
      /\ tx[r] \in Tx /\ NamesRows(tx[r]) /\ KindFits(tx[r]) /\ RowsKnown(tx[r])
  BY HandlerType DEF Snapshot
<1>2. PICK S : S = PendingOf({tx[r].purpose})
  OBVIOUS
<1>3. S \subseteq Ids /\ S \in SUBSET (1 .. MaxCodes)
  BY <1>2, OtpAssumption DEF PendingOf, IInv, TypeOK, Ids
<1>4. PICK h : h = [tx[r] EXCEPT !.pc = "invalidate", !.latest = 0, !.now = 0, !.snap = S]
  OBVIOUS
<1>5. /\ h \in Tx /\ h.pc = "invalidate" /\ h.kind = tx[r].kind /\ h.scope = tx[r].scope
      /\ h.ip = tx[r].ip /\ h.expires = tx[r].expires
      /\ h.purpose = tx[r].purpose /\ h.code = tx[r].code /\ h.latest = 0
      /\ h.snap = S /\ h.dirty = tx[r].dirty
  <2>1. 0 \in 0 .. MaxCodes /\ 0 \in 0 .. MaxClock
    BY OtpAssumption
  <2> QED
    BY <1>1, <1>3, <1>4, <2>1 DEF Tx, InTx
<1>6. Rivals(h) \subseteq S
  BY <1>2, <1>5 DEF Rivals, PendingOf
<1>7. NamesRows(h) /\ KindFits(h) /\ RowsKnown(h)
  BY <1>1, <1>3, <1>5, <1>6 DEF NamesRows, KindFits, RowsKnown
<1>8. tx' = [tx EXCEPT ![r] = h] /\ tx[r].pc \in InTx
  BY <1>1, <1>2, <1>4 DEF Snapshot, InTx
<1>9. \A q \in Requests \ {r} : tx[q].dirty \cap h.dirty = {}
  BY <1>5 DEF IInv, DirtyApart
<1> QED
  BY <1>1, <1>5, <1>7, <1>8, <1>9, InTxMoved

(* What is changed was held by no other transaction. *)
LEMMA InvalidateStep ==
  ASSUME IInv, NEW r \in Requests, Invalidate(r)
  PROVE  IInv'
<1>1. /\ tx[r].pc = "invalidate" /\ UNCHANGED <<clock, otp, grants>>
      /\ tx[r] \in Tx /\ NamesRows(tx[r]) /\ KindFits(tx[r]) /\ RowsKnown(tx[r])
      /\ Untouched(r, tx[r].snap)
  BY HandlerType DEF Invalidate
<1>2. PICK D : D = {i \in tx[r].snap : Pending(i)}
  OBVIOUS
<1>3. D \subseteq Ids /\ D \subseteq tx[r].snap /\ D \in SUBSET (1 .. MaxCodes)
  BY <1>1, <1>2 DEF NamesRows, Tx
<1>4. PICK h : h = [tx[r] EXCEPT !.pc = "create", !.snap = {}, !.dirty = D]
  OBVIOUS
<1>5. /\ h \in Tx /\ h.pc = "create" /\ h.kind = tx[r].kind /\ h.scope = tx[r].scope
      /\ h.ip = tx[r].ip /\ h.expires = tx[r].expires
      /\ h.purpose = tx[r].purpose /\ h.code = tx[r].code /\ h.latest = tx[r].latest
      /\ h.snap = {} /\ h.dirty = D
  BY <1>1, <1>3, <1>4 DEF Tx, InTx
<1>6. Rivals(h) \subseteq D
  BY <1>1, <1>2, <1>5 DEF Rivals, RowsKnown
<1>7. NamesRows(h) /\ KindFits(h) /\ RowsKnown(h)
  BY <1>1, <1>2, <1>3, <1>5, <1>6 DEF NamesRows, KindFits, RowsKnown
<1>8. tx' = [tx EXCEPT ![r] = h] /\ tx[r].pc \in InTx
  BY <1>1, <1>2, <1>4 DEF Invalidate, InTx
<1>9. \A q \in Requests \ {r} : tx[q].dirty \cap h.dirty = {}
  <2> TAKE q \in Requests \ {r}
  <2>1. CASE tx[q].pc \in InTx
    BY <1>1, <1>3, <1>5, <2>1 DEF Untouched
  <2>2. CASE tx[q].pc \notin InTx
    BY <2>2, HandlerType DEF RowsKnown, InTx
  <2> QED
    BY <2>1, <2>2
<1> QED
  BY <1>1, <1>5, <1>7, <1>8, <1>9, InTxMoved

LEMMA FindStep ==
  ASSUME IInv, NEW r \in Requests, Find(r)
  PROVE  IInv'
<1>1. /\ tx[r].pc = "find" /\ UNCHANGED <<clock, otp, grants>>
      /\ tx[r] \in Tx /\ NamesRows(tx[r]) /\ KindFits(tx[r]) /\ RowsKnown(tx[r])
  BY HandlerType DEF Find
<1>2. CASE End(r)
  BY <1>1, <1>2, EndStep
<1>3. CASE Move(r, "use") /\ tx[r].code \in Ids
  <2>1. PICK h : h = [tx[r] EXCEPT !.pc = "use"]
    OBVIOUS
  <2>2. /\ h \in Tx /\ h.pc = "use" /\ h.kind = tx[r].kind /\ h.scope = tx[r].scope
        /\ h.ip = tx[r].ip /\ h.expires = tx[r].expires
        /\ h.purpose = tx[r].purpose /\ h.code = tx[r].code /\ h.latest = tx[r].latest
        /\ h.snap = tx[r].snap /\ h.dirty = tx[r].dirty
    BY <1>1, <2>1 DEF Tx, InTx
  <2>3. NamesRows(h) /\ KindFits(h) /\ RowsKnown(h)
    BY <1>1, <1>3, <2>2 DEF NamesRows, KindFits, RowsKnown
  <2>4. tx' = [tx EXCEPT ![r] = h] /\ tx[r].pc \in InTx
    BY <1>1, <1>3, <2>1 DEF Move, InTx
  <2>5. \A q \in Requests \ {r} : tx[q].dirty \cap h.dirty = {}
    BY <2>2 DEF IInv, DirtyApart
  <2> QED
    BY <1>1, <2>2, <2>3, <2>4, <2>5, InTxMoved
<1>4. \A i \in Latest({i \in PendingOf({tx[r].purpose}) : otp[i].expires > clock}) : i \in Ids
  BY DEF Latest, PendingOf
<1> QED
  BY <1>2, <1>3, <1>4 DEF Find, Accepts

-----------------------------------------------------------------------------
(* A commit keeps what the others rely on when it revives no row, changes  *)
(* none that another transaction holds, and adds none under a lock that    *)
(* another one has.                                                        *)
LEMMA CommitStep ==
  ASSUME IInv, NEW r \in Requests, End(r), clock' = clock,
         otp' \in Seq(Row), Len(otp') <= MaxCodes, Ids \subseteq Ids',
         grants' \in [1 .. MaxCodes -> Nat],
         \A i \in Ids : /\ otp'[i].purpose = otp[i].purpose /\ otp'[i].scope = otp[i].scope
                        /\ Pending(i)' => Pending(i),
         \A q \in Requests \ {r} : \A i \in tx[q].dirty : Pending(i)',
         \A q \in Requests \ {r} : \A i \in Ids' \ Ids :
            tx[q].pc \in {"invalidate", "create"} => otp'[i].scope # tx[q].scope,
         NewestPerLock', ScopesTrue', RoomKept'
  PROVE  IInv'
<1>1. /\ tx' \in [Requests -> Tx]
      /\ \A q \in Requests : tx'[q] = IF q = r THEN Idle ELSE tx[q]
  BY IdleType DEF IInv, TypeOK, End
<1>2. \A g : NamesRows(g) => NamesRows(g)'
  BY DEF NamesRows
<1>3. \A g : KindFits(g)' <=> KindFits(g)
  BY DEF KindFits
<1>4. \A q \in Requests \ {r} : RowsKnown(tx[q])'
  <2> TAKE q \in Requests \ {r}
  <2>1. PICK g \in Tx : g = tx[q] /\ tx'[q] = g
    BY <1>1, HandlerType
  <2>2. RowsKnown(g)
    BY <2>1, HandlerType
  <2>3. g.pc \in {"invalidate", "create"} => Rivals(g)' \subseteq Rivals(g)
    BY <2>1 DEF Rivals
  <2>4. g.dirty \subseteq {i \in Ids' : Pending(i)'}
    BY <2>1, <2>2 DEF RowsKnown
  <2>5. RowsKnown(g)'
    BY <2>2, <2>3, <2>4 DEF RowsKnown
  <2> QED
    BY <2>1, <2>5
<1>5. NamesRows(Idle)' /\ KindFits(Idle)' /\ RowsKnown(Idle)'
  BY IdleType DEF NamesRows, KindFits, RowsKnown
<1>6. \A q \in Requests : NamesRows(tx[q])' /\ KindFits(tx[q])' /\ RowsKnown(tx[q])'
  <2> TAKE q \in Requests
  <2>1. CASE q = r
    BY <1>1, <1>5, <2>1
  <2>2. CASE q # r
    BY <1>1, <1>2, <1>3, <1>4, <2>2, HandlerType
  <2> QED
    BY <2>1, <2>2
<1>7. TypeOK'
  BY <1>1, <1>6, TypeParts DEF IInv
<1>8. Exclusive' /\ DirtyApart'
  BY <1>1, IdleType DEF IInv, Exclusive, DirtyApart, InTx
<1> QED
  BY <1>6, <1>7, <1>8 DEF IInv, HandlersKnow

(* What a transaction holds is held by no other. *)
LEMMA Untouchable ==
  ASSUME IInv, NEW r \in Requests, NEW S, Untouched(r, S)
  PROVE  \A q \in Requests \ {r} : tx[q].dirty \cap S = {}
<1> TAKE q \in Requests \ {r}
<1>1. CASE tx[q].pc \in InTx
  BY <1>1 DEF Untouched
<1>2. CASE tx[q].pc \notin InTx
  BY <1>2, HandlerType DEF RowsKnown, InTx
<1> QED
  BY <1>1, <1>2

(* A row is created once and for all; only its status changes. *)
Keeps(i) ==
  /\ otp'[i].purpose = otp[i].purpose /\ otp'[i].scope = otp[i].scope /\ otp'[i].via = otp[i].via
  /\ otp'[i].created = otp[i].created /\ otp'[i].expires = otp[i].expires

(* The row that is used was pending: in any other case nothing is changed. *)
LEMMA Used ==
  ASSUME IInv, NEW r \in Requests, Use(r), Pending(tx[r].code)
  PROVE  /\ tx[r].code \in Ids /\ tx[r].code \in 1 .. MaxCodes
         /\ otp' \in Seq(Row) /\ Len(otp') = Len(otp) /\ Ids' = Ids
         /\ \A i \in Ids : /\ Keeps(i)
                           /\ otp'[i].status = IF i = tx[r].code THEN "used" ELSE otp[i].status
         /\ grants' \in [1 .. MaxCodes -> Nat]
         /\ \A i \in 1 .. MaxCodes : i # tx[r].code => grants'[i] = grants[i]
<1>1. PICK c \in Ids : c = tx[r].code
  BY HandlerType DEF Use, RowsKnown
<1>2. otp \in [Ids -> Row] /\ Ids = 1 .. Len(otp) /\ Len(otp) \in Nat /\ Len(otp) <= MaxCodes
  BY DEF IInv, TypeOK, Ids
<1>3. c \in 1 .. MaxCodes
  BY <1>1, <1>2, OtpAssumption
<1>4. otp' = [otp EXCEPT ![c].status = "used"] /\ grants' = [grants EXCEPT ![c] = @ + 1]
  BY <1>1 DEF Use
<1>5. [otp[c] EXCEPT !.status = "used"] \in Row
  BY <1>1, <1>2 DEF Row
<1>6. otp' \in [1 .. Len(otp) -> Row]
  BY <1>1, <1>2, <1>4, <1>5
<1>7. otp' \in Seq(Row) /\ Len(otp') = Len(otp) /\ Ids' = Ids
  BY <1>2, <1>6 DEF Ids
<1>8. \A i \in Ids : otp[i] \in Row
  BY <1>2
<1>9. \A i \in Ids : /\ Keeps(i)
                     /\ otp'[i].status = IF i = c THEN "used" ELSE otp[i].status
  BY <1>1, <1>2, <1>4, <1>8 DEF Row, Keeps
<1>10. /\ grants' \in [1 .. MaxCodes -> Nat]
       /\ \A i \in 1 .. MaxCodes : i # c => grants'[i] = grants[i]
  BY <1>3, <1>4 DEF IInv, TypeOK
<1> QED
  BY <1>1, <1>3, <1>7, <1>9, <1>10

LEMMA UseStep ==
  ASSUME IInv, NEW r \in Requests, Use(r)
  PROVE  IInv'
<1>1. CASE ~Pending(tx[r].code)
  <2>1. End(r) /\ UNCHANGED <<clock, otp, grants>>
    BY <1>1 DEF Use
  <2> QED
    BY <2>1, EndStep
<1>2. CASE Pending(tx[r].code)
  <2>1. /\ tx[r].code \in Ids
        /\ otp' \in Seq(Row) /\ Len(otp') = Len(otp) /\ Ids' = Ids
        /\ \A i \in Ids : /\ otp'[i].purpose = otp[i].purpose /\ otp'[i].scope = otp[i].scope
                          /\ otp'[i].status = IF i = tx[r].code THEN "used" ELSE otp[i].status
        /\ grants' \in [1 .. MaxCodes -> Nat]
    BY <1>2, Used DEF Keeps
  <2>2. \A i \in Ids : Pending(i)' <=> Pending(i) /\ i # tx[r].code
    BY <2>1 DEF Pending
  <2>3. \A q \in Requests \ {r} : tx[q].dirty \cap {tx[r].code} = {}
    BY Untouchable DEF Use
  <2>4. \A q \in Requests \ {r} : \A i \in tx[q].dirty : Pending(i)'
    BY <2>2, <2>3, HandlerType DEF RowsKnown
  <2>5. NewestPerLock' /\ ScopesTrue'
    BY <2>1, <2>2 DEF IInv, NewestPerLock, ScopesTrue
  <2>6. RoomKept'
    <3>1. Creating' = Creating
      BY IdleType, HandlerType DEF Use, End, Creating, KindFits, IInv, TypeOK
    <3> QED
      BY <2>1, <3>1 DEF IInv, RoomKept
  <2>7. Len(otp') <= MaxCodes /\ End(r) /\ clock' = clock
    BY <2>1 DEF IInv, TypeOK, Use
  <2> QED
    BY <2>1, <2>2, <2>4, <2>5, <2>6, <2>7, CommitStep
<1> QED
  BY <1>1, <1>2
(* The new row comes after all others; the rows the transaction held are   *)
(* invalidated and the rest is as it was.                                  *)
LEMMA Created ==
  ASSUME IInv, NEW r \in Requests, Create(r), Len(otp) < MaxCodes
  PROVE  /\ otp' \in Seq(Row) /\ Len(otp') = Len(otp) + 1
         /\ Ids' = Ids \cup {Len(otp) + 1} /\ Ids = 1 .. Len(otp) /\ Len(otp) \in Nat
         /\ \A i \in Ids : /\ Keeps(i)
                           /\ otp'[i].status = IF i \in tx[r].dirty THEN "invalidated"
                                                                   ELSE otp[i].status
         /\ otp'[Len(otp) + 1].purpose = tx[r].purpose
         /\ otp'[Len(otp) + 1].scope = tx[r].scope
         /\ otp'[Len(otp) + 1].status = "pending"
         /\ otp'[Len(otp) + 1].created = clock /\ otp'[Len(otp) + 1].via = tx[r].kind
<1>1. PICK old : old = [i \in Ids |-> IF i \in tx[r].dirty
                                     THEN [otp[i] EXCEPT !.status = "invalidated"] ELSE otp[i]]
  OBVIOUS
<1>2. PICK new : new = [purpose |-> tx[r].purpose, created |-> clock, expires |-> tx[r].expires,
                        ip |-> tx[r].ip, status |-> "pending", via |-> tx[r].kind,
                        scope |-> tx[r].scope]
  OBVIOUS
<1>3. Ids = 1 .. Len(otp) /\ Len(otp) \in Nat /\ \A i \in Ids : otp[i] \in Row
  BY DEF IInv, TypeOK, Ids
<1>4. \A i \in Ids : /\ old[i] \in Row
                     /\ old[i].purpose = otp[i].purpose /\ old[i].scope = otp[i].scope
                     /\ old[i].created = otp[i].created /\ old[i].expires = otp[i].expires
                     /\ old[i].via = otp[i].via
                     /\ old[i].status = IF i \in tx[r].dirty THEN "invalidated"
                                                            ELSE otp[i].status
  <2> TAKE i \in Ids
  <2>1. CASE i \in tx[r].dirty
    BY <1>1, <1>3, <2>1 DEF Row
  <2>2. CASE i \notin tx[r].dirty
    BY <1>1, <1>3, <2>2 DEF Row
  <2> QED
    BY <2>1, <2>2
<1>5. old \in Seq(Row) /\ Len(old) = Len(otp)
  <2>1. old \in [1 .. Len(otp) -> Row]
    BY <1>1, <1>3, <1>4
  <2> QED
    BY <1>3, <2>1
<1>6. new \in Row
  BY <1>2, HandlerType DEF Create, KindFits, NamesRows, Tx, Row, IInv, TypeOK
<1>7. otp' = Append(old, new)
  BY <1>1, <1>2 DEF Create
<1>8. /\ otp' \in Seq(Row) /\ Len(otp') = Len(otp) + 1
      /\ otp'[Len(otp) + 1] = new /\ \A i \in 1 .. Len(otp) : otp'[i] = old[i]
  BY <1>3, <1>5, <1>6, <1>7
<1>9. Ids' = 1 .. Len(otp) + 1
  BY <1>8 DEF Ids
<1> QED
  BY <1>2, <1>3, <1>4, <1>8, <1>9 DEF Keeps

(* The room the code was given when its request entered. *)
LEMMA CreateRoom ==
  ASSUME IInv, NEW r \in Requests, Create(r)
  PROVE  /\ Cardinality(Creating) \in Nat /\ Cardinality(Creating') \in Nat
         /\ Cardinality(Creating') = Cardinality(Creating) - 1
         /\ Len(otp) < MaxCodes /\ Len(otp) \in Nat
<1>1. tx[r] \in Tx /\ tx[r].pc = "create" /\ End(r) /\ KindFits(tx[r])
  BY HandlerType DEF Create
<1>2. /\ Creating' = Creating \ {r} /\ r \in Creating /\ Creating \in SUBSET Requests
  BY <1>1, IdleType DEF Creating, KindFits, End, IInv, TypeOK
<1>3. /\ Cardinality(Creating) \in Nat /\ Cardinality(Creating') \in Nat
      /\ Cardinality(Creating') = Cardinality(Creating) - 1 /\ Cardinality(Creating) >= 1
  <2>1. IsFiniteSet(Creating) /\ Cardinality(Creating) \in Nat
    BY <1>2, Sizes
  <2>2. Creating' \in SUBSET Requests
    BY <1>2
  <2>3. Cardinality(Creating') \in Nat
    BY <2>2, Sizes
  <2>4. Cardinality(Creating \ {r}) = Cardinality(Creating) - 1
    BY <1>2, <2>1, FS_RemoveElement
  <2> QED
    BY <1>2, <2>1, <2>3, <2>4
<1>4. Len(otp) < MaxCodes /\ Len(otp) \in Nat
  BY <1>3, OtpAssumption DEF IInv, RoomKept, TypeOK
<1> QED
  BY <1>3, <1>4

LEMMA CreateStep ==
  ASSUME IInv, NEW r \in Requests, Create(r)
  PROVE  IInv'
<1>1. /\ tx[r] \in Tx /\ tx[r].pc = "create" /\ End(r) /\ clock' = clock /\ grants' = grants
      /\ KindFits(tx[r]) /\ RowsKnown(tx[r]) /\ NamesRows(tx[r])
  BY HandlerType DEF Create
<1>3. /\ Cardinality(Creating) \in Nat /\ Cardinality(Creating') \in Nat
      /\ Cardinality(Creating') = Cardinality(Creating) - 1
      /\ Len(otp) < MaxCodes /\ Len(otp) \in Nat
  BY CreateRoom
<1>4. Len(otp) < MaxCodes /\ Len(otp) \in Nat
  BY <1>3
<1>5. PICK n : n = Len(otp) + 1
  OBVIOUS
<1>6. /\ otp' \in Seq(Row) /\ Len(otp') = n
      /\ Ids' = Ids \cup {n} /\ Ids = 1 .. Len(otp)
      /\ \A i \in Ids : /\ otp'[i].purpose = otp[i].purpose /\ otp'[i].scope = otp[i].scope
                        /\ otp'[i].status = IF i \in tx[r].dirty THEN "invalidated"
                                                                ELSE otp[i].status
      /\ otp'[n].purpose = tx[r].purpose /\ otp'[n].scope = tx[r].scope
      /\ otp'[n].status = "pending"
  BY <1>4, <1>5, Created DEF Keeps
<1>7. /\ \A i \in Ids : i < n /\ (Pending(i)' <=> Pending(i) /\ i \notin tx[r].dirty)
      /\ Ids' \ Ids = {n}
  BY <1>4, <1>5, <1>6 DEF Pending
<1>8. NewestPerLock'
  <2> SUFFICES ASSUME NEW i \in Ids', NEW j \in Ids', i < j,
                      otp'[i].purpose = otp'[j].purpose, otp'[i].scope = otp'[j].scope
               PROVE  ~Pending(i)'
    BY DEF NewestPerLock
  <2>1. i \in Ids
    BY <1>4, <1>5, <1>6
  <2>2. CASE j \in Ids
    BY <1>6, <1>7, <2>1, <2>2 DEF IInv, NewestPerLock
  <2>3. CASE j = n
    <3>1. Pending(i) => i \in Rivals(tx[r])
      BY <1>6, <2>1, <2>3 DEF Rivals
    <3> QED
      BY <1>1, <1>7, <2>1, <3>1 DEF RowsKnown
  <2> QED
    BY <1>6, <2>2, <2>3
<1>9. ScopesTrue'
  <2>1. otp'[n].scope = otp'[n].purpose \/ otp'[n].scope \in ResendScopes \ Purposes
    BY <1>1, <1>6, OtpAssumption DEF KindFits
  <2> QED
    BY <1>6, <2>1 DEF IInv, ScopesTrue
<1>10. \A q \in Requests \ {r} : \A i \in tx[q].dirty : Pending(i)'
  BY <1>7, HandlerType DEF IInv, DirtyApart, RowsKnown
<1>11. \A q \in Requests \ {r} : \A i \in Ids' \ Ids :
          tx[q].pc \in {"invalidate", "create"} => otp'[i].scope # tx[q].scope
  BY <1>1, <1>6, <1>7 DEF IInv, Exclusive, InTx
<1>12. RoomKept'
  BY <1>3, <1>4, <1>5, <1>6, OtpAssumption DEF IInv, RoomKept
<1>13. Len(otp') <= MaxCodes /\ Ids \subseteq Ids' /\ grants' \in [1 .. MaxCodes -> Nat]
  BY <1>1, <1>4, <1>5, <1>6, OtpAssumption DEF IInv, TypeOK
<1> QED
  BY <1>1, <1>6, <1>7, <1>8, <1>9, <1>10, <1>11, <1>12, <1>13, CommitStep

-----------------------------------------------------------------------------
LEMMA TickStep ==
  ASSUME IInv, Tick
  PROVE  IInv'
<1>1. clock' \in 0 .. MaxClock /\ UNCHANGED <<otp, tx, grants>> /\ Ids' = Ids
  BY OtpAssumption DEF Tick, IInv, TypeOK, Ids
<1> QED
  BY <1>1 DEF IInv, TypeOK, Exclusive, HandlersKnow, KindFits, RowsKnown, Rivals, Pending,
              DirtyApart, NewestPerLock, ScopesTrue, RoomKept, Creating

LEMMA StutterStep ==
  ASSUME IInv, UNCHANGED vars
  PROVE  IInv'
BY DEF vars, Ids, IInv, TypeOK, Exclusive, HandlersKnow, KindFits, RowsKnown, Rivals, Pending,
       DirtyApart, NewestPerLock, ScopesTrue, RoomKept, Creating

LEMMA StepIInv == IInv /\ [Next]_vars => IInv'
<1> SUFFICES ASSUME IInv, [Next]_vars PROVE IInv'
  OBVIOUS
<1>1. ASSUME NEW r \in Requests, Lock(r) \/ Statement(r) \/ Crash(r)
      PROVE  IInv'
  <2>1. CASE Crash(r)
    BY <2>1, EndStep DEF Crash
  <2> QED
    BY <1>1, <2>1, LockStep, ReadLatestStep, ThrottleStep, SnapshotStep, InvalidateStep,
       CreateStep, FindStep, UseStep DEF Statement
<1>2. ASSUME NEW r \in Requests, NEW p \in Purposes, NEW ip \in Addresses, StartStore(r, p, ip)
      PROVE  IInv'
  BY <1>2, StartStoreStep
<1>3. ASSUME NEW r \in Requests, NEW s \in ResendScopes, NEW ip \in Addresses,
             StartResend(r, s, ip)
      PROVE  IInv'
  BY <1>3, StartResendStep
<1>4. ASSUME NEW r \in Requests, NEW p \in Purposes, NEW c \in {0} \cup Ids,
             NEW ip \in Addresses, StartConsume(r, p, c, ip)
      PROVE  IInv'
  BY <1>4, StartConsumeStep
<1>5. CASE Tick
  BY <1>5, TickStep
<1>6. CASE UNCHANGED vars
  BY <1>6, StutterStep
<1> QED
  BY <1>1, <1>2, <1>3, <1>4, <1>5, <1>6 DEF Next

LEMMA AlwaysIInv == Spec => []IInv
<1> QED
  BY InitIInv, StepIInv, PTL DEF Spec

-----------------------------------------------------------------------------
(* Transactions and rows are always of their types. *)
THEOREM TypeCorrect == Spec => []TypeOK
<1>1. IInv => TypeOK
  BY DEF IInv
<1> QED
  BY <1>1, AlwaysIInv, PTL

(* Two pending codes of one purpose were made under different locks. *)
THEOREM PendingApart == Spec => []OnePendingPerLock
<1>1. IInv => OnePendingPerLock
  <2> SUFFICES ASSUME IInv, NEW i \in Ids, NEW j \in Ids, Pending(i), Pending(j),
                      otp[i].purpose = otp[j].purpose, otp[i].scope = otp[j].scope
               PROVE  i = j
    BY DEF OnePendingPerLock
  <2>1. ~(i < j) /\ ~(j < i)
    BY DEF IInv, NewestPerLock
  <2>2. i \in Nat /\ j \in Nat
    BY DEF IInv, TypeOK, Ids
  <2> QED
    BY <2>1, <2>2
<1> QED
  BY <1>1, AlwaysIInv, PTL

(* When every resend names its purpose all codes of a purpose are made     *)
(* under one lock. *)
LEMMA OneLock ==
  ASSUME ResendScopes \subseteq Purposes, IInv, NEW i \in Ids
  PROVE  otp[i].scope = otp[i].purpose
BY DEF IInv, ScopesTrue

(* Then a purpose never has two pending codes, *)
THEOREM OnePending ==
  ASSUME ResendScopes \subseteq Purposes
  PROVE  Spec => []OnePendingPerPurpose
<1>1. IInv => OnePendingPerPurpose
  <2> SUFFICES ASSUME IInv, NEW p \in Purposes
               PROVE  Cardinality(PendingOf({p})) <= 1
    BY DEF OnePendingPerPurpose
  <2>1. ASSUME NEW i \in PendingOf({p}), NEW j \in PendingOf({p})
        PROVE  i = j
    <3>1. /\ i \in Ids /\ j \in Ids /\ Pending(i) /\ Pending(j)
          /\ otp[i].purpose = p /\ otp[j].purpose = p
      BY DEF PendingOf
    <3>2. ~(i < j) /\ ~(j < i)
      BY <3>1, OneLock DEF IInv, NewestPerLock
    <3>3. i \in Nat /\ j \in Nat
      BY <3>1 DEF IInv, TypeOK, Ids
    <3> QED
      BY <3>2, <3>3
  <2>2. CASE PendingOf({p}) = {}
    BY <2>2, FS_EmptySet
  <2>3. ASSUME NEW i \in PendingOf({p})
        PROVE  Cardinality(PendingOf({p})) <= 1
    <3>1. PendingOf({p}) = {i}
      BY <2>1
    <3>2. Cardinality({i}) = 1
      BY FS_Singleton
    <3> QED
      BY <3>1, <3>2
  <2> QED
    BY <2>2, <2>3
<1> QED
  BY <1>1, AlwaysIInv, PTL

(* and the code a caller is let in with is the newest of its purpose. *)
THEOREM NewestAccepted ==
  ASSUME ResendScopes \subseteq Purposes
  PROVE  Spec => NewestIsAccepted
<1>1. ASSUME IInv, [Next]_vars
      PROVE  [\A i \in Ids : grants'[i] > grants[i] => \A j \in Ids : i \notin Before(j)]_vars
  <2>1. CASE grants' = grants
    <3>1. \A i \in Ids : ~(grants[i] > grants[i])
      <4>1. Ids \subseteq 1 .. MaxCodes
        BY <1>1, OtpAssumption DEF IInv, TypeOK, Ids
      <4> QED
        BY <1>1, <4>1 DEF IInv, TypeOK
    <3> QED
      BY <2>1, <3>1
  <2>2. ASSUME NEW r \in Requests, Use(r), Pending(tx[r].code)
        PROVE  \A i \in Ids : grants'[i] > grants[i] => \A j \in Ids : i \notin Before(j)
    <3> SUFFICES ASSUME NEW i \in Ids, grants'[i] > grants[i], NEW j \in Ids, i \in Before(j)
                 PROVE  FALSE
      OBVIOUS
    <3>1. i \in 1 .. MaxCodes
      BY <1>1, OtpAssumption DEF IInv, TypeOK, Ids
    <3>2. i = tx[r].code
      BY <1>1, <2>2, <3>1, Used DEF IInv, TypeOK
    <3>3. i < j /\ otp[j].purpose = otp[i].purpose
      BY <1>1, <3>1 DEF Before, IInv, TypeOK, Ids
    <3> QED
      BY <1>1, <2>2, <3>2, <3>3, OneLock DEF IInv, NewestPerLock
  <2>3. grants' = grants \/ \E r \in Requests : Use(r) /\ Pending(tx[r].code)
    BY <1>1 DEF Next, Statement, Lock, ReadLatest, Throttle, Snapshot, Invalidate, Create, Find,
                Use, Crash, StartStore, StartResend, StartConsume, Tick, vars
  <2> QED
    BY <2>1, <2>2, <2>3
<1> QED
  BY <1>1, AlwaysIInv, PTL DEF Spec, NewestIsAccepted

-----------------------------------------------------------------------------
(* Throttling.  The newest row of a purpose, *)
Last(j, p) == /\ j \in Ids /\ otp[j].purpose = p
              /\ \A k \in Ids : otp[k].purpose = p => k <= j

(* which is the one a resend measures its cooldown from; from then on it   *)
(* has the lock, and time only makes room. *)
Throttled(h) ==
  /\ h.pc = "throttle" => h.now \in Nat /\ h.now <= clock /\ Last(h.latest, h.purpose)
  /\ h.kind = "resend" /\ h.pc \in {"snapshot", "invalidate", "create"} =>
       /\ Cardinality(RecentlyCreated(h.purpose, clock)) < MaxPerWindow
       /\ \A j \in Ids : Last(j, h.purpose) => ~OnCooldown(j, clock)

Throttling == ResendThrottled /\ \A r \in Requests : Throttled(tx[r])

LEMMA RowTimes ==
  ASSUME IInv
  PROVE  /\ clock \in Nat /\ Ids = 1 .. Len(otp) /\ Len(otp) \in Nat
         /\ \A i \in Ids : /\ otp[i].created \in Nat /\ otp[i].expires \in Nat
                           /\ otp[i].purpose \in Purposes
<1>1. clock \in Nat /\ Ids = 1 .. Len(otp) /\ Len(otp) \in Nat /\ \A i \in Ids : otp[i] \in Row
  BY OtpAssumption DEF IInv, TypeOK, Ids
<1> QED
  BY <1>1, OtpAssumption DEF Row

(* Windows. *)
LEMMA Windows ==
  ASSUME IInv, NEW S \in SUBSET Ids, NEW T \in SUBSET S
  PROVE  /\ Cardinality(S) \in Nat /\ Cardinality(T) \in Nat
         /\ Cardinality(T) <= Cardinality(S)
<1>1. IsFiniteSet(Ids)
  BY RowTimes, FS_Interval
<1> QED
  BY <1>1, FS_Subset, FS_CardinalityType

LEMMA TimeMakesRoom ==
  ASSUME IInv, NEW now \in Nat, NEW later \in Nat, now <= later, NEW p
  PROVE  /\ Cardinality(RecentlyCreated(p, later)) \in Nat
         /\ Cardinality(RecentlyCreated(p, now)) \in Nat
         /\ Cardinality(RecentlyCreated(p, later)) <= Cardinality(RecentlyCreated(p, now))
         /\ \A j \in Ids : OnCooldown(j, later) => OnCooldown(j, now)
<1>1. /\ RecentlyCreated(p, now) \in SUBSET Ids
      /\ RecentlyCreated(p, later) \in SUBSET RecentlyCreated(p, now)
  BY RowTimes, OtpAssumption DEF RecentlyCreated
<1>2. ASSUME NEW j \in Ids, OnCooldown(j, later)
      PROVE  OnCooldown(j, now)
  <2>1. otp[j].created \in Nat /\ otp[j].expires \in Nat
    BY RowTimes
  <2>2. Cooldown \in Nat /\ Skew \in Nat
    BY OtpAssumption
  <2> QED
    BY <1>2, <2>1, <2>2 DEF OnCooldown
<1> QED
  BY <1>1, <1>2, Windows

(* A transaction moves while the rows and the clock stay. *)
LEMMA ThrottledMove ==
  ASSUME IInv, Throttling, NEW r \in Requests, NEW h, tx' = [tx EXCEPT ![r] = h],
         UNCHANGED <<clock, otp>>, Throttled(h)
  PROVE  Throttling'
<1>1. \A q \in Requests : tx'[q] = IF q = r THEN h ELSE tx[q]
  BY DEF IInv, TypeOK
<1>2. Ids' = Ids /\ \A i : Before(i)' = Before(i) /\ InWindow(i)' = InWindow(i)
  BY DEF Ids, Before, InWindow
<1>3. ResendThrottled'
  BY <1>2 DEF Throttling, ResendThrottled
<1>4. \A g : Throttled(g)' <=> Throttled(g)
  BY <1>2 DEF Throttled, Last, RecentlyCreated, OnCooldown
<1>5. \A q \in Requests : Throttled(tx[q])'
  <2> TAKE q \in Requests
  <2>1. PICK g : g = tx'[q]
    OBVIOUS
  <2>2. Throttled(g)
    BY <1>1, <2>1 DEF Throttling
  <2> QED
    BY <1>4, <2>1, <2>2
<1> QED
  BY <1>3, <1>5 DEF Throttling

LEMMA IdleThrottled == Throttled(Idle)
BY IdleType DEF Throttled

(* Every resend finds the newest row of the purpose it names, *)
LEMMA ReadLatestThrottled ==
  ASSUME ResendScopes \subseteq Purposes, IInv, Throttling, NEW r \in Requests, ReadLatest(r)
  PROVE  Throttling'
<1>1. /\ tx[r] \in Tx /\ KindFits(tx[r]) /\ tx[r].pc = "latest" /\ UNCHANGED <<clock, otp>>
  BY HandlerType DEF ReadLatest
<1>2. CASE End(r)
  BY <1>1, <1>2, IdleThrottled, ThrottledMove DEF End
<1>3. ASSUME NEW i \in Latest(ResendOf(r)), Found(r, i, otp[i].purpose)
      PROVE  Throttling'
  <2>1. ResendOf(r) = PendingOf({tx[r].scope})
    BY <1>1, OtpAssumption DEF ResendOf, KindFits
  <2>2. i \in Ids /\ Pending(i) /\ otp[i].purpose = tx[r].scope
    BY <2>1 DEF Latest, PendingOf
  <2>3. PICK p : p = otp[i].purpose
    OBVIOUS
  <2>4. Last(i, p)
    <3> SUFFICES ASSUME NEW k \in Ids, otp[k].purpose = p, ~(k <= i)
                 PROVE  FALSE
      BY <2>2, <2>3 DEF Last
    <3>1. i < k
      BY <2>2, RowTimes
    <3>2. otp[i].scope = otp[k].scope /\ otp[i].purpose = otp[k].purpose
      BY <2>2, <2>3, OneLock
    <3> QED
      BY <2>2, <3>1, <3>2 DEF IInv, NewestPerLock
  <2>5. PICK h : h = [tx[r] EXCEPT !.pc = "throttle", !.purpose = p, !.latest = i, !.now = clock]
    OBVIOUS
  <2>6. h.pc = "throttle" /\ h.now = clock /\ h.latest = i /\ h.purpose = p
    BY <1>1, <2>5 DEF Tx
  <2>7. Throttled(h)
    BY <2>4, <2>6, RowTimes DEF Throttled
  <2>8. tx' = [tx EXCEPT ![r] = h]
    BY <1>3, <2>3, <2>5 DEF Found
  <2> QED
    BY <1>1, <2>7, <2>8, ThrottledMove
<1> QED
  BY <1>2, <1>3 DEF ReadLatest

(* and goes on only when there is room and that row has rested. *)
LEMMA ThrottleThrottled ==
  ASSUME IInv, Throttling, NEW r \in Requests, Throttle(r)
  PROVE  Throttling'
<1>1. /\ tx[r] \in Tx /\ tx[r].pc = "throttle" /\ UNCHANGED <<clock, otp>>
      /\ Throttled(tx[r]) /\ KindFits(tx[r])
  BY HandlerType DEF Throttle, Throttling
<1>2. CASE End(r)
  BY <1>1, <1>2, IdleThrottled, ThrottledMove DEF End
<1>3. CASE /\ Move(r, "snapshot")
           /\ ~(Cardinality(RecentlyCreated(tx[r].purpose, tx[r].now)) >= MaxPerWindow)
           /\ ~OnCooldown(tx[r].latest, tx[r].now)
  <2>1. PICK h : h = [tx[r] EXCEPT !.pc = "snapshot"]
    OBVIOUS
  <2>2. h.pc = "snapshot" /\ h.kind = tx[r].kind /\ h.purpose = tx[r].purpose
    BY <1>1, <2>1 DEF Tx
  <2>3. tx[r].now \in Nat /\ tx[r].now <= clock /\ Last(tx[r].latest, tx[r].purpose)
    BY <1>1 DEF Throttled
  <2>4. Cardinality(RecentlyCreated(h.purpose, clock)) < MaxPerWindow
    <3>1. PICK now \in Nat : now = tx[r].now /\ now <= clock
      BY <2>3
    <3>2. /\ Cardinality(RecentlyCreated(h.purpose, clock)) \in Nat
          /\ Cardinality(RecentlyCreated(h.purpose, now)) \in Nat
          /\ Cardinality(RecentlyCreated(h.purpose, clock))
               <= Cardinality(RecentlyCreated(h.purpose, now))
      BY <3>1, RowTimes, TimeMakesRoom
    <3>3. ~(Cardinality(RecentlyCreated(h.purpose, now)) >= MaxPerWindow)
      BY <1>3, <2>2, <3>1
    <3> QED
      BY <3>2, <3>3, OtpAssumption
  <2>5. ASSUME NEW j \in Ids, Last(j, h.purpose)
        PROVE  ~OnCooldown(j, clock)
    <3>1. j = tx[r].latest
      BY <2>2, <2>3, <2>5, RowTimes DEF Last
    <3> QED
      BY <1>3, <2>3, <3>1, RowTimes, TimeMakesRoom
  <2>6. Throttled(h)
    BY <2>2, <2>4, <2>5 DEF Throttled
  <2>7. tx' = [tx EXCEPT ![r] = h]
    BY <1>3, <2>1 DEF Move
  <2> QED
    BY <1>1, <2>6, <2>7, ThrottledMove
<1> QED
  BY <1>1, <1>2, <1>3 DEF Throttle

LEMMA SnapshotThrottled ==
  ASSUME IInv, Throttling, NEW r \in Requests, Snapshot(r) \/ Invalidate(r)
  PROVE  Throttling'
<1>1. /\ tx[r] \in Tx /\ tx[r].pc \in {"snapshot", "invalidate"} /\ UNCHANGED <<clock, otp>>
      /\ Throttled(tx[r])
  BY HandlerType DEF Snapshot, Invalidate, Throttling
<1>2. PICK h : /\ tx' = [tx EXCEPT ![r] = h] /\ h.pc \in {"invalidate", "create"}
               /\ h.kind = tx[r].kind /\ h.purpose = tx[r].purpose
  BY <1>1 DEF Snapshot, Invalidate, Tx
<1>3. Throttled(h)
  BY <1>1, <1>2 DEF Throttled
<1> QED
  BY <1>1, <1>2, <1>3, ThrottledMove

LEMMA MoveThrottled ==
  ASSUME IInv, Throttling, NEW r \in Requests, Lock(r) \/ Find(r)
  PROVE  Throttling'
<1>1. tx[r] \in Tx /\ KindFits(tx[r]) /\ UNCHANGED <<clock, otp>>
  BY HandlerType DEF Lock, Find
<1>2. CASE End(r)
  BY <1>1, <1>2, IdleThrottled, ThrottledMove DEF End
<1>3. ASSUME NEW step, Move(r, step), step \in {"latest", "find", "use", "snapshot"},
             step = "snapshot" => tx[r].kind = "store"
      PROVE  Throttling'
  <2>1. PICK h : h = [tx[r] EXCEPT !.pc = step]
    OBVIOUS
  <2>2. h.pc = step /\ h.kind = tx[r].kind
    BY <1>1, <2>1 DEF Tx
  <2>3. Throttled(h) /\ tx' = [tx EXCEPT ![r] = h]
    BY <1>3, <2>1, <2>2 DEF Throttled, Move
  <2> QED
    BY <1>1, <2>3, ThrottledMove
<1>4. CASE Lock(r)
  <2>1. tx[r].kind \in {"store", "resend", "consume"}
    BY <1>1, <1>4 DEF Lock, KindFits, Tx
  <2>2. PICK step : step = FirstStatement(tx[r].kind)
    OBVIOUS
  <2>3. /\ step \in {"latest", "find", "use", "snapshot"} /\ Move(r, step)
        /\ step = "snapshot" => tx[r].kind = "store"
    BY <1>4, <2>1, <2>2 DEF Lock, FirstStatement
  <2> QED
    BY <1>3, <2>3
<1>5. CASE Find(r)
  BY <1>2, <1>3, <1>5 DEF Find
<1> QED
  BY <1>4, <1>5

LEMMA StartThrottled ==
  ASSUME IInv, Throttling, NEW r \in Requests, UNCHANGED <<clock, otp>>,
         NEW h, tx' = [tx EXCEPT ![r] = h], h.pc = "lock"
  PROVE  Throttling'
<1>1. Throttled(h)
  BY DEF Throttled
<1> QED
  BY <1>1, ThrottledMove

LEMMA TickThrottled ==
  ASSUME IInv, Throttling, Tick
  PROVE  Throttling'
<1>1. clock \in Nat /\ clock' \in Nat /\ clock <= clock' /\ UNCHANGED <<otp, tx>> /\ Ids' = Ids
  BY RowTimes DEF Tick, Ids
<1>2. \A i : Before(i)' = Before(i) /\ InWindow(i)' = InWindow(i)
  BY <1>1 DEF Before, InWindow
<1>3. ResendThrottled'
  BY <1>1, <1>2 DEF Throttling, ResendThrottled
<1>4. \A q \in Requests : Throttled(tx[q])'
  <2> TAKE q \in Requests
  <2>1. PICK g : g = tx[q]
    OBVIOUS
  <2>2. Throttled(g)
    BY <2>1 DEF Throttling
  <2>3. /\ \A j, p : Last(j, p)' <=> Last(j, p)
        /\ \A p, now : RecentlyCreated(p, now)' = RecentlyCreated(p, now)
        /\ \A j, now : OnCooldown(j, now)' <=> OnCooldown(j, now)
    BY <1>1 DEF Last, RecentlyCreated, OnCooldown
  <2>4. Throttled(g)'
    <3>1. g.pc = "throttle" => g.now \in Nat /\ g.now <= clock' /\ Last(g.latest, g.purpose)'
      BY <1>1, <2>2, <2>3 DEF Throttled
    <3>2. ASSUME g.kind = "resend", g.pc \in {"snapshot", "invalidate", "create"}
          PROVE  /\ Cardinality(RecentlyCreated(g.purpose, clock)') < MaxPerWindow
                 /\ \A j \in Ids' : Last(j, g.purpose)' => ~OnCooldown(j, clock)'
      <4>1. PICK c \in Nat : c = clock' /\ clock <= c
        BY <1>1
      <4>2. /\ RecentlyCreated(g.purpose, clock)' = RecentlyCreated(g.purpose, c)
            /\ \A j : OnCooldown(j, clock)' <=> OnCooldown(j, c)
        BY <1>1, <4>1 DEF RecentlyCreated, OnCooldown
      <4>3. /\ Cardinality(RecentlyCreated(g.purpose, c)) \in Nat
            /\ Cardinality(RecentlyCreated(g.purpose, clock)) \in Nat
            /\ Cardinality(RecentlyCreated(g.purpose, c))
                 <= Cardinality(RecentlyCreated(g.purpose, clock))
            /\ \A j \in Ids : OnCooldown(j, c) => OnCooldown(j, clock)
        BY <1>1, <4>1, TimeMakesRoom
      <4>4. /\ Cardinality(RecentlyCreated(g.purpose, clock)) < MaxPerWindow
            /\ \A j \in Ids : Last(j, g.purpose) => ~OnCooldown(j, clock)
        BY <2>2, <3>2 DEF Throttled
      <4>5. Cardinality(RecentlyCreated(g.purpose, c)) < MaxPerWindow
        BY <4>3, <4>4, OtpAssumption
      <4> QED
        BY <1>1, <2>3, <4>2, <4>3, <4>4, <4>5
    <3> QED
      BY <3>1, <3>2 DEF Throttled
  <2> QED
    BY <1>1, <2>1, <2>4
<1> QED
  BY <1>3, <1>4 DEF Throttling

(* A commit that keeps the rows in place. *)
LEMMA BeforeKept ==
  ASSUME IInv, \A i \in Ids : Keeps(i), NEW i \in Ids
  PROVE  /\ Before(i)' = Before(i) /\ Before(i) \subseteq Ids
         /\ InWindow(i)' = InWindow(i)
<1>1. /\ Before(i) \subseteq Ids /\ 1 .. i - 1 \subseteq Ids
  BY RowTimes DEF Before
<1>2. Before(i)' = Before(i)
  BY <1>1 DEF Before, Keeps
<1>3. InWindow(i)' = InWindow(i)
  BY <1>1, <1>2 DEF InWindow, Keeps
<1> QED
  BY <1>1, <1>2, <1>3

LEMMA UseThrottled ==
  ASSUME IInv, Throttling, NEW r \in Requests, Use(r)
  PROVE  Throttling'
<1>1. CASE ~Pending(tx[r].code)
  BY <1>1, IdleThrottled, ThrottledMove DEF Use, End
<1>2. CASE Pending(tx[r].code)
  <2>1. Ids' = Ids /\ (\A i \in Ids : Keeps(i)) /\ clock' = clock
    BY <1>2, Used DEF Use
  <2>2. ResendThrottled'
    <3> SUFFICES ASSUME NEW i \in Ids, otp[i].via = "resend"
                 PROVE  /\ Cardinality(InWindow(i)') < MaxPerWindow
                        /\ \A j \in Before(i)' : Before(i)' \subseteq 1 .. j =>
                             \/ otp'[j].created + Cooldown <= otp'[i].created + Skew
                             \/ otp'[j].expires <= otp'[i].created + Skew
      BY <2>1 DEF ResendThrottled, Keeps
    <3> QED
      BY <2>1, BeforeKept DEF Throttling, ResendThrottled, Keeps
  <2>3. \A q \in Requests : tx'[q] = IF q = r THEN Idle ELSE tx[q]
    BY DEF Use, End, IInv, TypeOK
  <2>4. \A g : Throttled(g) => Throttled(g)'
    <3>1. /\ \A j, p : Last(j, p)' <=> Last(j, p)
          /\ \A p : RecentlyCreated(p, clock)' = RecentlyCreated(p, clock)
          /\ \A j \in Ids : OnCooldown(j, clock)' <=> OnCooldown(j, clock)
      BY <2>1 DEF Last, RecentlyCreated, OnCooldown, Keeps
    <3> QED
      BY <2>1, <3>1 DEF Throttled
  <2>5. \A q \in Requests : Throttled(tx[q])'
    <3> TAKE q \in Requests
    <3>1. PICK g : g = tx'[q]
      OBVIOUS
    <3>2. Throttled(g)
      BY <2>3, <3>1, IdleThrottled DEF Throttling
    <3> QED
      BY <2>4, <3>1, <3>2
  <2> QED
    BY <2>2, <2>5 DEF Throttling
<1> QED
  BY <1>1, <1>2

(* The created code is one more than were counted; the others that count   *)
(* have the lock of another purpose.                                       *)
LEMMA CreateThrottled ==
  ASSUME ResendScopes \subseteq Purposes, IInv, Throttling, NEW r \in Requests, Create(r)
  PROVE  Throttling'
<1>1. /\ tx[r] \in Tx /\ tx[r].pc = "create" /\ clock' = clock
      /\ KindFits(tx[r]) /\ Throttled(tx[r])
  BY HandlerType DEF Create, Throttling
<1>2. PICK n, p : n = Len(otp) + 1 /\ p = tx[r].purpose
  OBVIOUS
<1>3. /\ Ids' = Ids \cup {n} /\ Ids = 1 .. n - 1 /\ n \in Nat /\ n \notin Ids
      /\ \A i \in Ids : Keeps(i)
      /\ otp'[n].purpose = p /\ otp'[n].created = clock /\ otp'[n].via = tx[r].kind
  BY <1>2, Created, CreateRoom
<1>4. ResendThrottled'
  <2>1. ASSUME NEW i \in Ids, otp[i].via = "resend"
        PROVE  /\ Cardinality(InWindow(i)') < MaxPerWindow
               /\ \A j \in Before(i)' : Before(i)' \subseteq 1 .. j =>
                    \/ otp'[j].created + Cooldown <= otp'[i].created + Skew
                    \/ otp'[j].expires <= otp'[i].created + Skew
    BY <1>3, <2>1, BeforeKept DEF Throttling, ResendThrottled, Keeps
  <2>2. ASSUME tx[r].kind = "resend"
        PROVE  /\ Cardinality(InWindow(n)') < MaxPerWindow
               /\ \A j \in Before(n)' : Before(n)' \subseteq 1 .. j =>
                    \/ otp'[j].created + Cooldown <= otp'[n].created + Skew
                    \/ otp'[j].expires <= otp'[n].created + Skew
    <3>1. Before(n)' = {j \in Ids : otp[j].purpose = p}
      BY <1>3 DEF Before, Keeps
    <3>2. InWindow(n)' = RecentlyCreated(p, clock)
      BY <1>3, <3>1 DEF InWindow, RecentlyCreated, Keeps
    <3>3. /\ Cardinality(RecentlyCreated(p, clock)) < MaxPerWindow
          /\ \A j \in Ids : Last(j, p) => ~OnCooldown(j, clock)
      BY <1>1, <1>2, <2>2 DEF Throttled
    <3>4. ASSUME NEW j \in Before(n)', Before(n)' \subseteq 1 .. j
          PROVE  \/ otp'[j].created + Cooldown <= otp'[n].created + Skew
                 \/ otp'[j].expires <= otp'[n].created + Skew
      <4>1. Last(j, p)
        BY <1>3, <3>1, <3>4 DEF Last
      <4>2. ~OnCooldown(j, clock) /\ j \in Ids
        BY <3>1, <3>3, <4>1
      <4>3. /\ otp[j].created \in Nat /\ otp[j].expires \in Nat
            /\ clock \in Nat /\ Cooldown \in Nat /\ Skew \in Nat
        BY <4>2, RowTimes, OtpAssumption
      <4>4. /\ otp'[j].created = otp[j].created /\ otp'[j].expires = otp[j].expires
            /\ otp'[n].created = clock
        BY <1>3, <4>2 DEF Keeps
      <4> QED
        BY <4>2, <4>3, <4>4 DEF OnCooldown
    <3> QED
      BY <3>2, <3>3, <3>4
  <2>3. SUFFICES ASSUME NEW i \in Ids', otp'[i].via = "resend"
                 PROVE  /\ Cardinality(InWindow(i)') < MaxPerWindow
                        /\ \A j \in Before(i)' : Before(i)' \subseteq 1 .. j =>
                             \/ otp'[j].created + Cooldown <= otp'[i].created + Skew
                             \/ otp'[j].expires <= otp'[i].created + Skew
    BY DEF ResendThrottled
  <2>4. CASE i \in Ids
    BY <1>3, <2>1, <2>3, <2>4 DEF Keeps
  <2>5. CASE i = n
    BY <1>3, <2>2, <2>3, <2>5
  <2> QED
    BY <1>3, <2>4, <2>5
<1>5. \A q \in Requests : tx'[q] = IF q = r THEN Idle ELSE tx[q]
  BY DEF Create, End, IInv, TypeOK
<1>6. ASSUME NEW q \in Requests \ {r}
      PROVE  Throttled(tx[q])'
  <2>1. PICK g \in Tx : g = tx[q] /\ tx'[q] = g /\ KindFits(g) /\ Throttled(g)
    BY <1>5, HandlerType DEF Throttling
  <2>2. g.kind = "resend" /\ g.pc \in {"throttle", "snapshot", "invalidate", "create"}
          => g.purpose # p
    BY <1>1, <1>2, <2>1, OtpAssumption DEF IInv, Exclusive, KindFits, InTx
  <2>3. ASSUME g.purpose # p
        PROVE  /\ \A j : Last(j, g.purpose)' <=> Last(j, g.purpose)
               /\ RecentlyCreated(g.purpose, clock)' = RecentlyCreated(g.purpose, clock)
               /\ \A j \in Ids : OnCooldown(j, clock)' <=> OnCooldown(j, clock)
    BY <1>1, <1>3, <2>3 DEF Last, RecentlyCreated, OnCooldown, Keeps
  <2>4. g.pc = "throttle" => g.kind = "resend"
    BY <2>1 DEF KindFits
  <2>5. g.pc = "throttle" => g.now \in Nat /\ g.now <= clock' /\ Last(g.latest, g.purpose)'
    BY <1>1, <2>1, <2>2, <2>3, <2>4 DEF Throttled
  <2>6. ASSUME g.kind = "resend", g.pc \in {"snapshot", "invalidate", "create"}
        PROVE  /\ Cardinality(RecentlyCreated(g.purpose, clock)') < MaxPerWindow
               /\ \A j \in Ids' : Last(j, g.purpose)' => ~OnCooldown(j, clock)'
    <3>1. g.purpose # p
      BY <2>2, <2>6
    <3>2. \A j \in Ids' : Last(j, g.purpose) => j \in Ids
      BY DEF Last
    <3> QED
      BY <2>1, <2>3, <2>6, <3>1, <3>2 DEF Throttled
  <2>7. Throttled(g)'
    BY <2>5, <2>6 DEF Throttled
  <2> QED
    BY <2>1, <2>7
<1>7. \A q \in Requests : Throttled(tx[q])'
  <2> TAKE q \in Requests
  <2>1. CASE q = r
    <3>1. tx'[q] = Idle
      BY <1>5, <2>1
    <3> QED
      BY <3>1, IdleType DEF Throttled
  <2> QED
    BY <1>6, <2>1
<1> QED
  BY <1>4, <1>7 DEF Throttling

(* When every resend names its purpose, resends are throttled.             *)
THEOREM ResendsThrottled ==
  ASSUME ResendScopes \subseteq Purposes
  PROVE  Spec => []ResendThrottled
<1>1. Init => Throttling
  <2> SUFFICES ASSUME Init PROVE Throttling
    OBVIOUS
  <2>1. Ids = {} /\ \A q \in Requests : tx[q] = Idle
    BY DEF Init, Ids
  <2> QED
    BY <2>1, IdleThrottled DEF Throttling, ResendThrottled
<1>2. ASSUME IInv, Throttling, [Next]_vars PROVE Throttling'
  <2>1. ASSUME NEW r \in Requests, Lock(r) \/ Statement(r) \/ Crash(r)
        PROVE  Throttling'
    <3>1. CASE Crash(r)
      BY <1>2, <3>1, IdleThrottled, ThrottledMove DEF Crash, End
    <3> QED
      BY <1>2, <2>1, <3>1, MoveThrottled, ReadLatestThrottled, ThrottleThrottled,
         SnapshotThrottled, CreateThrottled, UseThrottled DEF Statement
  <2>2. ASSUME NEW r \in Requests, NEW p \in Purposes, NEW ip \in Addresses, StartStore(r, p, ip)
        PROVE  Throttling'
    <3>1. PICK h : /\ h = [Idle EXCEPT !.pc = "lock", !.kind = "store", !.scope = p,
                                       !.purpose = p, !.ip = ip, !.expires = clock + TTL]
                   /\ tx' = [tx EXCEPT ![r] = h] /\ UNCHANGED <<clock, otp>>
      BY <2>2 DEF StartStore
    <3>2. h.pc = "lock"
      BY <3>1, IdleType DEF Tx
    <3> QED
      BY <1>2, <3>1, <3>2, StartThrottled
  <2>3. ASSUME NEW r \in Requests, NEW s \in ResendScopes, NEW ip \in Addresses,
               StartResend(r, s, ip)
        PROVE  Throttling'
    <3>1. PICK h : /\ h = [Idle EXCEPT !.pc = "lock", !.kind = "resend", !.scope = s,
                                       !.ip = ip, !.expires = clock + TTL]
                   /\ tx' = [tx EXCEPT ![r] = h] /\ UNCHANGED <<clock, otp>>
      BY <2>3 DEF StartResend
    <3>2. h.pc = "lock"
      BY <3>1, IdleType DEF Tx
    <3> QED
      BY <1>2, <3>1, <3>2, StartThrottled
  <2>4. ASSUME NEW r \in Requests, NEW p \in Purposes, NEW c, NEW ip \in Addresses,
               StartConsume(r, p, c, ip)
        PROVE  Throttling'
    <3>1. PICK h : /\ h = [Idle EXCEPT !.pc = "lock", !.kind = "consume", !.scope = p,
                                       !.purpose = p, !.ip = ip, !.code = c]
                   /\ tx' = [tx EXCEPT ![r] = h] /\ UNCHANGED <<clock, otp>>
      BY <2>4 DEF StartConsume
    <3>2. h.pc = "lock"
      BY <3>1, IdleType DEF Tx
    <3> QED
      BY <1>2, <3>1, <3>2, StartThrottled
  <2>5. CASE Tick
    BY <1>2, <2>5, TickThrottled
  <2>6. CASE UNCHANGED vars
    BY <1>2, <2>6 DEF vars, Throttling, ResendThrottled, Before, InWindow, Throttled, Last,
                      RecentlyCreated, OnCooldown, Ids
  <2> QED
    BY <1>2, <2>1, <2>2, <2>3, <2>4, <2>5, <2>6 DEF Next
<1>3. Throttling => ResendThrottled
  BY DEF Throttling
<1> QED
  BY <1>1, <1>2, <1>3, AlwaysIInv, PTL DEF Spec

-----------------------------------------------------------------------------
(* The refinement of OneTimeToken. *)
LEMMA Viewed ==
  ASSUME IInv
  PROVE  /\ Ids \subseteq 1 .. MaxCodes
         /\ \A i \in 1 .. MaxCodes :
              /\ i \notin Ids => View[i] = "absent"
              /\ i \in Ids /\ otp[i].status = "pending" => View[i] = "live"
              /\ i \in Ids /\ otp[i].status = "used" => View[i] = "spent"
              /\ i \in Ids /\ otp[i].status = "invalidated" => View[i] = "void"
              /\ i \in Ids => otp[i].status \in {"pending", "used", "invalidated"}
<1>1. Ids \subseteq 1 .. MaxCodes /\ \A i \in Ids : otp[i] \in Row
  BY OtpAssumption DEF IInv, TypeOK, Ids
<1> QED
  BY <1>1 DEF View, Standing, Row

LEMMA ViewKept ==
  ASSUME IInv, NEW i \in 1 .. MaxCodes, i \in Ids' <=> i \in Ids,
         i \in Ids => otp'[i].status = otp[i].status
  PROVE  View'[i] = View[i]
<1>1. CASE i \notin Ids
  BY <1>1 DEF View, Standing
<1>2. CASE i \in Ids
  <2>1. PICK st \in {"pending", "used", "invalidated"} : st = otp[i].status
    BY <1>2, Viewed
  <2>2. View[i] = IF st = "pending" THEN "live" ELSE IF st = "used" THEN "spent" ELSE "void"
    BY <1>2, <2>1, Viewed
  <2>3. View'[i] = IF st = "pending" THEN "live" ELSE IF st = "used" THEN "spent" ELSE "void"
    <3>1. i \in Ids' /\ otp'[i].status = st
      BY <1>2, <2>1
    <3> QED
      BY <2>1, <3>1 DEF View, Standing
  <2> QED
    BY <2>2, <2>3
<1> QED
  BY <1>1, <1>2

LEMMA Views == /\ View = [i \in 1 .. MaxCodes |-> View[i]]
               /\ View' = [i \in 1 .. MaxCodes |-> View'[i]]
BY DEF View

LEMMA InitMaps == Init => Abstract!Init
<1> SUFFICES ASSUME Init PROVE Abstract!Init
  OBVIOUS
<1>1. Ids = {}
  BY DEF Init, Ids
<1>2. View = [i \in 1 .. MaxCodes |-> "absent"]
  BY <1>1 DEF View, Standing
<1> QED
  BY <1>2 DEF Init, Abstract!Init

LEMMA CreateMaps ==
  ASSUME IInv, IInv', NEW r \in Requests, Create(r)
  PROVE  Abstract!Next
<1>1. Len(otp) < MaxCodes /\ Len(otp) \in Nat
  BY Created, CreateRoom
<1>2. PICK n : n = Len(otp) + 1
  OBVIOUS
<1>3. PICK D : D = tx[r].dirty
  OBVIOUS
<1>4. /\ Ids' = Ids \cup {n} /\ Ids = 1 .. Len(otp)
      /\ \A i \in Ids : otp'[i].status = IF i \in D THEN "invalidated" ELSE otp[i].status
      /\ otp'[n].status = "pending" /\ grants' = grants
  BY <1>1, <1>2, <1>3, Created DEF Create
<1>5. n \in 1 .. MaxCodes /\ n \notin Ids
  BY <1>1, <1>2, <1>4, OtpAssumption
<1>6. View[n] = "absent"
  BY <1>5, Viewed
<1>7. D \subseteq Ids /\ \A i \in D : otp[i].status = "pending"
  BY <1>3, HandlerType DEF RowsKnown, Pending
<1>8. D \subseteq Abstract!Live /\ D \in SUBSET (1 .. MaxCodes)
  BY <1>7, Viewed DEF Abstract!Live
<1>9. \A i \in 1 .. MaxCodes :
        View'[i] = IF i = n THEN "live" ELSE IF i \in D THEN "void" ELSE View[i]
  <2> TAKE i \in 1 .. MaxCodes
  <2>1. CASE i = n
    BY <1>4, <2>1 DEF View, Standing
  <2>2. CASE i \in D
    BY <1>4, <1>5, <1>7, <2>2 DEF View, Standing
  <2>3. CASE i # n /\ i \notin D
    BY <1>4, <2>3, ViewKept
  <2> QED
    BY <1>5, <1>7, <2>1, <2>2, <2>3
<1>10. View' = [i \in 1 .. MaxCodes |->
                 IF i = n THEN "live" ELSE IF i \in D THEN "void" ELSE View[i]]
  BY <1>9, Views
<1>11. Abstract!Issue(n, D)
  BY <1>4, <1>6, <1>8, <1>10 DEF Abstract!Issue
<1> QED
  BY <1>5, <1>8, <1>11 DEF Abstract!Next

LEMMA UseMaps ==
  ASSUME IInv, NEW r \in Requests, Use(r), Pending(tx[r].code)
  PROVE  Abstract!Next
<1>1. PICK c \in 1 .. MaxCodes : c = tx[r].code
  BY Used
<1>2. /\ c \in Ids /\ Ids' = Ids /\ otp[c].status = "pending"
      /\ \A i \in Ids : otp'[i].status = IF i = c THEN "used" ELSE otp[i].status
      /\ grants' = [grants EXCEPT ![c] = @ + 1]
  BY <1>1, Used DEF Use, Pending
<1>3. View[c] = "live"
  BY <1>2, Viewed
<1>4. \A i \in 1 .. MaxCodes : View'[i] = IF i = c THEN "spent" ELSE View[i]
  <2> TAKE i \in 1 .. MaxCodes
  <2>1. CASE i = c
    BY <1>2, <2>1 DEF View, Standing
  <2>2. CASE i # c
    BY <1>2, <2>2, ViewKept
  <2> QED
    BY <2>1, <2>2
<1>5. View' = [View EXCEPT ![c] = "spent"]
  BY <1>4, Views
<1>6. Abstract!Redeem(c)
  BY <1>2, <1>3, <1>5 DEF Abstract!Redeem
<1> QED
  BY <1>6 DEF Abstract!Next

LEMMA StepMaps ==
  ASSUME IInv, IInv', [Next]_vars
  PROVE  [Abstract!Next]_Abstract!vars
<1>1. CASE UNCHANGED <<otp, grants>>
  <2>1. Ids' = Ids
    BY <1>1 DEF Ids
  <2>2. View' = View
    BY <1>1, <2>1 DEF View, Standing
  <2> QED
    BY <1>1, <2>2 DEF Abstract!vars
<1>2. ASSUME NEW r \in Requests, Create(r)
      PROVE  Abstract!Next
  BY <1>2, CreateMaps
<1>3. ASSUME NEW r \in Requests, Use(r), Pending(tx[r].code)
      PROVE  Abstract!Next
  BY <1>3, UseMaps
<1>4. \/ UNCHANGED <<otp, grants>>
      \/ \E r \in Requests : Create(r)
      \/ \E r \in Requests : Use(r) /\ Pending(tx[r].code)
  BY DEF Next, Statement, Lock, ReadLatest, Throttle, Snapshot, Invalidate, Find,
              Use, Crash, StartStore, StartResend, StartConsume, Tick, vars
<1> QED
  BY <1>1, <1>2, <1>3, <1>4

(* Codes are one-time tokens: a created code is issued in place of those   *)
(* it invalidates, an accepted one redeemed, and nothing else is visible.  *)
THEOREM CodesAreOneTime == Spec => ImplementsOneTimeToken
BY StepMaps, InitMaps, AlwaysIInv, PTL DEF Spec, ImplementsOneTimeToken, Abstract!Spec

(* What an abstract step keeps, in terms of this module's rows. *)
LEMMA AccountedKept ==
  ASSUME Abstract!Accounted, [Abstract!Next]_Abstract!vars
  PROVE  Abstract!Accounted'
<1> USE DEF Abstract!Accounted, Abstract!TypeOK, Abstract!AtMostOnce, Abstract!States
<1>1. ASSUME NEW t \in 1 .. MaxCodes, Abstract!Redeem(t) PROVE Abstract!Accounted'
  BY <1>1 DEF Abstract!Redeem
<1>2. ASSUME NEW t \in 1 .. MaxCodes, NEW S, Abstract!Issue(t, S) PROVE Abstract!Accounted'
  BY <1>2 DEF Abstract!Issue, Abstract!Live
<1>3. ASSUME NEW S, Abstract!Void(S) \/ Abstract!Erase(S) PROVE Abstract!Accounted'
  BY <1>3 DEF Abstract!Void, Abstract!Erase, Abstract!Live
<1>4. CASE UNCHANGED Abstract!vars
  BY <1>4 DEF Abstract!vars
<1> QED
  BY <1>1, <1>2, <1>3, <1>4 DEF Abstract!Next

(* No code is accepted twice, however many confirmations run at once. *)
THEOREM CodesGrantOnce == Spec => []Abstract!AtMostOnce
<1>1. Init => Abstract!Accounted
  <2> SUFFICES ASSUME Abstract!Init PROVE Abstract!Accounted
    BY InitMaps
  <2> QED
    BY DEF Abstract!Init, Abstract!Accounted, Abstract!TypeOK, Abstract!AtMostOnce, Abstract!States
<1>2. IInv /\ IInv' /\ [Next]_vars /\ Abstract!Accounted => Abstract!Accounted'
  BY StepMaps, AccountedKept
<1>3. Abstract!Accounted => Abstract!AtMostOnce
  BY DEF Abstract!Accounted
<1> QED
  BY <1>1, <1>2, <1>3, AlwaysIInv, PTL DEF Spec
=============================================================================
