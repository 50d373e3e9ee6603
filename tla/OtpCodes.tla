------------------------------ MODULE OtpCodes ------------------------------
(***************************************************************************)
(* The otp_codes rows of one target (an e-mail address or phone number)    *)
(* and the three transactions on them: storeOtpCode, resendOtpCode and     *)
(* consumeOtpCode.  Each transaction first takes the PostgreSQL advisory   *)
(* lock of its scope (target, type and purpose, or 'ANY' for a resend      *)
(* without purpose), and runs at READ COMMITTED: a statement sees the rows *)
(* committed when it starts, an UPDATE waits for the transaction that      *)
(* changed its row and then tests its WHERE again, and nothing is visible  *)
(* to others before the commit.  Each action is one statement.             *)
(*                                                                         *)
(* A code is named by the position of its row.  createdAt and expiresAt    *)
(* are in ticks.                                                           *)
(***************************************************************************)
EXTENDS Naturals, Sequences, FiniteSets

CONSTANTS Purposes,      \* OtpPurpose
          AnyPurpose,    \* a resend whose body names no purpose
          ResendScopes,  \* what a resend may name: subset of Purposes \cup {AnyPurpose}
          Addresses, NoIP,
          Requests,
          TTL,           \* OTP_EXPIRES_MINUTES
          Cooldown,      \* OTP_RESEND_COOLDOWN_MS
          Skew,          \* OTP_EXPIRY_SKEW_MS
          MaxPerWindow,  \* MAX_OTP_REQUESTS_PER_WINDOW
          MaxCodes,      \* bound: rows ever created
          MaxClock       \* bound: the clock stops here

ASSUME OtpAssumption ==
  /\ AnyPurpose \notin Purposes /\ IsFiniteSet(Requests)
  /\ ResendScopes \subseteq Purposes \cup {AnyPurpose}
  /\ {TTL, Cooldown, MaxPerWindow, MaxCodes} \subseteq Nat \ {0}
  /\ {Skew, MaxClock} \subseteq Nat

VARIABLES
  clock,
  otp,     \* the committed rows, in the order they were created
  tx,      \* tx[r]: the transaction of the request in slot r
  grants   \* history: how often consumeOtpCode accepted a code

vars == <<clock, otp, tx, grants>>

Ids == DOMAIN otp
Pending(i) == otp[i].status = "pending"
PendingOf(ps) == {i \in Ids : Pending(i) /\ otp[i].purpose \in ps}

(* findFirst ... orderBy createdAt desc: of rows equally recent any may    *)
(* come first.                                                             *)
Latest(S) == {i \in S : \A j \in S : otp[j].created <= otp[i].created}

InTx == {"latest", "throttle", "find", "snapshot", "invalidate", "create", "use"}
Idle == [pc |-> "idle", kind |-> "none", scope |-> AnyPurpose, purpose |-> AnyPurpose,
         ip |-> NoIP, expires |-> 0, code |-> 0, latest |-> 0, now |-> 0,
         snap |-> {}, dirty |-> {}]
End(r) == tx' = [tx EXCEPT ![r] = Idle]
Move(r, step) == tx' = [tx EXCEPT ![r] = [@ EXCEPT !.pc = step]]

Init == /\ clock = 0
        /\ otp = <<>>
        /\ tx = [r \in Requests |-> Idle]
        /\ grants = [i \in 1 .. MaxCodes |-> 0]

-----------------------------------------------------------------------------
(* Codes that exist or that a running request may still create. *)
Creating == {r \in Requests : tx[r].kind \in {"store", "resend"}}
Room == Len(otp) + Cardinality(Creating) < MaxCodes

(* forgotPassword, register, and a login of an unverified user: the code   *)
(* and its expiry are made before the transaction starts.                  *)
StartStore(r, p, ip) ==
  /\ tx[r].pc = "idle" /\ Room
  /\ tx' = [tx EXCEPT ![r] = [Idle EXCEPT !.pc = "lock", !.kind = "store", !.scope = p,
                                !.purpose = p, !.ip = ip, !.expires = clock + TTL]]
  /\ UNCHANGED <<clock, otp, grants>>

StartResend(r, s, ip) ==
  /\ tx[r].pc = "idle" /\ Room
  /\ tx' = [tx EXCEPT ![r] = [Idle EXCEPT !.pc = "lock", !.kind = "resend", !.scope = s,
                                !.ip = ip, !.expires = clock + TTL]]
  /\ UNCHANGED <<clock, otp, grants>>

(* code: one that was sent out, or 0 for a wrong one *)
StartConsume(r, p, code, ip) ==
  /\ tx[r].pc = "idle"
  /\ tx' = [tx EXCEPT ![r] = [Idle EXCEPT !.pc = "lock", !.kind = "consume", !.scope = p,
                                !.purpose = p, !.ip = ip, !.code = code]]
  /\ UNCHANGED <<clock, otp, grants>>

FirstStatement(kind) == CASE kind = "store"   -> "snapshot"
                          [] kind = "resend"  -> "latest"
                          [] kind = "consume" -> "find"

(* Mutant: the lock is not taken. *)
LockNothing(r) ==
  /\ tx[r].pc = "lock"
  /\ Move(r, FirstStatement(tx[r].kind))
  /\ UNCHANGED <<clock, otp, grants>>

(* lockOtpScope: pg_advisory_xact_lock(hashtext(`otp:...:scope')), held    *)
(* until the transaction ends.                                             *)
Lock(r) ==
  /\ tx[r].pc = "lock"
  /\ \A q \in Requests : tx[q].pc \in InTx => tx[q].scope # tx[r].scope
  /\ Move(r, FirstStatement(tx[r].kind))
  /\ UNCHANGED <<clock, otp, grants>>

-----------------------------------------------------------------------------
Found(r, i, p) ==
  tx' = [tx EXCEPT ![r] = [@ EXCEPT !.pc = "throttle", !.purpose = p,
                                     !.latest = i, !.now = clock]]

ResendOf(r) == PendingOf(IF tx[r].scope = AnyPurpose THEN Purposes ELSE {tx[r].scope})

(* Mutants: the purpose of the request is kept instead of the purpose of   *)
(* the code found; the refusal leaves the transaction open.                *)
ReadLatestKeepsScope(r) ==
  /\ tx[r].pc = "latest"
  /\ \/ ResendOf(r) = {} /\ End(r)
     \/ \E i \in Latest(ResendOf(r)) : Found(r, i, tx[r].scope)
  /\ UNCHANGED <<clock, otp, grants>>
ReadLatestLeavesOpen(r) ==
  /\ tx[r].pc = "latest"
  /\ \E i \in Latest(ResendOf(r)) : Found(r, i, otp[i].purpose)
  /\ UNCHANGED <<clock, otp, grants>>

(* resendOtpCode: the latest pending code, of any purpose when none was    *)
(* named; its purpose is the one resent.  404 when there is none.          *)
ReadLatest(r) ==
  /\ tx[r].pc = "latest"
  /\ \/ ResendOf(r) = {} /\ End(r)
     \/ \E i \in Latest(ResendOf(r)) : Found(r, i, otp[i].purpose)
  /\ UNCHANGED <<clock, otp, grants>>

(* The count of codes in the window, then the cooldown of a code that is   *)
(* not about to expire: either refuses with 429.                           *)
RecentlyCreated(p, now) ==
  {i \in Ids : otp[i].purpose = p /\ otp[i].created + TTL >= now}

OnCooldown(i, now) ==
  /\ otp[i].expires > now + Skew
  /\ otp[i].created + Cooldown > now + Skew

(* Mutant: off by one. *)
ThrottleLate(r) ==
  /\ tx[r].pc = "throttle"
  /\ IF \/ Cardinality(RecentlyCreated(tx[r].purpose, tx[r].now)) > MaxPerWindow
        \/ OnCooldown(tx[r].latest, tx[r].now)
     THEN End(r) ELSE Move(r, "snapshot")
  /\ UNCHANGED <<clock, otp, grants>>

Throttle(r) ==
  /\ tx[r].pc = "throttle"
  /\ IF \/ Cardinality(RecentlyCreated(tx[r].purpose, tx[r].now)) >= MaxPerWindow
        \/ OnCooldown(tx[r].latest, tx[r].now)
     THEN End(r) ELSE Move(r, "snapshot")
  /\ UNCHANGED <<clock, otp, grants>>

-----------------------------------------------------------------------------
(* updateMany ... invalidatedAt (storeOtpCode and resendOtpCode): the rows *)
(* the statement sees pending when it starts, *)
Snapshot(r) ==
  /\ tx[r].pc = "snapshot"
  /\ tx' = [tx EXCEPT ![r] = [@ EXCEPT !.pc = "invalidate", !.latest = 0, !.now = 0,
                                         !.snap = PendingOf({tx[r].purpose})]]
  /\ UNCHANGED <<clock, otp, grants>>

(* of which it changes, once no other transaction holds them, those that   *)
(* are still pending. *)
Untouched(r, S) == \A q \in Requests \ {r} : tx[q].pc \in InTx => tx[q].dirty \cap S = {}

(* Mutant: the previous codes stay valid. *)
InvalidateNothing(r) ==
  /\ tx[r].pc = "invalidate"
  /\ tx' = [tx EXCEPT ![r] = [@ EXCEPT !.pc = "create", !.snap = {}]]
  /\ UNCHANGED <<clock, otp, grants>>

Invalidate(r) ==
  /\ tx[r].pc = "invalidate"
  /\ Untouched(r, tx[r].snap)
  /\ tx' = [tx EXCEPT ![r] = [@ EXCEPT !.pc = "create", !.snap = {},
                                         !.dirty = {i \in tx[r].snap : Pending(i)}]]
  /\ UNCHANGED <<clock, otp, grants>>

(* create and commit *)
Create(r) ==
  /\ tx[r].pc = "create"
  /\ otp' = Append([i \in Ids |-> IF i \in tx[r].dirty
                                  THEN [otp[i] EXCEPT !.status = "invalidated"] ELSE otp[i]],
                   [purpose |-> tx[r].purpose, created |-> clock, expires |-> tx[r].expires,
                    ip |-> tx[r].ip, status |-> "pending", via |-> tx[r].kind,
                    scope |-> tx[r].scope])
  /\ End(r)
  /\ UNCHANGED <<clock, grants>>

-----------------------------------------------------------------------------
(* consumeOtpCode: the latest pending code that has not expired, compared  *)
(* with the submitted one and with the address it was requested from. *)
Accepts(r, i) ==
  /\ tx[r].code = i
  /\ otp[i].ip = NoIP \/ tx[r].ip = NoIP \/ otp[i].ip = tx[r].ip

Find(r) ==
  LET S == {i \in PendingOf({tx[r].purpose}) : otp[i].expires > clock} IN
  /\ tx[r].pc = "find"
  /\ \/ S = {} /\ End(r)
     \/ \E i \in Latest(S) : IF Accepts(r, i) THEN Move(r, "use") ELSE End(r)
  /\ UNCHANGED <<clock, otp, grants>>

(* Mutant: the update is by id alone. *)
UseUnconditional(r) ==
  /\ tx[r].pc = "use"
  /\ Untouched(r, {tx[r].code})
  /\ otp' = [otp EXCEPT ![tx[r].code].status = "used"]
  /\ grants' = [grants EXCEPT ![tx[r].code] = @ + 1]
  /\ End(r)
  /\ UNCHANGED clock

(* updateMany ... where id, usedAt null, invalidatedAt null; commit; the   *)
(* caller is told whether it changed a row. *)
Use(r) ==
  LET i == tx[r].code IN
  /\ tx[r].pc = "use"
  /\ Untouched(r, {i})
  /\ IF Pending(i)
     THEN /\ otp' = [otp EXCEPT ![i].status = "used"]
          /\ grants' = [grants EXCEPT ![i] = @ + 1]
     ELSE UNCHANGED <<otp, grants>>
  /\ End(r)
  /\ UNCHANGED clock

-----------------------------------------------------------------------------
(* The connection or the process is lost: the transaction is rolled back. *)
Crash(r) ==
  /\ tx[r].pc # "idle"
  /\ End(r)
  /\ UNCHANGED <<clock, otp, grants>>

Tick == /\ clock < MaxClock
        /\ clock' = clock + 1
        /\ UNCHANGED <<otp, tx, grants>>

Statement(r) ==
  \/ ReadLatest(r) \/ Throttle(r)
  \/ Snapshot(r) \/ Invalidate(r) \/ Create(r)
  \/ Find(r) \/ Use(r)

Next ==
  \/ \E r \in Requests : Lock(r) \/ Statement(r) \/ Crash(r)
  \/ \E r \in Requests, p \in Purposes, ip \in Addresses : StartStore(r, p, ip)
  \/ \E r \in Requests, s \in ResendScopes, ip \in Addresses : StartResend(r, s, ip)
  \/ \E r \in Requests, p \in Purposes, c \in {0} \cup Ids, ip \in Addresses :
       StartConsume(r, p, c, ip)
  \/ Tick

Spec == Init /\ [][Next]_vars

(* PostgreSQL grants a lock to its waiters in the order they asked, so a   *)
(* request cannot be overtaken for ever: strong fairness for Lock and for  *)
(* the statements that wait for a row.                                     *)
FairSpec == Spec /\ \A r \in Requests : SF_vars(Lock(r)) /\ SF_vars(Statement(r))

-----------------------------------------------------------------------------
Row == [purpose: Purposes, created: 0 .. MaxClock, expires: TTL .. MaxClock + TTL,
        ip: Addresses, status: {"pending", "used", "invalidated"},
        via: {"store", "resend"}, scope: Purposes \cup {AnyPurpose}]

Tx == [pc: {"idle", "lock"} \cup InTx, kind: {"none", "store", "resend", "consume"},
       scope: Purposes \cup {AnyPurpose}, purpose: Purposes \cup {AnyPurpose},
       ip: Addresses \cup {NoIP}, expires: 0 .. MaxClock + TTL,
       code: 0 .. MaxCodes, latest: 0 .. MaxCodes, now: 0 .. MaxClock,
       snap: SUBSET (1 .. MaxCodes), dirty: SUBSET (1 .. MaxCodes)]

(* Types, and that a transaction names codes that exist and, once it has   *)
(* found what it looked for, a purpose.                                    *)
TypeOK ==
  /\ clock \in 0 .. MaxClock
  /\ otp \in Seq(Row) /\ Len(otp) <= MaxCodes
  /\ tx \in [Requests -> Tx]
  /\ \A r \in Requests :
       /\ tx[r].snap \cup tx[r].dirty \subseteq Ids /\ {tx[r].code, tx[r].latest} \subseteq {0} \cup Ids
       /\ tx[r].pc \in {"throttle", "snapshot", "invalidate", "create", "find", "use"}
            => tx[r].purpose \in Purposes
  /\ grants \in [1 .. MaxCodes -> Nat]

(* A purpose has at most one code that could be redeemed: sending a new    *)
(* code always makes the earlier one worthless, also when sends overlap.   *)
OnePendingPerPurpose == \A p \in Purposes : Cardinality(PendingOf({p})) <= 1

(* With resends that name no purpose, and so take another lock than the    *)
(* senders of the purpose they resend, codes of one purpose may be valid   *)
(* side by side, but never two that were made under the same lock: at most *)
(* one of a sender and one of such a resend.                               *)
OnePendingPerLock ==
  \A i, j \in Ids :
    /\ Pending(i) /\ Pending(j)
    /\ otp[i].purpose = otp[j].purpose /\ otp[i].scope = otp[j].scope
    => i = j

(* Resends are throttled whatever overlaps: a resent code is never beyond  *)
(* the MaxPerWindow'th code of its purpose in a window, and follows the    *)
(* code before it only after the cooldown or when that one was expiring.   *)
(* (A code before that one may have longer to live: expiries are set       *)
(* before the wait for the lock.)                                          *)
Before(i) == {j \in 1 .. i - 1 : otp[j].purpose = otp[i].purpose}
InWindow(i) == {j \in Before(i) : otp[j].created + TTL >= otp[i].created}
ResendThrottled ==
  \A i \in Ids : otp[i].via = "resend" =>
    /\ Cardinality(InWindow(i)) < MaxPerWindow
    /\ \A j \in Before(i) : Before(i) \subseteq 1 .. j =>
         \/ otp[j].created + Cooldown <= otp[i].created + Skew
         \/ otp[j].expires <= otp[i].created + Skew

(* Only the newest code of a purpose is ever accepted. *)
NewestIsAccepted ==
  [][\A i \in Ids : grants'[i] > grants[i] => \A j \in Ids : i \notin Before(j)]_vars

(* Every OTP request is answered: no advisory lock or row lock is kept by  *)
(* a transaction that was refused, failed or died.                         *)
EveryRequestEnds == \A r \in Requests : tx[r].pc = "lock" ~> tx[r].pc = "idle"

(* Codes are one-time tokens: pending, then used once or invalidated. *)
Standing(i) == IF i \notin Ids THEN "absent"
               ELSE CASE otp[i].status = "pending" -> "live"
                      [] otp[i].status = "used" -> "spent"
                      [] otp[i].status = "invalidated" -> "void"
View == [i \in 1 .. MaxCodes |-> Standing(i)]

Abstract == INSTANCE OneTimeToken WITH Token <- 1 .. MaxCodes, state <- View
ImplementsOneTimeToken == Abstract!Spec
=============================================================================
