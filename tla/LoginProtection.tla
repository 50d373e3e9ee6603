--------------------------- MODULE LoginProtection ---------------------------
(***************************************************************************)
(* The login_attempts table and the three functions login calls around the *)
(* password check: isLocked before it, recordFailedAttempt after a wrong   *)
(* password or an unknown user, clearAttempts after a right one.  Only     *)
(* recordFailedAttempt takes the advisory lock of the identifier; isLocked *)
(* and clearAttempts delete the row without it.  Each action is one        *)
(* database call with the synchronous code around it.                      *)
(***************************************************************************)
EXTENDS Naturals, FiniteSets

CONSTANTS Identifiers,   \* the e-mail or phone as the client typed it
          Requests,      \* slots for concurrently running logins
          MaxAttempts,   \* MAX_ATTEMPTS; the failure that opens a window never locks
          Window,        \* WINDOW_MS, in ticks
          Lockout,       \* LOCKOUT_MS, in ticks
          MaxClock       \* bound: the clock stops here

ASSUME LoginAssumption ==
  /\ Identifiers # {}
  /\ IsFiniteSet(Requests)
  /\ MaxAttempts \in Nat \ {0, 1}
  /\ {Window, Lockout} \subseteq Nat \ {0}
  /\ MaxClock \in Nat

VARIABLES
  clock,
  present,  \* identifiers with a row
  count,    \* count[i]
  first,    \* first[i]: firstAttemptAt
  until,    \* until[i]: lockedUntil, NotLocked when null
  pc,       \* pc[r]: the next database call of the login in slot r
  who,      \* who[r]: the identifier it was started with
  right,    \* right[r]: whether the submitted password is the right one
  now,      \* now[r]: the time recordFailedAttempt took on getting the lock
  next,     \* next[r]: nextCount in recordFailedAttempt
  tally,    \* history: failures recorded since the row of i was (re)created
  early     \* history: early[i], the logins for i that were already past
            \* isLocked when the present lock of i was set, and still run

rows == <<present, count, first, until, tally>>
local == <<pc, who, right, now, next>>
vars == <<clock, rows, local, early>>

NotLocked == 0
Locked(i) == i \in present /\ until[i] # NotLocked
InTx == {"count", "reset", "increment"}
Failing == {"lock"} \cup InTx
PCs == {"idle", "thrown", "purge", "clear"} \cup Failing

Goto(r, step) == /\ pc' = [pc EXCEPT ![r] = step]
                 /\ UNCHANGED <<who, right, now, next>>

InFlight(i) == {r \in Requests : pc[r] \notin {"idle", "thrown"} /\ who[r] = i}
Gone(r) == early' = [i \in Identifiers |-> early[i] \ {r}]

Finish(r, as) == /\ pc' = [pc EXCEPT ![r] = as]
                 /\ right' = [right EXCEPT ![r] = FALSE]
                 /\ now' = [now EXCEPT ![r] = 0]
                 /\ next' = [next EXCEPT ![r] = 0]
                 /\ UNCHANGED who

AfterCheck(ok) == IF ok THEN "clear" ELSE "lock"

Init ==
  /\ clock = 0
  /\ present = {}
  /\ count = [i \in Identifiers |-> 0]
  /\ first = [i \in Identifiers |-> 0]
  /\ until = [i \in Identifiers |-> NotLocked]
  /\ tally = [i \in Identifiers |-> 0]
  /\ pc = [r \in Requests |-> "idle"]
  /\ who \in [Requests -> {CHOOSE i \in Identifiers : TRUE}]
  /\ right = [r \in Requests |-> FALSE]
  /\ now = [r \in Requests |-> 0]
  /\ next = [r \in Requests |-> 0]
  /\ early = [i \in Identifiers |-> {}]

-----------------------------------------------------------------------------
(* Mutant: whether the lock has run out is not looked at. *)
IsLockedForgetsTime(r, i, ok) ==
  /\ pc[r] \in {"idle", "thrown"}
  /\ pc' = [pc EXCEPT ![r] = IF Locked(i) THEN "purge" ELSE AfterCheck(ok)]
  /\ who' = [who EXCEPT ![r] = i]
  /\ right' = [right EXCEPT ![r] = ok]
  /\ UNCHANGED <<clock, rows, now, next, early>>

(* isLocked, the findUnique.  A lock in force refuses the login (429),     *)
(* which leaves no trace; a lock that has run out is deleted next.  The    *)
(* user lookup and bcrypt that follow read no login_attempts row.          *)
IsLocked(r, i, ok) ==
  /\ pc[r] \in {"idle", "thrown"}
  /\ ~(Locked(i) /\ clock < until[i])
  /\ pc' = [pc EXCEPT ![r] = IF Locked(i) THEN "purge" ELSE AfterCheck(ok)]
  /\ who' = [who EXCEPT ![r] = i]
  /\ right' = [right EXCEPT ![r] = ok]
  /\ UNCHANGED <<clock, rows, now, next, early>>

Delete(i) ==
  /\ present' = present \ {i}
  /\ count' = [count EXCEPT ![i] = 0]
  /\ first' = [first EXCEPT ![i] = 0]
  /\ until' = [until EXCEPT ![i] = NotLocked]
  /\ tally' = [tally EXCEPT ![i] = 0]

(* isLocked, the deleteMany: by identifier, whatever the row is by now. *)
Purge(r) ==
  /\ pc[r] = "purge"
  /\ Delete(who[r])
  /\ Goto(r, AfterCheck(right[r]))
  /\ UNCHANGED <<clock, early>>

(* clearAttempts: deleteMany; the login succeeds. *)
Clear(r) ==
  /\ pc[r] = "clear"
  /\ Delete(who[r])
  /\ Finish(r, "idle") /\ Gone(r)
  /\ UNCHANGED clock

(* Mutant: the advisory lock is not taken. *)
LockNothing(r) ==
  /\ pc[r] = "lock"
  /\ Goto(r, "count")
  /\ UNCHANGED <<clock, rows, early>>

(* recordFailedAttempt: lockAttemptScope, held until the transaction ends, *)
Lock(r) ==
  /\ pc[r] = "lock"
  /\ \A q \in Requests : pc[q] \in InTx => who[q] # who[r]
  /\ Goto(r, "count")
  /\ UNCHANGED <<clock, rows, early>>

(* the findUnique, *)
ReadCount(r) ==
  LET i == who[r]
      fresh == i \notin present \/ clock > first[i] + Window IN
  /\ pc[r] = "count"
  /\ pc' = [pc EXCEPT ![r] = IF fresh THEN "reset" ELSE "increment"]
  /\ now' = [now EXCEPT ![r] = clock]
  /\ next' = [next EXCEPT ![r] = IF fresh THEN 1 ELSE count[i] + 1]
  /\ UNCHANGED <<clock, rows, who, right, early>>

(* the upsert that opens a new window, or *)
Reset(r) ==
  LET i == who[r] IN
  /\ pc[r] = "reset"
  /\ present' = present \cup {i}
  /\ count' = [count EXCEPT ![i] = next[r]]
  /\ first' = [first EXCEPT ![i] = now[r]]
  /\ until' = [until EXCEPT ![i] = NotLocked]
  /\ tally' = [tally EXCEPT ![i] = 1]
  /\ Finish(r, "idle") /\ Gone(r)
  /\ UNCHANGED clock

(* Mutants: an update that does not notice the missing row; a lock one     *)
(* failure late; an update that waits for the row.                         *)
IncrementBlind(r) ==
  LET i == who[r] IN
  /\ pc[r] = "increment"
  /\ count' = [count EXCEPT ![i] = next[r]]
  /\ until' = [until EXCEPT ![i] = IF next[r] >= MaxAttempts THEN now[r] + Lockout ELSE @]
  /\ tally' = [tally EXCEPT ![i] = @ + 1]
  /\ Finish(r, "idle") /\ Gone(r)
  /\ UNCHANGED <<clock, present, first>>
IncrementLate(r) ==
  LET i == who[r] IN
  /\ pc[r] = "increment"
  /\ i \in present
  /\ count' = [count EXCEPT ![i] = next[r]]
  /\ until' = [until EXCEPT ![i] = IF next[r] > MaxAttempts THEN now[r] + Lockout ELSE @]
  /\ tally' = [tally EXCEPT ![i] = @ + 1]
  /\ Finish(r, "idle") /\ Gone(r)
  /\ UNCHANGED <<clock, present, first>>
IncrementWaits(r) ==
  /\ who[r] \in present
  /\ IncrementBlind(r)

(* the update with the count read before.  Prisma's update throws when the *)
(* row is gone: the transaction is rolled back and login answers 500.      *)
Increment(r) ==
  LET i == who[r] IN
  /\ pc[r] = "increment"
  /\ IF i \in present
     THEN /\ count' = [count EXCEPT ![i] = next[r]]
          /\ until' = [until EXCEPT ![i] = IF next[r] >= MaxAttempts
                                           THEN now[r] + Lockout ELSE @]
          /\ tally' = [tally EXCEPT ![i] = @ + 1]
          /\ Finish(r, "idle")
          /\ IF next[r] >= MaxAttempts
             THEN early' = [early EXCEPT ![i] = InFlight(i) \ {r}]
             ELSE Gone(r)
     ELSE UNCHANGED <<count, until, tally>> /\ Finish(r, "thrown") /\ Gone(r)
  /\ UNCHANGED <<clock, present, first>>

Crash(r) ==
  /\ pc[r] \notin {"idle", "thrown"}
  /\ Finish(r, "idle") /\ Gone(r)
  /\ UNCHANGED <<clock, rows>>

Tick == /\ clock < MaxClock
        /\ clock' = clock + 1
        /\ UNCHANGED <<rows, local, early>>

Step(r) == Purge(r) \/ Clear(r) \/ Lock(r) \/ ReadCount(r) \/ Reset(r) \/ Increment(r)

Next ==
  \/ \E r \in Requests : Step(r) \/ Crash(r)
  \/ \E r \in Requests, i \in Identifiers, ok \in BOOLEAN : IsLocked(r, i, ok)
  \/ Tick

Spec == Init /\ [][Next]_vars

(* PostgreSQL queues the waiters of an advisory lock. *)
FairSpec == Spec /\ \A r \in Requests : SF_vars(Step(r))

-----------------------------------------------------------------------------
TypeOK ==
  /\ clock \in 0 .. MaxClock
  /\ present \subseteq Identifiers
  /\ count \in [Identifiers -> Nat]
  /\ first \in [Identifiers -> 0 .. MaxClock]
  /\ until \in [Identifiers -> Nat]
  /\ tally \in [Identifiers -> Nat]
  /\ \A i \in Identifiers \ present : count[i] = 0 /\ until[i] = NotLocked
  /\ pc \in [Requests -> PCs]
  /\ who \in [Requests -> Identifiers]
  /\ right \in [Requests -> BOOLEAN]
  /\ now \in [Requests -> 0 .. MaxClock]
  /\ next \in [Requests -> Nat]
  /\ early \in [Identifiers -> SUBSET Requests]
  /\ \A i \in Identifiers : early[i] \subseteq InFlight(i)

(* No failure is lost between the read and the write of the count: the     *)
(* stored count is the number of failures recorded since the row exists,   *)
(* and the row is locked exactly when they reached the maximum.            *)
NoLostAttempt ==
  \A i \in Identifiers :
    /\ count[i] = tally[i]
    /\ i \in present => (until[i] # NotLocked <=> tally[i] >= MaxAttempts)

(* How many wrong passwords one row can cost: those recorded and those     *)
(* already past isLocked never exceed the maximum by more than the number  *)
(* of logins that ran at the same time.                                    *)
Failures(i) == {r \in InFlight(i) : pc[r] \in Failing}
GuessesBounded ==
  \A i \in Identifiers :
    tally[i] + Cardinality(Failures(i)) <= MaxAttempts - 1 + Cardinality(Requests)

(* "5 failures triggers a 15-minute lockout": a lockout in force ends      *)
(* before its time only through a login that was already past isLocked     *)
(* when it was set (one that succeeds, purges an older lock or opens a new *)
(* window); no login that starts under it can.                             *)
LockoutLasts ==
  [][\A i \in Identifiers :
       Locked(i) /\ clock < until[i] /\ ~(i \in present' /\ until'[i] >= until[i])
         => \E r \in early[i] : pc'[r] # pc[r]]_vars

(* Every login gets past the advisory lock and is answered. *)
EveryLoginEnds ==
  \A r \in Requests : pc[r] \notin {"idle", "thrown"} ~> pc[r] \in {"idle", "thrown"}
=============================================================================
