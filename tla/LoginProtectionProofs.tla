----------------------- MODULE LoginProtectionProofs -----------------------
(***************************************************************************)
(* Theorems about LoginProtection, for every finite number of overlapping  *)
(* logins, every maximum of at least two attempts, window and lockout.     *)
(***************************************************************************)
EXTENDS LoginProtection, FiniteSetTheorems, TLAPS

(* The advisory lock: one transaction per identifier, *)
Exclusive ==
  \A q, r \in Requests : pc[q] \in InTx /\ pc[r] \in InTx /\ who[q] = who[r] => q = r

(* so what it read still holds when it writes, but for a deletion. *)
NextIsRight ==
  \A r \in Requests :
    /\ pc[r] = "reset" => next[r] = 1
    /\ pc[r] = "increment" /\ who[r] \in present => next[r] = count[who[r]] + 1

(* Under a lockout in force only logins run that were past isLocked before. *)
OnlyEarly ==
  \A i \in Identifiers : Locked(i) /\ clock < until[i] => InFlight(i) \subseteq early[i]

IInv == TypeOK /\ NoLostAttempt /\ GuessesBounded /\ Exclusive /\ NextIsRight /\ OnlyEarly

-----------------------------------------------------------------------------
(* GuessesBounded for one identifier. *)
Bounded(n, S) == n + Cardinality(S) <= MaxAttempts - 1 + Cardinality(Requests)

LEMMA Sizes ==
  ASSUME NEW S \in SUBSET Requests
  PROVE  /\ IsFiniteSet(S) /\ Cardinality(S) \in Nat /\ Cardinality(Requests) \in Nat
         /\ Cardinality(S) <= Cardinality(Requests)
BY LoginAssumption, FS_Subset, FS_CardinalityType

(* Below the maximum there is room for every slot. *)
LEMMA BoundedLow ==
  ASSUME NEW n \in Nat, n < MaxAttempts, NEW S \in SUBSET Requests
  PROVE  Bounded(n, S)
BY Sizes, LoginAssumption DEF Bounded

LEMMA BoundedFewer ==
  ASSUME NEW n \in Nat, NEW S \in SUBSET Requests, NEW T \in SUBSET S, Bounded(n, S)
  PROVE  Bounded(n, T)
BY Sizes, FS_Subset, LoginAssumption DEF Bounded

(* A failure that is recorded is no longer to come. *)
LEMMA BoundedMoved ==
  ASSUME NEW n \in Nat, NEW S \in SUBSET Requests, NEW r \in S, NEW T \in SUBSET (S \ {r}),
         Bounded(n, S)
  PROVE  Bounded(n + 1, T)
<1>1. IsFiniteSet(S) /\ IsFiniteSet(S \ {r}) /\ Cardinality(S \ {r}) = Cardinality(S) - 1
  BY Sizes, FS_RemoveElement
<1>2. Cardinality(T) <= Cardinality(S \ {r})
  BY <1>1, FS_Subset
<1> QED
  BY <1>1, <1>2, Sizes, LoginAssumption DEF Bounded

LEMMA GuessesParts ==
  /\ GuessesBounded <=> \A i \in Identifiers : Bounded(tally[i], Failures(i))
  /\ GuessesBounded' <=> \A i \in Identifiers : Bounded(tally'[i], Failures(i)')
BY DEF GuessesBounded, Bounded

(* The slots that matter, after a step of slot r. *)
LEMMA SlotsOf ==
  ASSUME TypeOK, NEW r \in Requests, NEW step \in PCs, pc' = [pc EXCEPT ![r] = step],
         UNCHANGED who, NEW j \in Identifiers
  PROVE  /\ Failures(j) \in SUBSET Requests /\ Failures(j)' \in SUBSET Requests
         /\ (step \in Failing => pc[r] \in Failing) => Failures(j)' \subseteq Failures(j)
         /\ step \notin Failing => r \notin Failures(j)'
         /\ InFlight(j)' = IF step \in {"idle", "thrown"} THEN InFlight(j) \ {r}
                           ELSE IF who[r] = j THEN InFlight(j) \cup {r} ELSE InFlight(j)
<1>1. /\ pc' \in [Requests -> PCs] /\ \A q \in Requests : pc'[q] = IF q = r THEN step ELSE pc[q]
      /\ who' = who
  BY DEF TypeOK
<1> QED
  BY <1>1 DEF Failures, InFlight, Failing, InTx

LEMMA InitIInv == Init => IInv
<1> SUFFICES ASSUME Init PROVE IInv
  OBVIOUS
<1>1. TypeOK
  BY LoginAssumption DEF Init, TypeOK, PCs, NotLocked, InFlight
<1>2. NoLostAttempt /\ Exclusive /\ NextIsRight /\ OnlyEarly
  BY LoginAssumption DEF Init, NoLostAttempt, Exclusive, NextIsRight, OnlyEarly, InTx, Locked
<1>3. GuessesBounded
  <2> SUFFICES ASSUME NEW i \in Identifiers PROVE Bounded(tally[i], Failures(i))
    BY GuessesParts
  <2>1. tally[i] = 0 /\ Failures(i) \in SUBSET Requests
    BY DEF Init, Failures, InFlight
  <2> QED
    BY <2>1, BoundedLow, LoginAssumption
<1> QED
  BY <1>1, <1>2, <1>3 DEF IInv

-----------------------------------------------------------------------------
(* A login starts: under a lockout that is over, or none. *)
LEMMA IsLockedStep ==
  ASSUME IInv, NEW r \in Requests, NEW i \in Identifiers, NEW ok \in BOOLEAN, IsLocked(r, i, ok)
  PROVE  IInv'
<1>1. PICK step \in {"purge", "clear", "lock"} :
        /\ pc' = [pc EXCEPT ![r] = step]
        /\ Locked(i) => step = "purge"
  BY DEF IsLocked, AfterCheck
<1>2. /\ UNCHANGED <<clock, rows, now, next, early>> /\ pc[r] \in {"idle", "thrown"}
      /\ ~(Locked(i) /\ clock < until[i])
      /\ who' = [who EXCEPT ![r] = i] /\ right' = [right EXCEPT ![r] = ok]
  BY DEF IsLocked
<1>3. /\ pc' \in [Requests -> PCs] /\ who' \in [Requests -> Identifiers]
      /\ right' \in [Requests -> BOOLEAN]
      /\ \A q \in Requests : /\ pc'[q] = IF q = r THEN step ELSE pc[q]
                             /\ who'[q] = IF q = r THEN i ELSE who[q]
  <2>1. step \in PCs
    BY DEF PCs, Failing
  <2>2. right' \in [Requests -> BOOLEAN]
    BY <1>2 DEF IInv, TypeOK
  <2> QED
    BY <1>1, <1>2, <2>1, <2>2 DEF IInv, TypeOK
<1>4. \A j \in Identifiers :
        InFlight(j)' = IF j = i THEN InFlight(j) \cup {r} ELSE InFlight(j)
  BY <1>2, <1>3 DEF InFlight
<1>5. TypeOK'
  BY <1>2, <1>3, <1>4 DEF IInv, TypeOK, rows
<1>6. GuessesBounded'
  <2> SUFFICES ASSUME NEW j \in Identifiers PROVE Bounded(tally'[j], Failures(j)')
    BY GuessesParts
  <2>1. /\ tally'[j] = tally[j] /\ tally[j] \in Nat /\ Bounded(tally[j], Failures(j))
        /\ Failures(j) \in SUBSET Requests /\ Failures(j)' \in SUBSET Requests
    <3>1. Failures(j) \in SUBSET Requests /\ Failures(j)' \in SUBSET Requests
      BY DEF Failures, InFlight
    <3>2. Bounded(tally[j], Failures(j))
      BY GuessesParts DEF IInv
    <3> QED
      BY <1>2, <3>1, <3>2 DEF IInv, TypeOK, rows
  <2>2. CASE j # i \/ step # "lock"
    <3>1. Failures(j)' \subseteq Failures(j)
      <4>1. ASSUME NEW q \in Failures(j)' PROVE q # r /\ q \in Requests
        BY <1>1, <1>3, <2>2, <4>1 DEF Failures, InFlight, Failing, InTx
      <4> QED
        BY <1>3, <4>1 DEF Failures, InFlight
    <3> QED
      BY <2>1, <3>1, BoundedFewer
  <2>3. CASE j = i /\ step = "lock"
    <3>1. tally[j] < MaxAttempts
      BY <1>1, <2>1, <2>3, LoginAssumption DEF IInv, TypeOK, NoLostAttempt, Locked
    <3> QED
      BY <2>1, <3>1, BoundedLow
  <2> QED
    BY <2>2, <2>3
<1>7. NoLostAttempt' /\ Exclusive' /\ NextIsRight'
  BY <1>1, <1>2, <1>3 DEF IInv, NoLostAttempt, Exclusive, NextIsRight, InTx, rows
<1>8. OnlyEarly'
  BY <1>2, <1>4 DEF IInv, OnlyEarly, Locked, rows
<1> QED
  BY <1>5, <1>6, <1>7, <1>8 DEF IInv

(* The advisory lock, the read under it, and the death of a login leave    *)
(* the table alone. *)
LEMMA TableKept ==
  ASSUME IInv, NEW r \in Requests, NEW step \in PCs, pc' = [pc EXCEPT ![r] = step],
         UNCHANGED <<clock, rows, who>>, step \in Failing => pc[r] \in Failing,
         pc[r] \notin {"idle", "thrown"},
         IF step \in {"idle", "thrown"} THEN Gone(r) ELSE UNCHANGED early,
         right' \in [Requests -> BOOLEAN], now' \in [Requests -> 0 .. MaxClock],
         next' \in [Requests -> Nat], Exclusive', NextIsRight'
  PROVE  IInv'
<1>1. pc' \in [Requests -> PCs] /\ UNCHANGED <<clock, present, count, first, until, tally, who>>
  BY DEF IInv, TypeOK, rows
<1>2. \A j \in Identifiers :
        /\ Failures(j) \in SUBSET Requests /\ Failures(j)' \subseteq Failures(j)
        /\ InFlight(j)' = IF step \in {"idle", "thrown"} THEN InFlight(j) \ {r} ELSE InFlight(j)
  <2> TAKE j \in Identifiers
  <2>1. who[r] = j => r \in InFlight(j)
    BY DEF InFlight
  <2>2. TypeOK /\ UNCHANGED who
    BY <1>1 DEF IInv
  <2>3. /\ Failures(j) \in SUBSET Requests
        /\ (step \in Failing => pc[r] \in Failing) => Failures(j)' \subseteq Failures(j)
        /\ InFlight(j)' = IF step \in {"idle", "thrown"} THEN InFlight(j) \ {r}
                          ELSE IF who[r] = j THEN InFlight(j) \cup {r} ELSE InFlight(j)
    BY <2>2, SlotsOf
  <2> QED
    BY <2>1, <2>3
<1>3. \A j \in Identifiers :
        early'[j] = IF step \in {"idle", "thrown"} THEN early[j] \ {r} ELSE early[j]
  BY DEF Gone
<1>4. TypeOK'
  <2>1. /\ early' \in [Identifiers -> SUBSET Requests]
        /\ \A j \in Identifiers : early'[j] \subseteq InFlight(j)'
    BY <1>2, <1>3 DEF IInv, TypeOK, Gone
  <2> QED
    BY <1>1, <2>1 DEF IInv, TypeOK
<1>5. GuessesBounded'
  BY <1>1, <1>2, BoundedFewer, GuessesParts DEF IInv, TypeOK
<1>6. NoLostAttempt'
  BY <1>1 DEF IInv, NoLostAttempt
<1>7. OnlyEarly'
  BY <1>1, <1>2, <1>3 DEF IInv, OnlyEarly, Locked
<1> QED
  BY <1>4, <1>5, <1>6, <1>7 DEF IInv

LEMMA LockStep ==
  ASSUME IInv, NEW r \in Requests, Lock(r)
  PROVE  IInv'
<1>1. /\ pc[r] = "lock" /\ pc' = [pc EXCEPT ![r] = "count"]
      /\ UNCHANGED <<clock, rows, who, right, now, next, early>>
      /\ \A q \in Requests : pc[q] \in InTx => who[q] # who[r]
  BY DEF Lock, Goto
<1>2. "count" \in PCs /\ "count" \notin {"idle", "thrown"} /\ pc[r] \in Failing
  BY <1>1 DEF PCs, Failing, InTx
<1>3. Exclusive' /\ NextIsRight'
  BY <1>1 DEF IInv, TypeOK, Exclusive, NextIsRight, InTx, rows
<1> QED
  BY <1>1, <1>2, <1>3, TableKept DEF IInv, TypeOK

LEMMA ReadCountStep ==
  ASSUME IInv, NEW r \in Requests, ReadCount(r)
  PROVE  IInv'
<1>1. PICK step \in {"reset", "increment"}, n \in Nat :
        /\ pc' = [pc EXCEPT ![r] = step] /\ next' = [next EXCEPT ![r] = n]
        /\ step = "reset" => n = 1
        /\ step = "increment" => n = count[who[r]] + 1
  <2>1. count[who[r]] + 1 \in Nat
    BY DEF IInv, TypeOK
  <2> QED
    BY <2>1 DEF ReadCount
<1>2. /\ pc[r] = "count" /\ now' = [now EXCEPT ![r] = clock]
      /\ UNCHANGED <<clock, rows, who, right, early>>
  BY DEF ReadCount
<1>3. step \in PCs /\ step \notin {"idle", "thrown"} /\ pc[r] \in Failing
  BY <1>2 DEF PCs, Failing, InTx
<1>4. Exclusive' /\ NextIsRight'
  BY <1>1, <1>2 DEF IInv, TypeOK, Exclusive, NextIsRight, InTx, rows
<1>5. /\ right' \in [Requests -> BOOLEAN] /\ now' \in [Requests -> 0 .. MaxClock]
      /\ next' \in [Requests -> Nat]
  BY <1>1, <1>2 DEF IInv, TypeOK
<1> QED
  BY <1>1, <1>2, <1>3, <1>4, <1>5, TableKept

LEMMA FinishType ==
  ASSUME IInv, NEW r \in Requests, NEW step \in {"idle", "thrown"}, Finish(r, step)
  PROVE  /\ right' \in [Requests -> BOOLEAN] /\ now' \in [Requests -> 0 .. MaxClock]
         /\ next' \in [Requests -> Nat] /\ pc' = [pc EXCEPT ![r] = step]
         /\ UNCHANGED who /\ step \in PCs /\ step \notin Failing
         /\ \A q \in Requests : pc'[q] \in InTx => q # r /\ pc'[q] = pc[q] /\ next'[q] = next[q]
BY LoginAssumption DEF Finish, IInv, TypeOK, PCs, Failing, InTx

LEMMA CrashStep ==
  ASSUME IInv, NEW r \in Requests, Crash(r)
  PROVE  IInv'
<1>1. /\ Finish(r, "idle") /\ Gone(r) /\ UNCHANGED <<clock, rows>>
      /\ pc[r] \notin {"idle", "thrown"}
  BY DEF Crash
<1>2. Exclusive' /\ NextIsRight'
  BY <1>1, FinishType DEF IInv, Exclusive, NextIsRight, InTx, rows
<1> QED
  BY <1>1, <1>2, FinishType, TableKept

-----------------------------------------------------------------------------
(* The statements that change the row of one identifier.  The others'      *)
(* slots and identifiers are as before. *)
LEMMA SlotMoved ==
  ASSUME IInv, NEW r \in Requests, NEW step \in PCs, pc' = [pc EXCEPT ![r] = step],
         UNCHANGED who, pc[r] \notin {"idle", "thrown"},
         IF step \in {"idle", "thrown"} THEN Gone(r) ELSE UNCHANGED early
  PROVE  /\ early' \in [Identifiers -> SUBSET Requests]
         /\ \A j \in Identifiers :
              /\ early'[j] \subseteq InFlight(j)'
              /\ InFlight(j) \subseteq early[j] => InFlight(j)' \subseteq early'[j]
         /\ \A j \in Identifiers \ {who[r]} : Failures(j)' \subseteq Failures(j)
         /\ \A j \in Identifiers : Failures(j) \in SUBSET Requests /\ Failures(j)' \in SUBSET Requests
<1>1. TypeOK
  BY DEF IInv
<1>2. \A j \in Identifiers :
        /\ Failures(j) \in SUBSET Requests /\ Failures(j)' \in SUBSET Requests
        /\ InFlight(j)' = IF step \in {"idle", "thrown"} THEN InFlight(j) \ {r}
                          ELSE IF who[r] = j THEN InFlight(j) \cup {r} ELSE InFlight(j)
  BY <1>1, SlotsOf
<1>3. \A j \in Identifiers : who[r] = j => r \in InFlight(j)
  BY DEF InFlight
<1>4. \A j \in Identifiers :
        early'[j] = IF step \in {"idle", "thrown"} THEN early[j] \ {r} ELSE early[j]
  BY DEF Gone
<1>5. \A j \in Identifiers \ {who[r]} : Failures(j)' \subseteq Failures(j)
  BY <1>1 DEF Failures, InFlight, TypeOK
<1>6. \A j \in Identifiers : early[j] \subseteq InFlight(j)
  BY <1>1 DEF TypeOK
<1>7. \A j \in Identifiers :
        InFlight(j)' = IF step \in {"idle", "thrown"} THEN InFlight(j) \ {r} ELSE InFlight(j)
  BY <1>2, <1>3
<1>8. \A j \in Identifiers :
        /\ early'[j] \subseteq InFlight(j)'
        /\ InFlight(j) \subseteq early[j] => InFlight(j)' \subseteq early'[j]
  <2> TAKE j \in Identifiers
  <2> QED
    BY <1>4, <1>6, <1>7
<1>9. early' \in [Identifiers -> SUBSET Requests]
  BY <1>1 DEF TypeOK, Gone
<1> QED
  BY <1>2, <1>5, <1>8, <1>9

LEMMA DeleteStep ==
  ASSUME IInv, NEW r \in Requests, NEW step \in {"clear", "lock", "idle"},
         pc' = [pc EXCEPT ![r] = step], Delete(who[r]), UNCHANGED <<clock, who>>,
         pc[r] \in {"purge", "clear"},
         IF step \in {"idle", "thrown"} THEN Gone(r) ELSE UNCHANGED early,
         right' \in [Requests -> BOOLEAN], now' \in [Requests -> 0 .. MaxClock],
         next' \in [Requests -> Nat], \A q \in Requests : pc'[q] \in InTx => next'[q] = next[q]
  PROVE  IInv'
<1> DEFINE i == who[r]
<1>1. /\ step \in PCs /\ i \in Identifiers /\ pc[r] \notin {"idle", "thrown"}
      /\ pc' \in [Requests -> PCs]
      /\ \A q \in Requests : pc'[q] = IF q = r THEN step ELSE pc[q]
  BY DEF IInv, TypeOK, PCs, Failing
<1>2. /\ early' \in [Identifiers -> SUBSET Requests]
      /\ \A j \in Identifiers :
           /\ early'[j] \subseteq InFlight(j)'
           /\ InFlight(j) \subseteq early[j] => InFlight(j)' \subseteq early'[j]
      /\ \A j \in Identifiers \ {i} : Failures(j)' \subseteq Failures(j)
      /\ \A j \in Identifiers : Failures(j) \in SUBSET Requests /\ Failures(j)' \in SUBSET Requests
  BY <1>1, SlotMoved
<1>3. /\ present' = present \ {i}
      /\ count' \in [Identifiers -> Nat] /\ until' \in [Identifiers -> Nat]
      /\ tally' \in [Identifiers -> Nat] /\ first' \in [Identifiers -> 0 .. MaxClock]
      /\ count'[i] = 0 /\ until'[i] = NotLocked /\ tally'[i] = 0
      /\ \A j \in Identifiers \ {i} :
           count'[j] = count[j] /\ until'[j] = until[j] /\ tally'[j] = tally[j]
  BY <1>1, LoginAssumption DEF Delete, IInv, TypeOK, NotLocked
<1>4. TypeOK'
  BY <1>1, <1>2, <1>3 DEF IInv, TypeOK
<1>5. GuessesBounded'
  <2> SUFFICES ASSUME NEW j \in Identifiers PROVE Bounded(tally'[j], Failures(j)')
    BY GuessesParts
  <2>1. CASE j = i
    BY <1>2, <1>3, <2>1, BoundedLow, LoginAssumption
  <2>2. CASE j # i
    BY <1>2, <1>3, <2>2, BoundedFewer, GuessesParts DEF IInv, TypeOK
  <2> QED
    BY <2>1, <2>2
<1>6. NoLostAttempt'
  BY <1>3 DEF IInv, NoLostAttempt
<1>7. Exclusive' /\ NextIsRight'
  BY <1>1, <1>3 DEF IInv, TypeOK, Exclusive, NextIsRight, InTx
<1>8. OnlyEarly'
  <2> SUFFICES ASSUME NEW j \in Identifiers, (Locked(j) /\ clock < until[j])'
               PROVE  InFlight(j)' \subseteq early'[j]
    BY DEF OnlyEarly
  <2>1. j # i /\ Locked(j) /\ clock < until[j]
    BY <1>3 DEF Locked
  <2> QED
    BY <1>2, <2>1 DEF IInv, OnlyEarly
<1> QED
  BY <1>4, <1>5, <1>6, <1>7, <1>8 DEF IInv

LEMMA PurgeStep ==
  ASSUME IInv, NEW r \in Requests, Purge(r)
  PROVE  IInv'
<1>1. PICK step \in {"clear", "lock"} : pc' = [pc EXCEPT ![r] = step]
  BY DEF Purge, Goto, AfterCheck
<1>2. /\ pc[r] = "purge" /\ Delete(who[r]) /\ UNCHANGED <<clock, early, who, right, now, next>>
  BY DEF Purge, Goto
<1> QED
  BY <1>1, <1>2, DeleteStep DEF IInv, TypeOK

LEMMA ClearStep ==
  ASSUME IInv, NEW r \in Requests, Clear(r)
  PROVE  IInv'
<1>1. pc[r] = "clear" /\ Delete(who[r]) /\ Finish(r, "idle") /\ Gone(r) /\ UNCHANGED clock
  BY DEF Clear
<1> QED
  BY <1>1, DeleteStep, FinishType

(* A failure is recorded as the n'th of its row. *)
LEMMA RecordStep ==
  ASSUME IInv, NEW r \in Requests, NEW n \in Nat, pc[r] \in InTx, Finish(r, "idle"),
         UNCHANGED clock, who[r] \in present', present' = present \cup {who[r]},
         first' \in [Identifiers -> 0 .. MaxClock],
         count' = [count EXCEPT ![who[r]] = n], tally' = [tally EXCEPT ![who[r]] = n],
         n < MaxAttempts \/ n = tally[who[r]] + 1,
         NEW t \in Nat, until' = [until EXCEPT ![who[r]] = t],
         t # NotLocked <=> n >= MaxAttempts,
         early' \in {[j \in Identifiers |-> early[j] \ {r}],
                     [early EXCEPT ![who[r]] = InFlight(who[r]) \ {r}]},
         t # NotLocked => early' = [early EXCEPT ![who[r]] = InFlight(who[r]) \ {r}]
  PROVE  IInv'
<1> DEFINE i == who[r]
<1>1. /\ i \in Identifiers /\ pc[r] \in Failing
      /\ right' \in [Requests -> BOOLEAN] /\ now' \in [Requests -> 0 .. MaxClock]
      /\ next' \in [Requests -> Nat] /\ pc' = [pc EXCEPT ![r] = "idle"] /\ UNCHANGED who
      /\ \A q \in Requests : pc'[q] \in InTx => q # r /\ pc'[q] = pc[q] /\ next'[q] = next[q]
  BY FinishType DEF Failing, IInv, TypeOK
<1>2. /\ count' \in [Identifiers -> Nat] /\ until' \in [Identifiers -> Nat]
      /\ tally' \in [Identifiers -> Nat]
      /\ count'[i] = n /\ until'[i] = t /\ tally'[i] = n
      /\ \A j \in Identifiers \ {i} :
           count'[j] = count[j] /\ until'[j] = until[j] /\ tally'[j] = tally[j]
  BY <1>1 DEF IInv, TypeOK
<1>3. \A j \in Identifiers :
        /\ Failures(j) \in SUBSET Requests /\ Failures(j)' \subseteq Failures(j) \ {r}
        /\ InFlight(j)' = InFlight(j) \ {r}
  <2>1. TypeOK /\ "idle" \in PCs /\ "idle" \notin Failing /\ UNCHANGED who
    BY <1>1 DEF IInv, PCs, Failing, InTx
  <2> QED
    BY <1>1, <2>1, SlotsOf
<1>4. r \in Failures(i) /\ \A j \in Identifiers \ {i} : r \notin InFlight(j)
  BY <1>1 DEF Failures, InFlight, Failing, InTx
<1>5. early \in [Identifiers -> SUBSET Requests] /\ \A j \in Identifiers : early[j] \subseteq InFlight(j)
  BY DEF IInv, TypeOK
<1>6. \A j \in Identifiers \ {i} : early'[j] = early[j]
  <2>1. CASE early' = [j \in Identifiers |-> early[j] \ {r}]
    BY <1>4, <1>5, <2>1
  <2>2. CASE early' = [early EXCEPT ![i] = InFlight(i) \ {r}]
    BY <1>5, <2>2
  <2> QED
    BY <2>1, <2>2
<1>7. /\ early'[i] \subseteq InFlight(i) \ {r}
      /\ t # NotLocked => early'[i] = InFlight(i) \ {r}
  BY <1>1, <1>5
<1>8. TypeOK'
  <2>1. \A j \in Identifiers : early'[j] \subseteq InFlight(j)'
    BY <1>3, <1>4, <1>5, <1>6, <1>7
  <2>2. pc' \in [Requests -> PCs] /\ early' \in [Identifiers -> SUBSET Requests]
    BY <1>1, <1>5 DEF IInv, TypeOK, PCs, InFlight
  <2>3. \A j \in Identifiers \ present' : count'[j] = 0 /\ until'[j] = NotLocked
    BY <1>2 DEF IInv, TypeOK
  <2> QED
    BY <1>1, <1>2, <2>1, <2>2, <2>3 DEF IInv, TypeOK
<1>9. GuessesBounded'
  <2> SUFFICES ASSUME NEW j \in Identifiers PROVE Bounded(tally'[j], Failures(j)')
    BY GuessesParts
  <2>1. Bounded(tally[j], Failures(j)) /\ tally[j] \in Nat
    BY GuessesParts DEF IInv, TypeOK
  <2>2. CASE j # i
    BY <1>2, <1>3, <2>1, <2>2, BoundedFewer
  <2>3. CASE j = i /\ n < MaxAttempts
    BY <1>2, <1>3, <2>3, BoundedLow
  <2>4. CASE j = i /\ n = tally[i] + 1
    BY <1>2, <1>3, <1>4, <2>1, <2>4, BoundedMoved
  <2> QED
    BY <2>2, <2>3, <2>4
<1>10. NoLostAttempt'
  BY <1>2 DEF IInv, NoLostAttempt
<1>11. Exclusive' /\ NextIsRight'
  <2>1. \A q \in Requests : pc'[q] \in InTx => who[q] # i
    BY <1>1 DEF IInv, Exclusive
  <2> QED
    BY <1>1, <1>2, <2>1 DEF IInv, TypeOK, Exclusive, NextIsRight, InTx
<1>12. OnlyEarly'
  <2> SUFFICES ASSUME NEW j \in Identifiers, (Locked(j) /\ clock < until[j])'
               PROVE  InFlight(j)' \subseteq early'[j]
    BY DEF OnlyEarly
  <2>1. CASE j = i
    BY <1>2, <1>3, <1>7, <2>1 DEF Locked
  <2>2. CASE j # i
    <3>1. Locked(j) /\ clock < until[j]
      BY <1>2, <2>2 DEF Locked
    <3> QED
      BY <1>3, <1>6, <2>2, <3>1 DEF IInv, OnlyEarly
  <2> QED
    BY <2>1, <2>2
<1> QED
  BY <1>8, <1>9, <1>10, <1>11, <1>12 DEF IInv

LEMMA ResetStep ==
  ASSUME IInv, NEW r \in Requests, Reset(r)
  PROVE  IInv'
<1>1. /\ pc[r] = "reset" /\ next[r] = 1 /\ Finish(r, "idle") /\ Gone(r) /\ UNCHANGED clock
      /\ present' = present \cup {who[r]} /\ first' = [first EXCEPT ![who[r]] = now[r]]
      /\ count' = [count EXCEPT ![who[r]] = 1] /\ tally' = [tally EXCEPT ![who[r]] = 1]
      /\ until' = [until EXCEPT ![who[r]] = NotLocked]
  BY DEF Reset, IInv, NextIsRight
<1>2. /\ first' \in [Identifiers -> 0 .. MaxClock] /\ who[r] \in present'
      /\ pc[r] \in InTx /\ 1 < MaxAttempts
  BY <1>1, LoginAssumption DEF IInv, TypeOK, InTx
<1>3. PICK n \in Nat, t \in Nat : n = 1 /\ t = NotLocked
  BY DEF NotLocked
<1>4. early' = [j \in Identifiers |-> early[j] \ {r}]
  BY <1>1 DEF Gone
<1>5. n < MaxAttempts /\ ~(n >= MaxAttempts)
  BY <1>2, <1>3, LoginAssumption
<1>6. present' = present \cup {who[r]} /\ Finish(r, "idle") /\ UNCHANGED clock
  BY <1>1
<1>7. /\ count' = [count EXCEPT ![who[r]] = n] /\ tally' = [tally EXCEPT ![who[r]] = n]
      /\ until' = [until EXCEPT ![who[r]] = t]
  BY <1>1, <1>3
<1> QED
  BY <1>2, <1>3, <1>4, <1>5, <1>6, <1>7, RecordStep

LEMMA IncrementStep ==
  ASSUME IInv, NEW r \in Requests, Increment(r)
  PROVE  IInv'
<1> DEFINE i == who[r]
<1>1. /\ pc[r] = "increment" /\ i \in Identifiers /\ UNCHANGED <<clock, present, first>>
      /\ pc[r] \in InTx /\ pc[r] \notin {"idle", "thrown"}
  BY DEF Increment, IInv, TypeOK, InTx
<1>2. CASE i \notin present
  <2>1. /\ UNCHANGED <<clock, rows>> /\ Finish(r, "thrown") /\ Gone(r)
    BY <1>1, <1>2 DEF Increment, rows
  <2>2. Exclusive' /\ NextIsRight'
    BY <1>1, <2>1, FinishType DEF IInv, Exclusive, NextIsRight, InTx, rows
  <2> QED
    BY <1>1, <2>1, <2>2, FinishType, TableKept
<1>3. CASE i \in present
  <2>1. next[r] = count[i] + 1 /\ count[i] = tally[i] /\ count[i] \in Nat /\ now[r] \in Nat
    BY <1>1, <1>3, LoginAssumption DEF IInv, NextIsRight, NoLostAttempt, TypeOK
  <2>2. PICK n \in Nat : n = next[r]
    BY <2>1
  <2>3. /\ count' = [count EXCEPT ![i] = n] /\ Finish(r, "idle")
        /\ tally' = [tally EXCEPT ![i] = n]
    BY <1>3, <2>1, <2>2 DEF Increment, IInv, TypeOK
  <2>4. CASE n >= MaxAttempts
    <3>1. PICK t : t = now[r] + Lockout
      OBVIOUS
    <3>2. t \in Nat /\ t # NotLocked
      BY <2>1, <3>1, LoginAssumption DEF NotLocked
    <3>3. /\ until' = [until EXCEPT ![i] = t]
          /\ early' = [early EXCEPT ![i] = InFlight(i) \ {r}]
      BY <1>3, <2>2, <2>4, <3>1 DEF Increment
    <3>4. present' = present \cup {i} /\ i \in present' /\ n = tally[i] + 1
      BY <1>1, <1>3, <2>1, <2>2
    <3>5. first' \in [Identifiers -> 0 .. MaxClock]
      BY <1>1 DEF IInv, TypeOK
    <3> QED
      BY <1>1, <2>3, <2>4, <3>2, <3>3, <3>4, <3>5, RecordStep
  <2>5. CASE ~(n >= MaxAttempts)
    <3>1. until[i] = NotLocked
      BY <1>1, <1>3, <2>1, <2>2, <2>5, LoginAssumption DEF IInv, NoLostAttempt
    <3>2. until' = [until EXCEPT ![i] = NotLocked] /\ Gone(r)
      BY <1>3, <2>2, <2>5, <3>1 DEF Increment, IInv, TypeOK
    <3>3. PICK t \in Nat : t = NotLocked
      BY DEF NotLocked
    <3>4. present' = present \cup {i} /\ i \in present' /\ n = tally[i] + 1
      BY <1>1, <1>3, <2>1, <2>2
    <3>5. first' \in [Identifiers -> 0 .. MaxClock]
      BY <1>1 DEF IInv, TypeOK
    <3>6. early' = [j \in Identifiers |-> early[j] \ {r}] /\ until' = [until EXCEPT ![i] = t]
      BY <3>2, <3>3 DEF Gone
    <3> QED
      BY <1>1, <2>3, <2>5, <3>3, <3>4, <3>5, <3>6, RecordStep
  <2> QED
    BY <2>4, <2>5
<1> QED
  BY <1>2, <1>3

LEMMA TickStep == IInv /\ Tick => IInv'
<1> SUFFICES ASSUME IInv, Tick PROVE IInv'
  OBVIOUS
<1>1. /\ clock' \in 0 .. MaxClock /\ clock <= clock' /\ clock \in Nat
      /\ UNCHANGED <<present, count, first, until, tally, pc, who, right, now, next, early>>
  BY LoginAssumption DEF Tick, IInv, TypeOK, rows, local
<1>2. \A i \in Identifiers : InFlight(i)' = InFlight(i) /\ Failures(i)' = Failures(i)
  BY <1>1 DEF InFlight, Failures
<1>3. TypeOK'
  BY <1>1, <1>2 DEF IInv, TypeOK
<1>4. GuessesBounded'
  BY <1>1, <1>2, GuessesParts DEF IInv
<1>5. NoLostAttempt' /\ Exclusive' /\ NextIsRight'
  BY <1>1 DEF IInv, NoLostAttempt, Exclusive, NextIsRight
<1>6. OnlyEarly'
  <2>1. \A i \in Identifiers : until[i] \in Nat
    BY DEF IInv, TypeOK
  <2> QED
    BY <1>1, <1>2, <2>1, LoginAssumption DEF IInv, OnlyEarly, Locked
<1> QED
  BY <1>3, <1>4, <1>5, <1>6 DEF IInv

-----------------------------------------------------------------------------
LEMMA StepIInv == IInv /\ [Next]_vars => IInv'
<1> SUFFICES ASSUME IInv, [Next]_vars PROVE IInv'
  OBVIOUS
<1>1. CASE UNCHANGED vars
  BY <1>1 DEF vars, rows, local, IInv, TypeOK, NoLostAttempt, GuessesBounded, Failures,
              Exclusive, NextIsRight, OnlyEarly, InFlight, Locked
<1>2. ASSUME NEW r \in Requests, Step(r) PROVE IInv'
  BY <1>2, PurgeStep, ClearStep, LockStep, ReadCountStep, ResetStep, IncrementStep DEF Step
<1> QED
  BY <1>1, <1>2, CrashStep, IsLockedStep, TickStep DEF Next

LEMMA SpecIInv == Spec => []IInv
BY InitIInv, StepIInv, PTL DEF Spec

(* The table login_attempts is well-typed for every number of overlapping  *)
(* logins. *)
THEOREM TypeCorrect == Spec => []TypeOK
<1>1. IInv => TypeOK
  BY DEF IInv
<1> QED
  BY <1>1, SpecIInv, PTL

(* However many wrong logins overlap, and whatever is deleted meanwhile,   *)
(* the advisory lock lets no failure be lost.                              *)
THEOREM NoAttemptLost == Spec => []NoLostAttempt
<1>1. IInv => NoLostAttempt
  BY DEF IInv
<1> QED
  BY <1>1, SpecIInv, PTL

(* One row never costs more wrong passwords than the maximum and one for   *)
(* every other login that ran at the same time.                            *)
THEOREM GuessesAreBounded == Spec => []GuessesBounded
<1>1. IInv => GuessesBounded
  BY DEF IInv
<1> QED
  BY <1>1, SpecIInv, PTL

(* A lockout in force ends early only through a login that was past        *)
(* isLocked when it was set: by OnlyEarly no other runs.                   *)
LastsStep ==
  \A i \in Identifiers :
    Locked(i) /\ clock < until[i] /\ ~(i \in present' /\ until'[i] >= until[i])
      => \E r \in early[i] : pc'[r] # pc[r]

LEMMA StepLasts == IInv /\ [Next]_vars => LastsStep
<1> SUFFICES ASSUME IInv, [Next]_vars, NEW i \in Identifiers, Locked(i), clock < until[i],
                    ~(i \in present' /\ until'[i] >= until[i])
             PROVE  \E r \in early[i] : pc'[r] # pc[r]
  BY DEF LastsStep
<1>1. i \in present /\ until[i] \in Nat
  BY DEF Locked, IInv, TypeOK
<1>2. ~(i \in present' /\ until'[i] = until[i])
  BY <1>1
<1>3. ~UNCHANGED rows
  BY <1>1, <1>2 DEF rows
<1>4. PICK r \in Requests : Purge(r) \/ Clear(r) \/ Reset(r) \/ Increment(r)
  BY <1>3 DEF Next, Step, Crash, IsLocked, Lock, ReadCount, Tick, vars
<1>5. /\ pc[r] \in {"purge", "clear", "reset", "increment"}
      /\ \E step \in {"clear", "lock", "idle", "thrown"} :
           pc' = [pc EXCEPT ![r] = step] /\ step # pc[r]
  BY <1>4 DEF Purge, Clear, Reset, Increment, Goto, Finish, AfterCheck
<1>6. pc'[r] # pc[r]
  BY <1>5 DEF IInv, TypeOK
<1>7. who[r] = i
  BY <1>1, <1>2, <1>4 DEF Purge, Clear, Reset, Increment, Delete, IInv, TypeOK
<1>8. r \in early[i]
  BY <1>5, <1>7 DEF IInv, OnlyEarly, InFlight
<1> QED
  BY <1>6, <1>8

THEOREM LockoutsLast == Spec => LockoutLasts
<1>1. IInv /\ [Next]_vars => LastsStep
  BY StepLasts
<1> QED
  BY <1>1, SpecIInv, PTL DEF Spec, LockoutLasts, LastsStep
=============================================================================
