---------------------------- MODULE OneTimeToken ----------------------------
(***************************************************************************)
(* What every credential of the starter that can be redeemed once promises *)
(* (refresh tokens, OTP codes, password reset tokens, invites): it is      *)
(* issued once, it is redeemed at most once, and a credential that was     *)
(* revoked, invalidated or erased is never redeemed.                       *)
(* The detailed modules are checked against this one.                      *)
(***************************************************************************)
EXTENDS Naturals

CONSTANT Token

VARIABLES state,    \* state[t]: where t is in its life
          grants    \* grants[t]: how many callers were granted what t is worth

vars == <<state, grants>>

States == {"absent", "live", "spent", "void", "erased"}

Live == {t \in Token : state[t] = "live"}

Init == /\ state = [t \in Token |-> "absent"]
        /\ grants = [t \in Token |-> 0]

(* t becomes redeemable; the live tokens of S lose their worth with it. *)
Issue(t, S) ==
  /\ state[t] = "absent"
  /\ S \subseteq Live
  /\ state' = [x \in Token |-> IF x = t THEN "live"
                               ELSE IF x \in S THEN "void" ELSE state[x]]
  /\ UNCHANGED grants

Redeem(t) ==
  /\ state[t] = "live"
  /\ state' = [state EXCEPT ![t] = "spent"]
  /\ grants' = [grants EXCEPT ![t] = @ + 1]

Void(S) ==
  /\ S \subseteq Live
  /\ state' = [x \in Token |-> IF x \in S THEN "void" ELSE state[x]]
  /\ UNCHANGED grants

(* The rows of S are deleted with the account they belong to. *)
Erase(S) ==
  /\ state' = [x \in Token |-> IF x \in S THEN "erased" ELSE state[x]]
  /\ UNCHANGED grants

Next ==
  \/ \E t \in Token : Redeem(t)
  \/ \E t \in Token, S \in SUBSET Token : Issue(t, S)
  \/ \E S \in SUBSET Token : Void(S) \/ Erase(S)

Spec == Init /\ [][Next]_vars

TypeOK == /\ state \in [Token -> States]
          /\ grants \in [Token -> Nat]

(* No credential is worth anything to two callers. *)
AtMostOnce == \A t \in Token : grants[t] <= 1

(* The inductive form: only what is spent or erased was ever granted. *)
Accounted ==
  /\ TypeOK
  /\ AtMostOnce
  /\ \A t \in Token : state[t] \in {"absent", "live", "void"} => grants[t] = 0
=============================================================================
