-------------------------- MODULE MCLoginProtection --------------------------
(* Instances of LoginProtection for TLC. *)
EXTENDS LoginProtection, TLC

CONSTANTS r1, r2, r3, e1

ThreeRequests == {r1, r2, r3}
OneIdentifier == {e1}

=============================================================================
