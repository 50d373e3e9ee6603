--------------------------- MODULE MCPasswordReset ---------------------------
(* Instances of PasswordReset for TLC. *)
EXTENDS PasswordReset, TLC

CONSTANTS r1, r2

TwoRequests == {r1, r2}
=============================================================================
