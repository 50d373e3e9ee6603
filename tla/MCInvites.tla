----------------------------- MODULE MCInvites -----------------------------
(* Values of the constants of Invites for TLC. *)
EXTENDS Invites, TLC

CONSTANTS r1, r2, mail, editor
=============================================================================
