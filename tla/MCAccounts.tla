----------------------------- MODULE MCAccounts -----------------------------
(* Values of the constants of Accounts for TLC. *)
EXTENDS Accounts, TLC

CONSTANTS r1, r2, mail, other, phone, g1, g2, f1

ProviderValue == g1 :> "google" @@ g2 :> "google" @@ f1 :> "facebook"
=============================================================================
