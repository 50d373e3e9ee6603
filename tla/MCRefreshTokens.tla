--------------------------- MODULE MCRefreshTokens ---------------------------
(* Instances of RefreshTokens for TLC. *)
EXTENDS RefreshTokens, TLC

CONSTANTS r1, r2, i1, i2

OneRequest == {r1}
TwoRequests == {r1, r2}
OneAddress == {i1}
TwoAddresses == {i1, i2}

(* Addresses and slots are interchangeable; used for safety only. *)
Symmetry == Permutations({r1, r2}) \cup Permutations({i1, i2})
=============================================================================
