----------------------------- MODULE MCOtpCodes -----------------------------
(* Instances of OtpCodes for TLC. *)
EXTENDS OtpCodes, TLC

CONSTANTS r1, r2, i1, i2, registration

TwoRequests == {r1, r2}
TwoAddresses == {i1, i2}
OneAddress == {i1}
OnePurpose == {registration}
NoScope == {AnyPurpose}

Symmetry == Permutations({r1, r2}) \cup Permutations({i1, i2})
=============================================================================
