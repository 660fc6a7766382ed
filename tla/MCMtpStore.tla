----------------------------- MODULE MCMtpStore -----------------------------
(* Instances of MtpStore for TLC. *)
EXTENDS MtpStore, TLC

CONSTANTS i1, i2, i3, b1, b2

SomeIds  == {i1, i2, i3}
TwoBooks == {b1, b2}
Alike    == Permutations(SomeIds) \cup Permutations(TwoBooks)
=============================================================================
