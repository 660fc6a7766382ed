---------------------------- MODULE MCConversion ----------------------------
(* Instances of Conversion for TLC. *)
EXTENDS Conversion, TLC

CONSTANTS b1, b2

TwoBooks == {b1, b2}
TwoAlike == Permutations(TwoBooks)
=============================================================================
