------------------------------ MODULE MCUpload ------------------------------
(* Instances of Upload for TLC. *)
EXTENDS Upload, TLC

CONSTANTS c1, c2

TwoNames    == {"one.epub", "two.epub"}
TwoContents == {c1, c2}
TwoAlike    == Permutations(TwoContents)
=============================================================================
