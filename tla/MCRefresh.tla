----------------------------- MODULE MCRefresh -----------------------------
(* Instances of Refresh for TLC. *)
EXTENDS Refresh, TLC

CONSTANTS b1, b2

TwoBooks == {b1, b2}
TwoAlike == Permutations(TwoBooks)

\* Title and authors lead to a match, the other fields do not.
SomeFields == {"title", "tags"}
SomeHints  == {"title"}
=============================================================================
