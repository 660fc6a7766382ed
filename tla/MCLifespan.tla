----------------------------- MODULE MCLifespan -----------------------------
(* Instances of Lifespan for TLC. *)
EXTENDS Lifespan

CONSTANTS first, second, send, thumbnail

Listings == {first, second}
Transfers == {send, thumbnail}
AllCalls == Listings \cup Transfers
=============================================================================
