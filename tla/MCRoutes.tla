------------------------------ MODULE MCRoutes ------------------------------
(* Instances of Routes for TLC. *)
EXTENDS Routes

CONSTANTS r1, r2, r3

SomeRequests == {r1, r2, r3}

\* The numbers are the books' ids, in the order of their titles.
SomeShelves == {<<>>, <<2, 3, 1>>, <<2, 4, 1, 3>>}

\* At most two books to a page are accepted; the setting may be above that, 0 or
\* negative.
SomePageSizes == {-3, -1, 0, 2, 3}
SomeOffered   == {1, 2}
=============================================================================
