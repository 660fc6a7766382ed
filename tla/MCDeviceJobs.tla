---------------------------- MODULE MCDeviceJobs ----------------------------
(* Instances of DeviceJobs for TLC. *)
EXTENDS DeviceJobs, TLC

CONSTANTS b1, b2, i1, i2

TwoBooks == {b1, b2}
Second   == {b2}

TwoIdentities == {i1, i2}
IdentitiesAlike == Permutations(TwoIdentities)

\* Calibre names a book's files "<title> - <author>".
Stems  == [b \in Book |-> IF b = b1 THEN "First - Author" ELSE "Second - Author"]
Titles == [b \in Book |-> IF b = b1 THEN "First" ELSE "Second"]

DefaultOrder == <<"AZW3", "MOBI", "PDF", "EPUB">>

Mixed == [b \in Book |-> IF b = b1 THEN {{"EPUB"}} ELSE {{}, {"OTHER"}, {"MOBI"}}]
=============================================================================
