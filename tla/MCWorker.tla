------------------------------ MODULE MCWorker ------------------------------
(* Instances of Worker for TLC. *)
EXTENDS Worker

CONSTANTS t1, t2, u1, u2, u3

OneThread    == {t1}
TwoThreads   == {t1, t2}
TwoAndUpload == {t1, t2, u1}
Uploads      == {u1, u2, u3}
Nobody       == {}
=============================================================================
