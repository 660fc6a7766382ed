----------------------------- MODULE HealthProbe -----------------------------
(***************************************************************************)
(* The route health of app/routes/health.py.  It is a plain function, so   *)
(* requests run beside one another in threads, and they share one probe    *)
(* file in the library.  What the checks look at does not change while     *)
(* they run, but for state.last_detect_error, which the poller writes.     *)
(***************************************************************************)
CONSTANT Request   \* the requests that may be under way

VARIABLES dbOpens,      \* the library's database can be read
          libmtpLoads,  \* libmtp.so.9 can be loaded
          writable,     \* the library's folder can be written
          lastError,    \* state.last_detect_error is not None
          probe,        \* .cwc-write-probe exists
          pc,           \* where each request stands
          checks,       \* for each request, the checks that have failed
          overlapped    \* history: another probe was under way during its own

world      == <<dbOpens, libmtpLoads, writable>>
healthVars == <<world, lastError, probe, pc, checks, overlapped>>

Check == {"db", "mtp", "books"}

HealthTypeOK ==
  /\ dbOpens \in BOOLEAN /\ libmtpLoads \in BOOLEAN /\ writable \in BOOLEAN
  /\ lastError \in BOOLEAN /\ probe \in BOOLEAN
  /\ pc \in [Request -> {"idle", "mtp", "touch", "unlink", "answer"}]
  /\ checks \in [Request -> SUBSET Check]
  /\ overlapped \subseteq Request
  /\ probe => writable

HealthInit ==
  /\ dbOpens \in BOOLEAN /\ libmtpLoads \in BOOLEAN /\ writable \in BOOLEAN
  /\ lastError = FALSE
  /\ probe = FALSE
  /\ pc = [r \in Request |-> "idle"]
  /\ checks = [r \in Request |-> {}]
  /\ overlapped = {}

\* r has found out about one check, and goes on to the next.
Record(r, check, ok, then) ==
  /\ checks' = [checks EXCEPT ![r] = IF ok THEN @ ELSE @ \cup {check}]
  /\ pc' = [pc EXCEPT ![r] = then]

CheckDb(r) ==
  /\ pc[r] = "idle"
  /\ checks' = [checks EXCEPT ![r] = IF dbOpens THEN {} ELSE {"db"}]
  /\ pc' = [pc EXCEPT ![r] = "mtp"]
  /\ overlapped' = overlapped \ {r}
  /\ UNCHANGED <<world, lastError, probe>>

CheckMtp(r) ==
  /\ pc[r] = "mtp"
  /\ Record(r, "mtp", libmtpLoads /\ ~lastError, "touch")
  /\ UNCHANGED <<world, lastError, probe, overlapped>>

\* r is about to probe: whoever is between its touch and its unlink overlaps it.
NoteOverlap(r) ==
  LET probing == {s \in Request : pc[s] = "unlink"}
  IN  overlapped' = IF probing = {} THEN overlapped ELSE overlapped \cup probing \cup {r}

\* Mutant: nothing is created, and the unlink finds out.
TouchNothing(r) ==
  /\ pc[r] = "touch"
  /\ pc' = [pc EXCEPT ![r] = "unlink"]
  /\ NoteOverlap(r)
  /\ UNCHANGED <<world, lastError, probe, checks>>

Touch(r) ==
  /\ pc[r] = "touch"
  /\ probe' = (probe \/ writable)
  /\ IF writable THEN pc' = [pc EXCEPT ![r] = "unlink"] /\ UNCHANGED checks
                 ELSE Record(r, "books", FALSE, "answer")
  /\ NoteOverlap(r)
  /\ UNCHANGED <<world, lastError>>

\* Mutant: the probe stays where it is.
LeaveProbe(r) ==
  /\ pc[r] = "unlink"
  /\ Record(r, "books", probe, "answer")
  /\ UNCHANGED <<world, lastError, probe, overlapped>>

\* unlink raises if the file is gone.
Unlink(r) ==
  /\ pc[r] = "unlink"
  /\ probe' = FALSE
  /\ Record(r, "books", probe, "answer")
  /\ UNCHANGED <<world, lastError, overlapped>>

\* 200 or 503, by whether a check has failed.
Answer(r) ==
  /\ pc[r] = "answer"
  /\ pc' = [pc EXCEPT ![r] = "idle"]
  /\ UNCHANGED <<world, lastError, probe, checks, overlapped>>

PollerWrites ==
  /\ lastError' \in BOOLEAN
  /\ UNCHANGED <<world, probe, pc, checks, overlapped>>

HealthNext ==
  \/ \E r \in Request : CheckDb(r) \/ CheckMtp(r) \/ Touch(r) \/ Unlink(r) \/ Answer(r)
  \/ PollerWrites

-----------------------------------------------------------------------------
Answered(r) == pc[r] = "answer"

\* Nothing broken goes unreported, and however requests overlap, the last of
\* them leaves no probe in the library (health.py:18-54).
HealthInv ==
  /\ HealthTypeOK
  /\ (\A r \in Request : pc[r] # "unlink") => ~probe
  /\ \A r \in Request : Answered(r) =>
       /\ ~dbOpens => "db" \in checks[r]
       /\ ~libmtpLoads => "mtp" \in checks[r]
       /\ ~writable => "books" \in checks[r]

\* On a writable library the probe raises a false alarm only if two of them
\* overlap: /health "returns 200 ... when healthy" (README.md:116).
FalseAlarmNeedsOverlap ==
  \A r \in Request : Answered(r) /\ writable /\ "books" \in checks[r] => r \in overlapped
=============================================================================
