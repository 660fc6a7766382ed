------------------------------ MODULE Snapshot ------------------------------
(***************************************************************************)
(* The daily copy of metadata.db: app/services/snapshot.py, called at the  *)
(* start of every job that changes the library (handle_upload,             *)
(* handle_refresh and handle_convert in app/handlers.py).  The worker runs *)
(* one job at a time; the calendar moves on while a job runs, a copy may   *)
(* fail half-way, and the process may die at any point: the files survive  *)
(* it, the job does not.                                                   *)
(***************************************************************************)
EXTENDS Integers, FiniteSets

CONSTANTS Retentions,  \* the values settings.snapshot_retention_days may have
          MaxDay,      \* bound: the days of the calendar
          MaxBooks,    \* bound: the books of a job
          MaxVersion   \* bound: the changes made to the library

ASSUME RetentionAssumption == Retentions \subseteq Nat
ASSUME BoundsAssumption == MaxDay \in Nat \ {0} /\ MaxBooks \in Nat \ {0} /\ MaxVersion \in Nat

Day == 1..MaxDay

VARIABLES
  retention, \* settings.snapshot_retention_days
  today,     \* the date
  version,   \* metadata.db: how often it has been changed
  dawn,      \* the version at the start of each day
  copies,    \* the state of metadata-<day>.db in the snapshots directory
  content,   \* the version it was copied from
  phase,     \* where the running job stands
  jobDay,    \* snapshot_if_needed's `today`
  books,     \* the books the job has yet to change
  troubled   \* history: the days with a copy cut short, or begun with a job running

calendar == <<today, dawn>>
files    == <<copies, content>>
job      == <<phase, jobDay, books>>
vars     == <<retention, calendar, version, files, job, troubled>>

CopyState == {"absent", "partial", "complete"}

TypeOK ==
  /\ retention \in Retentions /\ troubled \subseteq Day
  /\ today \in Day
  /\ version \in 0..MaxVersion
  /\ dawn \in [Day -> 0..MaxVersion]
  /\ copies \in [Day -> CopyState]
  /\ content \in [Day -> 0..MaxVersion]
  /\ phase \in {"idle", "check", "copy", "prune", "change"}
  /\ jobDay \in Day
  /\ books \in 0..MaxBooks

Init ==
  /\ retention \in Retentions /\ troubled = {}
  /\ today = 1 /\ version = 0
  /\ dawn = [d \in Day |-> 0]
  /\ copies = [d \in Day |-> "absent"]
  /\ content = [d \in Day |-> 0]
  /\ phase = "idle" /\ jobDay = 1 /\ books = 0

Midnight ==
  /\ today < MaxDay
  /\ today' = today + 1
  /\ dawn' = [dawn EXCEPT ![today + 1] = version]
  /\ troubled' = IF phase = "idle" THEN troubled ELSE troubled \cup {today + 1}
  /\ UNCHANGED <<retention, version, files, job>>

\* Mutant: the handler does not call snapshot_if_needed.
BeginWithoutSnapshot(n) ==
  /\ phase = "idle"
  /\ phase' = "change"
  /\ books' = n
  /\ jobDay' = today
  /\ UNCHANGED <<retention, calendar, version, files, troubled>>

\* The worker calls the handler of a job with n books.
BeginJob(n) ==
  /\ phase = "idle"
  /\ phase' = "check"
  /\ books' = n
  /\ jobDay' = today
  /\ UNCHANGED <<retention, calendar, version, files, troubled>>

EndJob == phase' = "idle" /\ books' = 0 /\ UNCHANGED jobDay

\* target.exists(): today's snapshot is taken to be there.
FindSnapshot ==
  /\ phase = "check"
  /\ copies[jobDay] # "absent"
  /\ phase' = "change"
  /\ UNCHANGED <<retention, calendar, version, files, jobDay, books, troubled>>

\* copy2 opens the target and begins to fill it.
OpenTarget ==
  /\ phase = "check"
  /\ copies[jobDay] = "absent"
  /\ copies' = [copies EXCEPT ![jobDay] = "partial"]
  /\ phase' = "copy"
  /\ UNCHANGED <<retention, calendar, version, content, jobDay, books, troubled>>

\* Mutant: the job goes on without its snapshot.
CopySkipped ==
  /\ phase = "check"
  /\ copies[jobDay] = "absent"
  /\ phase' = "change"
  /\ UNCHANGED <<retention, calendar, version, files, jobDay, books, troubled>>

\* copy2 cannot open metadata.db: the job fails.
CopyRefused ==
  /\ phase = "check"
  /\ copies[jobDay] = "absent"
  /\ EndJob
  /\ UNCHANGED <<retention, calendar, version, files, troubled>>

FinishCopy ==
  /\ phase = "copy"
  /\ copies' = [copies EXCEPT ![jobDay] = "complete"]
  /\ content' = [content EXCEPT ![jobDay] = version]
  /\ phase' = "prune"
  /\ UNCHANGED <<retention, calendar, version, jobDay, books, troubled>>

\* copy2 raises, the disk being full for instance: the job fails.
CopyFails ==
  /\ phase = "copy"
  /\ troubled' = troubled \cup {jobDay}
  /\ EndJob
  /\ UNCHANGED <<retention, calendar, version, files>>

Larger(m, n) == IF m > n THEN m ELSE n

\* Mutant: the window is a day too short.
CutoffTooLate == jobDay - Larger(retention - 2, 0)

\* The first day whose snapshot stays.
Cutoff == jobDay - Larger(retention - 1, 0)

Expired == {d \in Day : copies[d] # "absent" /\ d < Cutoff}

\* _prune unlinks the snapshots before the cutoff in the order of their names.
PruneOne ==
  /\ phase = "prune"
  /\ \E d \in Expired :
       /\ \A other \in Expired : d <= other
       /\ copies' = [copies EXCEPT ![d] = "absent"]
       /\ content' = [content EXCEPT ![d] = 0]
  /\ UNCHANGED <<retention, calendar, version, job, troubled>>

PruneDone ==
  /\ phase = "prune"
  /\ Expired = {}
  /\ phase' = "change"
  /\ UNCHANGED <<retention, calendar, version, files, jobDay, books, troubled>>

\* calibredb changes the library for the job's next book, or fails to.
ChangeBook ==
  /\ phase = "change" /\ books > 0 /\ version < MaxVersion
  /\ version' \in {version, version + 1}
  /\ books' = books - 1
  /\ UNCHANGED <<retention, calendar, files, phase, jobDay, troubled>>

FinishJob ==
  /\ phase = "change" /\ books = 0
  /\ EndJob
  /\ UNCHANGED <<retention, calendar, version, files, troubled>>

\* The process dies and is restarted: its queue and the running job are gone.
Crash ==
  /\ phase # "idle"
  /\ troubled' = IF phase = "copy" THEN troubled \cup {jobDay} ELSE troubled
  /\ EndJob
  /\ UNCHANGED <<retention, calendar, version, files>>

Next == \/ Midnight
        \/ \E n \in 1..MaxBooks : BeginJob(n)
        \/ FindSnapshot \/ OpenTarget \/ CopyRefused \/ FinishCopy \/ CopyFails
        \/ PruneOne \/ PruneDone
        \/ ChangeBook \/ FinishJob \/ Crash

Spec == Init /\ [][Next]_vars

-----------------------------------------------------------------------------
\* A day on which the library has been changed has a snapshot, complete and
\* of the library as the day found it, unless a copy was cut short or the day
\* began with a job running (README.md:117, snapshot.py:56-65).
ChangedDayIsCovered ==
  /\ TypeOK
  /\ version # dawn[today] /\ today \notin troubled =>
       copies[today] = "complete" /\ content[today] = dawn[today]

\* No job changes the library unless a snapshot file of the day it began is
\* there: a snapshot that fails stops its job (handlers.py:146-147, 181-182,
\* 201-202), and pruning spares the day (snapshot.py:36, 67).
ChangesNeedSnapshot ==
  [][version' # version => copies[jobDay] # "absent"]_vars

\* A snapshot, once complete, is never written again; pruning takes those older
\* than the last `retention` days, today included and at least today, and when
\* it is over no others are left (snapshot.py:36-44, 61-62).
SnapshotsStay ==
  [][/\ \A d \in Day :
          /\ copies[d] # "absent" /\ copies'[d] = "absent" => d <= jobDay - retention /\ d # jobDay
          /\ copies[d] = "complete" /\ copies'[d] # "absent"
               => copies'[d] = "complete" /\ content'[d] = content[d]
     /\ phase = "prune" /\ phase' = "change" =>
          Cardinality({d \in Day : copies'[d] # "absent"}) <= Larger(retention, 1)]_vars
=============================================================================
