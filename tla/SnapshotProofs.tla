--------------------------- MODULE SnapshotProofs ---------------------------
(***************************************************************************)
(* Theorems about Snapshot for every retention, any number of days, books  *)
(* and changes, and every midnight, failing copy and crash: a changed day  *)
(* has its snapshot, no job changes a library it has no snapshot of, and   *)
(* pruning keeps what it should and no more.                               *)
(***************************************************************************)
EXTENDS Snapshot, FiniteSetTheorems, TLAPS

USE DEF calendar, files, job, vars

\* A day's snapshot is what the day found: copies come of the day on which the
\* running job began, whose part of them the phases tell, before any change of
\* that day; and a day that begins with a job running, or whose copy is cut short,
\* is troubled.
SnapshotInv ==
  /\ TypeOK
  /\ jobDay <= today
  /\ \A d \in Day : d > today \/ (phase # "idle" /\ d > jobDay) => copies[d] = "absent"
  /\ phase # "idle" /\ jobDay # today => today \in troubled
  /\ \A d \in Day : copies[d] = "partial" => d \in troubled \/ (phase = "copy" /\ jobDay = d)
  /\ phase = "copy" => copies[jobDay] = "partial"
  /\ phase \in {"prune", "change"} => copies[jobDay] # "absent"
  /\ today \notin troubled /\ copies[today] = "complete" => content[today] = dawn[today]
  /\ today \notin troubled /\ version # dawn[today] => copies[today] = "complete"

-----------------------------------------------------------------------------
LEMMA TypeInit == Init => TypeOK
BY RetentionAssumption, BoundsAssumption DEF Init, TypeOK, Day, CopyState

\* No step leaves the types.
LEMMA TypeStep == TypeOK /\ [Next]_vars => TypeOK'
<1> SUFFICES ASSUME TypeOK, [Next]_vars PROVE TypeOK'
  OBVIOUS
<1> USE DEF TypeOK, CopyState, EndJob
<1>1. CASE Midnight
  <2>1. today + 1 \in Day
    BY <1>1, BoundsAssumption DEF Midnight, Day
  <2>. QED BY <1>1, <2>1 DEF Midnight
<1>2. ASSUME NEW n \in 1..MaxBooks, BeginJob(n) PROVE TypeOK'
  <2>1. books' \in 0..MaxBooks
    BY <1>2, BoundsAssumption DEF BeginJob
  <2>. QED BY <1>2, <2>1 DEF BeginJob
<1>3. CASE FindSnapshot \/ OpenTarget
  BY <1>3 DEF FindSnapshot, OpenTarget
<1>4. CASE FinishCopy
  BY <1>4 DEF FinishCopy
<1>5. CASE PruneOne
  <2>1. PICK d \in Day : /\ copies' = [copies EXCEPT ![d] = "absent"]
                         /\ content' = [content EXCEPT ![d] = 0]
    BY <1>5 DEF PruneOne, Expired
  <2>2. 0 \in 0..MaxVersion
    BY BoundsAssumption
  <2>. QED BY <1>5, <2>1, <2>2 DEF PruneOne
<1>6. CASE PruneDone
  BY <1>6 DEF PruneDone
<1>7. CASE ChangeBook
  <2>1. version' \in 0..MaxVersion /\ books' \in 0..MaxBooks
    BY <1>7, BoundsAssumption DEF ChangeBook
  <2>. QED BY <1>7, <2>1 DEF ChangeBook
<1>8. CASE CopyRefused \/ CopyFails \/ FinishJob \/ Crash
  <2>1. books' \in 0..MaxBooks
    BY <1>8, BoundsAssumption DEF CopyRefused, CopyFails, FinishJob, Crash
  <2>2. troubled' \subseteq Day
    BY <1>8 DEF CopyRefused, CopyFails, FinishJob, Crash
  <2>. QED BY <1>8, <2>1, <2>2 DEF CopyRefused, CopyFails, FinishJob, Crash
<1>9. CASE UNCHANGED vars
  BY <1>9
<1>. QED
  BY <1>1, <1>2, <1>3, <1>4, <1>5, <1>6, <1>7, <1>8, <1>9 DEF Next

LEMMA SnapshotInvInit == Init => SnapshotInv
BY TypeInit, BoundsAssumption DEF Init, SnapshotInv, Day

\* A snapshot that pruning takes is of an earlier day than the running job's.
LEMMA ExpiredIsEarlier ==
  ASSUME TypeOK, NEW d \in Expired
  PROVE  d \in Day /\ d < jobDay /\ d <= jobDay - retention
BY RetentionAssumption DEF Expired, Cutoff, Larger, TypeOK, Day

\* No step leaves the invariant.
LEMMA SnapshotInvStep == SnapshotInv /\ [Next]_vars => SnapshotInv'
<1> SUFFICES ASSUME SnapshotInv, [Next]_vars PROVE SnapshotInv'
  OBVIOUS
<1>0. TypeOK' /\ TypeOK
  BY TypeStep DEF SnapshotInv
<1> USE <1>0 DEF SnapshotInv, TypeOK, Day, EndJob
<1>1. CASE Midnight
  BY <1>1, BoundsAssumption DEF Midnight
<1>2. ASSUME NEW n \in 1..MaxBooks, BeginJob(n) PROVE SnapshotInv'
  BY <1>2 DEF BeginJob
<1>3. CASE FindSnapshot \/ CopyRefused
  BY <1>3 DEF FindSnapshot, CopyRefused
<1>4. CASE OpenTarget
  BY <1>4 DEF OpenTarget
<1>5. CASE FinishCopy
  BY <1>5 DEF FinishCopy
<1>6. CASE CopyFails
  BY <1>6 DEF CopyFails
<1>7. CASE PruneOne
  <2>1. PICK d \in Expired : /\ copies' = [copies EXCEPT ![d] = "absent"]
                             /\ content' = [content EXCEPT ![d] = 0]
    BY <1>7 DEF PruneOne
  <2>2. d \in Day /\ d < jobDay
    BY ExpiredIsEarlier
  <2>3. /\ copies'[d] = "absent"
        /\ \A e \in Day \ {d} : copies'[e] = copies[e] /\ content'[e] = content[e]
    BY <2>1, <2>2
  <2>4. UNCHANGED <<today, dawn, version, phase, jobDay, troubled>> /\ phase = "prune"
    BY <1>7 DEF PruneOne
  <2>5. jobDay \in Day \ {d} /\ today \in Day \ {d}
    BY <2>2
  <2>. QED BY <2>2, <2>3, <2>4, <2>5
<1>8. CASE PruneDone
  BY <1>8 DEF PruneDone
<1>9. CASE ChangeBook
  <2>1. UNCHANGED <<calendar, files, phase, jobDay, troubled>> /\ phase = "change"
    BY <1>9 DEF ChangeBook
  <2>2. today \notin troubled => copies[today] = "complete"
    BY <2>1 DEF CopyState
  <2>. QED BY <2>1, <2>2
<1>10. CASE FinishJob \/ Crash
  BY <1>10 DEF FinishJob, Crash
<1>11. CASE UNCHANGED vars
  BY <1>11
<1>. QED
  BY <1>1, <1>2, <1>3, <1>4, <1>5, <1>6, <1>7, <1>8, <1>9, <1>10, <1>11 DEF Next

LEMMA SnapshotInvariant == Spec => []SnapshotInv
BY SnapshotInvInit, SnapshotInvStep, PTL DEF Spec

\* On a day that has changed the library there is a complete snapshot of it as the
\* day found it, but for days that began in the middle of a job or whose copy was
\* cut short (snapshot.py:56-67, handlers.py:146-147, 181-182, 201-202).
THEOREM ChangedDayCovered == Spec => []ChangedDayIsCovered
<1>1. SnapshotInv => ChangedDayIsCovered
  BY DEF SnapshotInv, ChangedDayIsCovered
<1>. QED BY <1>1, SnapshotInvariant, PTL

\* No step changes the library unless the running job's day has a snapshot file
\* (handlers.py:146-147, 181-182, 201-202, snapshot.py:36, 67).
THEOREM ChangesHaveSnapshot == Spec => ChangesNeedSnapshot
<1>1. SnapshotInv /\ [Next]_vars => [version' # version => copies[jobDay] # "absent"]_vars
  <2> SUFFICES ASSUME SnapshotInv, Next, version' # version
               PROVE  copies[jobDay] # "absent"
    OBVIOUS
  <2>1. phase = "change"
    BY DEF Next, Midnight, BeginJob, FindSnapshot, OpenTarget, CopyRefused, FinishCopy,
           CopyFails, PruneOne, PruneDone, ChangeBook, FinishJob, Crash
  <2>. QED BY <2>1 DEF SnapshotInv
<1>. QED BY <1>1, SnapshotInvariant, PTL DEF Spec, ChangesNeedSnapshot

\* Pruning that is over has left no more than the days of its window.
LEMMA WindowBound ==
  ASSUME SnapshotInv, phase = "prune", Expired = {}
  PROVE  Cardinality({d \in Day : copies[d] # "absent"}) <= Larger(retention, 1)
<1> DEFINE Kept == {d \in Day : copies[d] # "absent"}
           Window == Cutoff..jobDay
<1>1. retention \in Nat /\ jobDay \in Int /\ Cutoff \in Int
      /\ jobDay - Cutoff + 1 = Larger(retention, 1) /\ Cutoff <= jobDay
  BY RetentionAssumption DEF SnapshotInv, TypeOK, Cutoff, Larger, Day
<1>2. Kept \subseteq Window
  <2>1. ASSUME NEW d \in Kept PROVE d \in Window
    <3>1. d \in Int /\ ~(d < Cutoff) /\ ~(d > jobDay)
      BY DEF Expired, SnapshotInv, Day
    <3>. QED BY <1>1, <3>1
  <2>. QED BY <2>1
<1>3. IsFiniteSet(Window) /\ Cardinality(Window) = jobDay - Cutoff + 1
  BY <1>1, FS_Interval
<1>4. Cardinality(Kept) <= Cardinality(Window)
  BY <1>2, <1>3, FS_Subset
<1>. QED BY <1>1, <1>3, <1>4

\* A complete snapshot is never written again, pruning takes those that have left
\* the window and never today's, and leaves no more than the window
\* (snapshot.py:36-44, 56-67).
THEOREM SnapshotsKept == Spec => SnapshotsStay
<1> DEFINE Stay ==
      /\ \A d \in Day :
           /\ copies[d] # "absent" /\ copies'[d] = "absent" => d <= jobDay - retention /\ d # jobDay
           /\ copies[d] = "complete" /\ copies'[d] # "absent"
                => copies'[d] = "complete" /\ content'[d] = content[d]
      /\ phase = "prune" /\ phase' = "change" =>
           Cardinality({d \in Day : copies'[d] # "absent"}) <= Larger(retention, 1)
<1>1. SnapshotInv /\ [Next]_vars => [Stay]_vars
  <2> SUFFICES ASSUME SnapshotInv, Next PROVE Stay
    OBVIOUS
  <2>1. copies \in [Day -> CopyState] /\ content \in [Day -> 0..MaxVersion] /\ jobDay \in Day
    BY DEF SnapshotInv, TypeOK
  <2>2. CASE UNCHANGED files /\ ~(phase = "prune" /\ phase' = "change")
    BY <2>2
  <2>3. CASE OpenTarget \/ FinishCopy
    BY <2>1, <2>3 DEF OpenTarget, FinishCopy, SnapshotInv
  <2>4. CASE PruneOne
    <3>1. PICK d \in Expired : /\ copies' = [copies EXCEPT ![d] = "absent"]
                               /\ content' = [content EXCEPT ![d] = 0]
      BY <2>4 DEF PruneOne
    <3>2. d \in Day /\ d <= jobDay - retention /\ d # jobDay
      BY ExpiredIsEarlier DEF SnapshotInv, TypeOK, Day
    <3>3. phase' = "prune"
      BY <2>4 DEF PruneOne
    <3>. QED BY <2>1, <3>1, <3>2, <3>3
  <2>5. CASE PruneDone
    <3>1. UNCHANGED files /\ phase = "prune" /\ Expired = {}
      BY <2>5 DEF PruneDone
    <3>2. Cardinality({d \in Day : copies[d] # "absent"}) <= Larger(retention, 1)
      BY <3>1, WindowBound
    <3>. QED BY <3>1, <3>2
  <2>. QED
    BY <2>2, <2>3, <2>4, <2>5
    DEF Next, Midnight, BeginJob, FindSnapshot, CopyRefused, CopyFails, ChangeBook,
        FinishJob, Crash, EndJob
<1>. QED BY <1>1, SnapshotInvariant, PTL DEF Spec, SnapshotsStay

=============================================================================
