---------------------------- MODULE RoutesProofs ----------------------------
(***************************************************************************)
(* Theorems about the routes that read, for any number of books, versions  *)
(* of a cover and requests: a walk through the pages misses no book, no    *)
(* browser is left with a cover older than the one it asked for, nothing   *)
(* broken goes unreported, and the health check cries wolf only when its   *)
(* requests overlap.                                                       *)
(***************************************************************************)
EXTENDS Routes, FiniteSetTheorems, SequenceTheorems, TLAPS

USE DEF request, history, vars, pagesVars, coverWorld, coverVars, world, healthVars

\* Versions only grow, so that what is read later is as new as what was read
\* earlier: a body is as new as the ETag before it, and the ETag as the cover at
\* the start; and what was there at the start is there unless it was lost.
CoverInv ==
  /\ CoverTypeOK
  /\ since <= newest /\ (picture # 0 => since <= picture)
  /\ cached.kind = "picture" =>
       cached.etag <= cached.body /\ cached.body <= newest /\ (picture # 0 => cached.body <= picture)
  /\ serving = "open" => etag \in 1..newest /\ (picture # 0 => etag <= picture)
  /\ serving \notin {"nothing", "ok", "error"} =>
       (since # 0 => flagged) /\ (since # 0 /\ picture = 0 => lost)
  /\ serving \in {"stat", "open"} /\ picture = 0 => lost
  /\ serving = "title" => since = 0 \/ lost
  /\ CoverFresh

\* A request that probes alone finds the file it has touched, and a request that
\* has passed a check has recorded its failure.
ProbeInv ==
  /\ HealthTypeOK
  /\ probe => \E r \in Request : pc[r] = "unlink"
  /\ \A r \in Request :
       /\ pc[r] = "unlink" => writable
       /\ pc[r] # "idle" /\ ~dbOpens => "db" \in checks[r]
       /\ pc[r] \in {"touch", "unlink", "answer"} /\ ~libmtpLoads => "mtp" \in checks[r]
       /\ pc[r] = "answer" /\ ~writable => "books" \in checks[r]
       /\ pc[r] \in {"mtp", "touch", "unlink"} => "books" \notin checks[r]
       /\ pc[r] = "unlink" /\ r \notin overlapped =>
            probe /\ \A s \in Request : pc[s] = "unlink" => s = r
  /\ FalseAlarmNeedsOverlap

\* The books that the walk owes its reader.
Owed == ((start \cap Range(shelf)) \ seen) \ moved

\* A walk owes only books on the pages to come, until it has read the last one; and
\* what it counted is no less than what it then finds.  A walk with fewer than one
\* book to a page does not come past its first page.
WalkInv ==
  /\ PagesTypeOK
  /\ cookie \in {0, pageSize} \cup Offered
  /\ read # "nothing" => per \in {pageSize} \cup Offered /\ (per < 1 => page = 1)
  /\ start \ Range(shelf) \subseteq moved
  /\ read \in {"asked", "counted", "shown"} /\ ~slid => \A b \in Owed : Place(b) > Passed
  /\ read = "counted" /\ ~torn => Len(shelf) <= total
  /\ read = "shown" /\ per >= 1 /\ page >= TotalPages /\ ~slid /\ ~torn => Owed = {}
  /\ read = "end" /\ per >= 1 /\ ~slid /\ ~torn => Owed = {}
  /\ read = "refused" => ~Accepted(per)
  /\ read = "failed" => per = 0
-----------------------------------------------------------------------------
(* The cover *)

LEMMA CoverStarts == ASSUME Init PROVE CoverInv
<1>1. flagged \in BOOLEAN /\ lost \in BOOLEAN BY DEF Init, CoverInit
<1>2. picture \in 0..1 /\ newest = picture /\ etag = 0 /\ since = 0 BY DEF Init, CoverInit
<1>3. cached = Nothing /\ serving = "nothing" BY DEF Init, CoverInit
<1>4. 0 \in 0..MaxCovers /\ picture \in 0..MaxCovers BY <1>2, CoversAssumption
<1>5. CoverTypeOK BY <1>1, <1>2, <1>3, <1>4 DEF CoverTypeOK
<1> QED BY <1>2, <1>3, <1>5 DEF CoverInv, CoverFresh, Nothing

\* What the browser has of a picture.
LEMMA PictureFields ==
  ASSUME CoverTypeOK, cached.kind = "picture"
  PROVE  cached \in Pictures /\ cached.etag \in 1..MaxCovers /\ cached.body \in 1..MaxCovers
<1>1. cached # Nothing /\ cached # Placeholder BY DEF Nothing, Placeholder
<1>2. cached \in Pictures BY <1>1 DEF CoverTypeOK
<1> QED BY <1>2 DEF Pictures

LEMMA AskCoverKeeps == ASSUME CoverInv, AskCover PROVE CoverInv'
<1> USE CoversAssumption DEF AskCover
<1>2. since' \in 0..MaxCovers BY DEF CoverInv, CoverTypeOK
<1>3. lost' \in BOOLEAN OBVIOUS
<1>1. CoverTypeOK' BY <1>2, <1>3 DEF CoverInv, CoverTypeOK
<1> QED BY <1>1 DEF CoverInv, CoverTypeOK, CoverFresh

LEMMA ReadRowKeeps == ASSUME CoverInv, ReadRow PROVE CoverInv'
<1> USE CoversAssumption DEF ReadRow, Serve
<1>1. CoverTypeOK' BY DEF CoverInv, CoverTypeOK
<1> QED BY <1>1 DEF CoverInv, CoverTypeOK, CoverFresh

LEMMA FindFileKeeps == ASSUME CoverInv, FindFile PROVE CoverInv'
<1> USE CoversAssumption DEF FindFile, Serve
<1>1. CoverTypeOK' BY DEF CoverInv, CoverTypeOK
<1> QED BY <1>1 DEF CoverInv, CoverTypeOK, CoverFresh

LEMMA StatFileKeeps == ASSUME CoverInv, StatFile PROVE CoverInv'
<1> USE CoversAssumption DEF StatFile, Serve, EtagOfFile
<1>1. CoverTypeOK' BY DEF CoverInv, CoverTypeOK
<1>2. CASE picture = 0 BY <1>1, <1>2 DEF CoverInv, CoverTypeOK, CoverFresh
<1>3. CASE picture # 0 /\ ~Validated
  BY <1>1, <1>3 DEF CoverInv, CoverTypeOK, CoverFresh
<1>4. CASE picture # 0 /\ Validated
  <2>1. /\ cached.kind = "picture" /\ cached.etag = picture
        /\ cached.etag \in 1..MaxCovers /\ cached.body \in 1..MaxCovers
    BY <1>4, PictureFields DEF Validated, CoverInv
  <2>2. cached.body >= since
    BY <1>4, <2>1 DEF CoverInv, CoverTypeOK
  <2> QED BY <1>1, <1>4, <2>1, <2>2 DEF CoverInv, CoverTypeOK, CoverFresh
<1> QED BY <1>2, <1>3, <1>4

LEMMA SendFileKeeps == ASSUME CoverInv, SendFile PROVE CoverInv'
<1> USE CoversAssumption DEF SendFile, Serve
<1>1. CASE picture = 0
  <2>1. CoverTypeOK' BY <1>1 DEF CoverInv, CoverTypeOK
  <2> QED BY <1>1, <2>1 DEF CoverInv, CoverTypeOK, CoverFresh
<1>2. CASE picture # 0
  <2>1. etag \in 1..MaxCovers /\ etag <= picture /\ picture \in 1..MaxCovers
    BY <1>2 DEF CoverInv, CoverTypeOK
  <2>2. cached' = [kind |-> "picture", etag |-> etag, body |-> picture] BY <1>2
  <2>3. cached' \in Pictures BY <2>1, <2>2 DEF Pictures
  <2>4. CoverTypeOK' BY <1>2, <2>3 DEF CoverInv, CoverTypeOK
  <2>5. cached'.kind = "picture" /\ cached'.etag = etag /\ cached'.body = picture
    BY <2>2
  <2> HIDE DEF SendFile
  <2>6. serving' = "ok" /\ UNCHANGED <<coverWorld, since, lost, etag>>
    BY <1>2 DEF SendFile
  <2> QED BY <1>2, <2>1, <2>4, <2>5, <2>6 DEF CoverInv, CoverTypeOK, CoverFresh
<1> QED BY <1>1, <1>2

LEMMA SendPlaceholderKeeps == ASSUME CoverInv, SendPlaceholder PROVE CoverInv'
<1> USE CoversAssumption DEF SendPlaceholder, Serve
<1>1. CoverTypeOK' BY DEF CoverInv, CoverTypeOK
<1>2. cached' = Placeholder /\ cached'.kind # "picture" BY DEF Placeholder
<1> QED BY <1>1, <1>2 DEF CoverInv, CoverTypeOK, CoverFresh

LEMMA WriteCoverKeeps == ASSUME CoverInv, WriteCover PROVE CoverInv'
<1> USE CoversAssumption DEF WriteCover
<1>1. CoverTypeOK' BY DEF CoverInv, CoverTypeOK
<1>2. picture' = newest + 1 /\ newest' = newest + 1 /\ newest \in Nat /\ since \in Nat /\ etag \in Nat
  BY DEF CoverInv, CoverTypeOK
<1>3. cached.kind = "picture" => cached.etag \in Nat /\ cached.body \in Nat
  BY PictureFields DEF CoverInv
<1> QED BY <1>1, <1>2, <1>3 DEF CoverInv, CoverFresh

LEMMA FlagCoverKeeps == ASSUME CoverInv, FlagCover PROVE CoverInv'
<1> USE CoversAssumption DEF FlagCover
<1>1. CoverTypeOK' BY DEF CoverInv, CoverTypeOK
<1> QED BY <1>1 DEF CoverInv, CoverTypeOK, CoverFresh

LEMMA LoseCoverKeeps == ASSUME CoverInv, LoseCover PROVE CoverInv'
<1> USE CoversAssumption DEF LoseCover
<1>1. CoverTypeOK' BY DEF CoverInv, CoverTypeOK
<1> QED BY <1>1 DEF CoverInv, CoverTypeOK, CoverFresh

LEMMA CoverFrame == ASSUME CoverInv, UNCHANGED coverVars PROVE CoverInv'
BY DEF CoverInv, CoverTypeOK, CoverFresh

LEMMA CoverKeeps == ASSUME CoverInv, [Next]_vars PROVE CoverInv'
<1>1. CASE CoverNext
  BY <1>1, AskCoverKeeps, ReadRowKeeps, FindFileKeeps, StatFileKeeps, SendFileKeeps,
     SendPlaceholderKeeps, WriteCoverKeeps, FlagCoverKeeps, LoseCoverKeeps DEF CoverNext
<1>2. CASE UNCHANGED coverVars BY <1>2, CoverFrame
<1> QED BY <1>1, <1>2 DEF Next

\* Once answered, the browser shows a cover at least as new as the one that was
\* in place when it asked; the request fails, and a placeholder takes a cover's
\* place, only if the file goes away under it (cover.py:32-42, db.py:292-298).
THEOREM CoversAreFresh == Spec => []CoverFresh
<1>1. Init => CoverInv BY CoverStarts
<1>2. CoverInv /\ [Next]_vars => CoverInv' BY CoverKeeps
<1>3. CoverInv => CoverFresh BY DEF CoverInv
<1> QED BY <1>1, <1>2, <1>3, PTL DEF Spec

-----------------------------------------------------------------------------
(* The health checks *)

LEMMA ProbeStarts == ASSUME Init PROVE ProbeInv
<1> USE DEF Init, HealthInit
<1>1. HealthTypeOK BY DEF HealthTypeOK
<1> QED BY <1>1 DEF ProbeInv, FalseAlarmNeedsOverlap, Answered

LEMMA CheckDbKeeps == ASSUME ProbeInv, NEW r \in Request, CheckDb(r) PROVE ProbeInv'
<1> USE DEF CheckDb
<1>1. HealthTypeOK' BY DEF ProbeInv, HealthTypeOK, Check
<1> QED BY <1>1 DEF ProbeInv, HealthTypeOK, FalseAlarmNeedsOverlap, Answered

LEMMA CheckMtpKeeps == ASSUME ProbeInv, NEW r \in Request, CheckMtp(r) PROVE ProbeInv'
<1> USE DEF CheckMtp, Record
<1>1. HealthTypeOK' BY DEF ProbeInv, HealthTypeOK, Check
<1> QED BY <1>1 DEF ProbeInv, HealthTypeOK, FalseAlarmNeedsOverlap, Answered

LEMMA TouchKeeps == ASSUME ProbeInv, NEW r \in Request, Touch(r) PROVE ProbeInv'
<1> USE DEF Touch
<1>1. CASE writable
  <2>1. HealthTypeOK' BY <1>1 DEF ProbeInv, HealthTypeOK, Check, NoteOverlap
  <2>2. pc' = [pc EXCEPT ![r] = "unlink"] /\ probe' /\ UNCHANGED <<checks, world, lastError>>
    BY <1>1 DEF ProbeInv, HealthTypeOK
  <2>3. ASSUME NEW s \in Request, pc'[s] = "unlink", s \notin overlapped'
        PROVE  \A q \in Request : pc'[q] = "unlink" => q = s
    <3>1. CASE {q \in Request : pc[q] = "unlink"} = {}
      BY <2>2, <2>3, <3>1 DEF ProbeInv, HealthTypeOK
    <3>2. CASE {q \in Request : pc[q] = "unlink"} # {}
      <4>1. overlapped' = overlapped \cup {q \in Request : pc[q] = "unlink"} \cup {r}
        BY <3>2 DEF NoteOverlap
      <4> QED BY <2>2, <2>3, <4>1 DEF ProbeInv, HealthTypeOK
    <3> QED BY <3>1, <3>2
  <2>4. overlapped \subseteq overlapped' BY DEF NoteOverlap
  <2> HIDE DEF Touch
  <2>5. FalseAlarmNeedsOverlap'
    BY <2>2, <2>4 DEF ProbeInv, HealthTypeOK, FalseAlarmNeedsOverlap, Answered
  <2>6. \E q \in Request : pc'[q] = "unlink" BY <2>2 DEF ProbeInv, HealthTypeOK
  <2>7. ASSUME NEW s \in Request
        PROVE  /\ pc'[s] = "unlink" => writable'
               /\ pc'[s] # "idle" /\ ~dbOpens' => "db" \in checks'[s]
               /\ pc'[s] \in {"touch", "unlink", "answer"} /\ ~libmtpLoads' => "mtp" \in checks'[s]
               /\ pc'[s] = "answer" /\ ~writable' => "books" \in checks'[s]
               /\ pc'[s] \in {"mtp", "touch", "unlink"} => "books" \notin checks'[s]
    BY <1>1, <2>2, <2>7 DEF Touch, ProbeInv, HealthTypeOK
  <2> QED BY <2>1, <2>2, <2>3, <2>5, <2>6, <2>7 DEF ProbeInv
<1>2. CASE ~writable
  <2>1. HealthTypeOK' BY <1>2 DEF ProbeInv, HealthTypeOK, Check, NoteOverlap, Record
  <2>2. /\ pc' = [pc EXCEPT ![r] = "answer"]
        /\ checks' = [checks EXCEPT ![r] = @ \cup {"books"}]
        /\ probe' = probe /\ UNCHANGED <<world, lastError>>
    BY <1>2 DEF ProbeInv, HealthTypeOK, Record
  <2> HIDE DEF Touch
  <2>4. FalseAlarmNeedsOverlap'
    BY <1>2, <2>2 DEF ProbeInv, HealthTypeOK, FalseAlarmNeedsOverlap, Answered
  <2>5. ~probe /\ ~probe' BY <1>2, <2>2 DEF ProbeInv, HealthTypeOK
  <2>6. ASSUME NEW s \in Request
        PROVE  /\ pc'[s] # "unlink"
               /\ pc'[s] # "idle" /\ ~dbOpens' => "db" \in checks'[s]
               /\ pc'[s] \in {"touch", "unlink", "answer"} /\ ~libmtpLoads' => "mtp" \in checks'[s]
               /\ pc'[s] = "answer" /\ ~writable' => "books" \in checks'[s]
               /\ pc'[s] \in {"mtp", "touch", "unlink"} => "books" \notin checks'[s]
    BY <1>2, <2>2, <2>6 DEF Touch, ProbeInv, HealthTypeOK
  <2> QED BY <2>1, <2>4, <2>5, <2>6 DEF ProbeInv
<1> QED BY <1>1, <1>2

LEMMA UnlinkKeeps == ASSUME ProbeInv, NEW r \in Request, Unlink(r) PROVE ProbeInv'
<1> USE DEF Unlink, Record
<1>1. HealthTypeOK' BY DEF ProbeInv, HealthTypeOK, Check
<1> QED BY <1>1 DEF ProbeInv, HealthTypeOK, FalseAlarmNeedsOverlap, Answered

LEMMA AnswerKeeps == ASSUME ProbeInv, NEW r \in Request, Answer(r) PROVE ProbeInv'
<1> USE DEF Answer
<1>1. HealthTypeOK' BY DEF ProbeInv, HealthTypeOK, Check
<1> QED BY <1>1 DEF ProbeInv, HealthTypeOK, FalseAlarmNeedsOverlap, Answered

LEMMA PollerWritesKeeps == ASSUME ProbeInv, PollerWrites PROVE ProbeInv'
BY DEF PollerWrites, ProbeInv, HealthTypeOK, FalseAlarmNeedsOverlap, Answered

LEMMA ProbeFrame == ASSUME ProbeInv, UNCHANGED healthVars PROVE ProbeInv'
BY DEF ProbeInv, HealthTypeOK, FalseAlarmNeedsOverlap, Answered

LEMMA ProbeKeeps == ASSUME ProbeInv, [Next]_vars PROVE ProbeInv'
<1>1. CASE HealthNext
  BY <1>1, CheckDbKeeps, CheckMtpKeeps, TouchKeeps, UnlinkKeeps, AnswerKeeps, PollerWritesKeeps
     DEF HealthNext
<1>2. CASE UNCHANGED healthVars BY <1>2, ProbeFrame
<1> QED BY <1>1, <1>2 DEF Next

\* Nothing broken goes unreported, and however requests overlap, the last of
\* them leaves no probe in the library (health.py:18-54).
THEOREM NothingUnreported == Spec => []HealthInv
<1>1. Init => ProbeInv BY ProbeStarts
<1>2. ProbeInv /\ [Next]_vars => ProbeInv' BY ProbeKeeps
<1>3. ProbeInv => HealthInv BY DEF ProbeInv, HealthInv, Answered
<1> QED BY <1>1, <1>2, <1>3, PTL DEF Spec

\* On a writable library the probe raises a false alarm only if two probes
\* overlap (health.py:40-47).
THEOREM AlarmsAreTrue == Spec => []FalseAlarmNeedsOverlap
<1>1. Init => ProbeInv BY ProbeStarts
<1>2. ProbeInv /\ [Next]_vars => ProbeInv' BY ProbeKeeps
<1>3. ProbeInv => FalseAlarmNeedsOverlap BY DEF ProbeInv
<1> QED BY <1>1, <1>2, <1>3, PTL DEF Spec

-----------------------------------------------------------------------------
(* The shelf as a sequence, and the places of its books *)

\* A sequence without one of its members.
LEMMA RemoveAtProperties ==
  ASSUME NEW S, NEW s \in Seq(S), NEW i \in 1..Len(s)
  PROVE  /\ RemoveAt(s, i) \in Seq(S)
         /\ Len(RemoveAt(s, i)) = Len(s) - 1
         /\ \A k \in 1..(Len(s) - 1) : RemoveAt(s, i)[k] = IF k < i THEN s[k] ELSE s[k + 1]
<1> DEFINE front == SubSeq(s, 1, i - 1)
           back  == SubSeq(s, i + 1, Len(s))
<1>1. /\ front \in Seq(S) /\ Len(front) = i - 1
      /\ \A k \in 1..(i - 1) : front[k] = s[k]
  BY SubSeqProperties
<1>2. /\ back \in Seq(S) /\ Len(back) = Len(s) - i
      /\ \A k \in 1..(Len(s) - i) : back[k] = s[i + k]
  BY SubSeqProperties
<1> HIDE DEF front, back
<1>3. /\ front \o back \in Seq(S) /\ Len(front \o back) = Len(s) - 1
      /\ \A k \in 1..(Len(s) - 1) :
           (front \o back)[k] = IF k <= i - 1 THEN front[k] ELSE back[k - (i - 1)]
  BY <1>1, <1>2, ConcatProperties
<1>4. ASSUME NEW k \in 1..(Len(s) - 1)
      PROVE  (front \o back)[k] = IF k < i THEN s[k] ELSE s[k + 1]
  <2>1. CASE k < i
    BY <1>1, <1>3, <2>1
  <2>2. CASE ~(k < i)
    <3>1. k - (i - 1) \in 1..(Len(s) - i) /\ i + (k - (i - 1)) = k + 1
      BY <2>2
    <3> QED BY <1>2, <1>3, <2>2, <3>1
  <2> QED BY <2>1, <2>2
<1> QED BY <1>3, <1>4 DEF RemoveAt, front, back

\* A sequence with one more member.
LEMMA InsertAtProperties ==
  ASSUME NEW S, NEW s \in Seq(S), NEW i \in 1..(Len(s) + 1), NEW e \in S
  PROVE  /\ InsertAt(s, i, e) \in Seq(S)
         /\ Len(InsertAt(s, i, e)) = Len(s) + 1
         /\ \A k \in 1..(Len(s) + 1) :
              InsertAt(s, i, e)[k] = IF k < i THEN s[k] ELSE IF k = i THEN e ELSE s[k - 1]
<1> DEFINE front == SubSeq(s, 1, i - 1)
           back  == SubSeq(s, i, Len(s))
           one   == <<e>>
           most  == front \o one
<1>1. /\ front \in Seq(S) /\ Len(front) = i - 1
      /\ \A k \in 1..(i - 1) : front[k] = s[k]
  BY SubSeqProperties
<1>2. /\ back \in Seq(S) /\ Len(back) = Len(s) - i + 1
      /\ \A k \in 1..(Len(s) - i + 1) : back[k] = s[i + k - 1]
  BY SubSeqProperties
<1>3. one \in Seq(S) /\ Len(one) = 1 /\ one[1] = e
  OBVIOUS
<1>4. Len(s) \in Nat /\ i \in Nat
  OBVIOUS
<1> HIDE DEF front, back, one
<1>5. /\ most \in Seq(S) /\ Len(most) = i
      /\ \A k \in 1..i : most[k] = IF k < i THEN s[k] ELSE e
  <2>1. /\ most \in Seq(S) /\ Len(most) = Len(front) + Len(one)
        /\ \A k \in 1..(Len(front) + Len(one)) :
             most[k] = IF k <= Len(front) THEN front[k] ELSE one[k - Len(front)]
    BY <1>1, <1>3, ConcatProperties
  <2>2. Len(front) + Len(one) = i
    BY <1>1, <1>3, <1>4
  <2>3. \A k \in 1..(i - 1) : most[k] = s[k]
    BY <1>1, <1>4, <2>1, <2>2
  <2>4. most[i] = e
    <3>1. i \in 1..(Len(front) + Len(one)) /\ ~(i <= Len(front)) /\ i - Len(front) = 1
      BY <1>1, <1>3, <1>4
    <3>2. most[i] = one[i - Len(front)]
      BY <2>1, <3>1
    <3> QED BY <1>3, <3>1, <3>2
  <2> HIDE DEF most
  <2> QED BY <1>4, <2>1, <2>2, <2>3, <2>4
<1> HIDE DEF most
<1>6. /\ most \o back \in Seq(S) /\ Len(most \o back) = Len(s) + 1
      /\ \A k \in 1..(Len(s) + 1) :
           (most \o back)[k] = IF k <= i THEN most[k] ELSE back[k - i]
  <2>1. /\ most \o back \in Seq(S) /\ Len(most \o back) = Len(most) + Len(back)
        /\ \A k \in 1..(Len(most) + Len(back)) :
             (most \o back)[k] = IF k <= Len(most) THEN most[k] ELSE back[k - Len(most)]
    BY <1>2, <1>5, ConcatProperties
  <2>2. Len(most) + Len(back) = Len(s) + 1
    BY <1>2, <1>4, <1>5
  <2> QED BY <1>5, <2>1, <2>2
<1>7. ASSUME NEW k \in 1..(Len(s) + 1)
      PROVE  (most \o back)[k] = IF k < i THEN s[k] ELSE IF k = i THEN e ELSE s[k - 1]
  <2>1. CASE k <= i
    BY <1>4, <1>5, <1>6, <2>1
  <2>2. CASE ~(k <= i)
    <3>1. k - i \in 1..(Len(s) - i + 1) /\ i + (k - i) - 1 = k - 1
      BY <1>4, <2>2
    <3>2. back[k - i] = s[k - 1]
      BY <1>2, <3>1
    <3> QED BY <1>4, <1>6, <2>2, <3>2
  <2> QED BY <2>1, <2>2
<1> QED BY <1>6, <1>7 DEF InsertAt, most, one, front, back

\* The books of a shelf; each has one place.
Shelved(s) == s \in Seq(NBooks) /\ IsInjective(s)

LEMMA ShelvedProperties ==
  ASSUME NEW s, Shelved(s)
  PROVE  /\ Len(s) \in Nat /\ Range(s) \subseteq NBooks
         /\ \A b : b \in Range(s) <=> \E i \in 1..Len(s) : s[i] = b
         /\ \A i, k \in 1..Len(s) : s[i] = s[k] => i = k
BY DEF Shelved, Range, IsInjective

LEMMA TitlePlace ==
  ASSUME Shelved(shelf), sort = "title", NEW i \in 1..Len(shelf)
  PROVE  Place(shelf[i]) = i
BY ShelvedProperties DEF Place

\* The books at or before the place of b when the newest come first.
UpTo(b, s) == {n \in Range(s) : n >= b}

LEMMA UpToProperties ==
  ASSUME NEW s, Shelved(s), NEW b
  PROVE  IsFiniteSet(Range(s)) /\ IsFiniteSet(UpTo(b, s)) /\ Cardinality(UpTo(b, s)) \in Nat
<1>1. IsFiniteSet(NBooks)
  BY FS_Interval, PagesAssumption DEF NBooks
<1>2. IsFiniteSet(Range(s))
  BY <1>1, FS_Subset, ShelvedProperties
<1>3. IsFiniteSet(UpTo(b, s))
  BY <1>2, FS_Subset DEF UpTo
<1> QED BY <1>2, <1>3, FS_CardinalityType

\* There are as many places as books.
LEMMA PlaceBounds ==
  ASSUME Shelved(shelf), NEW b \in Range(shelf)
  PROVE  Place(b) \in Nat /\ Place(b) >= 1 /\ Place(b) <= Len(shelf)
<1>1. CASE sort = "title"
  <2>1. PICK i \in 1..Len(shelf) : shelf[i] = b
    BY ShelvedProperties
  <2> QED BY <1>1, <2>1, TitlePlace, ShelvedProperties
<1>2. CASE sort # "title"
  <2>1. Place(b) = Cardinality(UpTo(b, shelf))
    BY <1>2 DEF Place, UpTo
  <2>2. Cardinality(UpTo(b, shelf)) <= Cardinality(Range(shelf))
    BY UpToProperties, FS_Subset DEF UpTo
  <2>3. Cardinality(Range(shelf)) <= Len(shelf)
    <3>1. shelf \in Surjection(1..Len(shelf), Range(shelf))
      <4>1. shelf \in [1..Len(shelf) -> Range(shelf)]
        BY SeqOfRange DEF Shelved
      <4> QED BY <4>1, ShelvedProperties DEF Surjection
    <3>2. ExistsSurjection(1..Len(shelf), Range(shelf))
      BY <3>1 DEF ExistsSurjection
    <3> QED BY <3>2, FS_SurjCardinalityBound, ShelvedProperties
  <2>4. Cardinality(UpTo(b, shelf)) # 0
    <3>1. b >= b
      BY ShelvedProperties DEF NBooks
    <3> QED BY <3>1, UpToProperties, FS_EmptySet DEF UpTo
  <2>5. Cardinality(Range(shelf)) \in Nat
    BY UpToProperties, FS_CardinalityType
  <2> QED BY <2>1, <2>2, <2>3, <2>4, <2>5, UpToProperties, ShelvedProperties
<1> QED BY <1>1, <1>2

\* A book goes, or comes to place i: the others keep their order.
LEMMA RemoveShelved ==
  ASSUME NEW s, Shelved(s), NEW i \in 1..Len(s)
  PROVE  /\ Shelved(RemoveAt(s, i))
         /\ Len(RemoveAt(s, i)) = Len(s) - 1
         /\ Range(RemoveAt(s, i)) = Range(s) \ {s[i]}
         /\ \A k \in 1..(Len(s) - 1) : RemoveAt(s, i)[k] = s[IF k < i THEN k ELSE k + 1]
<1> DEFINE t == RemoveAt(s, i)
           was(k) == IF k < i THEN k ELSE k + 1
<1>1. /\ Len(s) \in Nat
      /\ \A b : b \in Range(s) <=> \E k \in 1..Len(s) : s[k] = b
      /\ \A j, k \in 1..Len(s) : s[j] = s[k] => j = k
  BY ShelvedProperties
<1>2. /\ t \in Seq(NBooks) /\ Len(t) = Len(s) - 1
      /\ \A k \in 1..(Len(s) - 1) : t[k] = s[was(k)]
  BY RemoveAtProperties DEF Shelved
<1> HIDE DEF t
<1>3. \A k \in 1..(Len(s) - 1) : was(k) \in 1..Len(s) /\ was(k) # i
  BY <1>1
<1>4. \A j, k \in 1..(Len(s) - 1) : was(j) = was(k) => j = k
  OBVIOUS
<1>5. \A k \in 1..Len(s) : k # i => \E j \in 1..(Len(s) - 1) : was(j) = k
  <2> SUFFICES ASSUME NEW k \in 1..Len(s), k # i PROVE \E j \in 1..(Len(s) - 1) : was(j) = k
    OBVIOUS
  <2>1. CASE k < i
    <3>1. k \in 1..(Len(s) - 1) /\ was(k) = k BY <1>1, <2>1
    <3> QED BY <3>1
  <2>2. CASE k > i
    <3>1. k - 1 \in 1..(Len(s) - 1) /\ was(k - 1) = k BY <1>1, <2>2
    <3> QED BY <3>1
  <2> QED BY <2>1, <2>2
<1> HIDE DEF was
<1>6. Shelved(t)
  <2>1. \A j, k \in 1..(Len(s) - 1) : t[j] = t[k] => j = k
    BY <1>1, <1>2, <1>3, <1>4
  <2> QED BY <1>2, <2>1 DEF Shelved, IsInjective
<1>7. \A b : b \in Range(t) <=> \E k \in 1..(Len(s) - 1) : t[k] = b
  BY <1>2, <1>6, ShelvedProperties
<1>8. Range(t) = Range(s) \ {s[i]}
  <2>1. ASSUME NEW b \in Range(t) PROVE b \in Range(s) \ {s[i]}
    BY <1>1, <1>2, <1>3, <1>7
  <2>2. ASSUME NEW b \in Range(s), b # s[i] PROVE b \in Range(t)
    <3>1. PICK k \in 1..Len(s) : s[k] = b BY <1>1
    <3>2. PICK j \in 1..(Len(s) - 1) : was(j) = k BY <1>5, <2>2, <3>1
    <3> QED BY <1>2, <1>7, <3>1, <3>2
  <2> QED BY <2>1, <2>2
<1> QED BY <1>2, <1>6, <1>8 DEF t, was

LEMMA InsertShelved ==
  ASSUME NEW s, Shelved(s), NEW n \in NBooks \ Range(s), NEW i \in 1..(Len(s) + 1)
  PROVE  /\ Shelved(InsertAt(s, i, n))
         /\ Len(InsertAt(s, i, n)) = Len(s) + 1
         /\ Range(InsertAt(s, i, n)) = Range(s) \cup {n}
         /\ \A k \in 1..Len(s) : InsertAt(s, i, n)[IF k < i THEN k ELSE k + 1] = s[k]
<1> DEFINE t == InsertAt(s, i, n)
           now(k) == IF k < i THEN k ELSE k + 1
<1>1. /\ Len(s) \in Nat
      /\ \A b : b \in Range(s) <=> \E k \in 1..Len(s) : s[k] = b
      /\ \A j, k \in 1..Len(s) : s[j] = s[k] => j = k
  BY ShelvedProperties
<1>2. /\ t \in Seq(NBooks) /\ Len(t) = Len(s) + 1
      /\ \A k \in 1..(Len(s) + 1) : t[k] = IF k < i THEN s[k] ELSE IF k = i THEN n ELSE s[k - 1]
  BY InsertAtProperties DEF Shelved
<1> HIDE DEF t
<1>3. t[i] = n
  BY <1>2
<1>4. ASSUME NEW k \in 1..Len(s)
      PROVE  now(k) \in 1..(Len(s) + 1) /\ now(k) # i /\ t[now(k)] = s[k]
  <2>1. CASE k < i BY <1>1, <1>2, <2>1
  <2>2. CASE ~(k < i)
    <3>1. k + 1 \in 1..(Len(s) + 1) /\ ~(k + 1 < i) /\ k + 1 # i /\ (k + 1) - 1 = k BY <1>1, <2>2
    <3> QED BY <1>2, <2>2, <3>1
  <2> QED BY <2>1, <2>2
<1>5. \A j \in 1..(Len(s) + 1) : j # i => \E k \in 1..Len(s) : now(k) = j
  <2> SUFFICES ASSUME NEW j \in 1..(Len(s) + 1), j # i PROVE \E k \in 1..Len(s) : now(k) = j
    OBVIOUS
  <2>1. CASE j < i
    <3>1. j \in 1..Len(s) /\ now(j) = j BY <1>1, <2>1
    <3> QED BY <3>1
  <2>2. CASE j > i
    <3>1. j - 1 \in 1..Len(s) /\ now(j - 1) = j BY <1>1, <2>2
    <3> QED BY <3>1
  <2> QED BY <2>1, <2>2
<1> HIDE DEF now
<1>6. Shelved(t)
  <2>1. ASSUME NEW j \in 1..(Len(s) + 1), NEW k \in 1..(Len(s) + 1), t[j] = t[k]
        PROVE  j = k
    <3>1. ASSUME NEW m \in 1..(Len(s) + 1), m # i PROVE t[m] \in Range(s)
      BY <1>1, <1>4, <1>5, <3>1
    <3>2. CASE j = i \/ k = i
      BY <1>3, <2>1, <3>1, <3>2
    <3>3. CASE j # i /\ k # i
      <4>1. PICK p \in 1..Len(s) : now(p) = j BY <1>5, <3>3
      <4>2. PICK q \in 1..Len(s) : now(q) = k BY <1>5, <3>3
      <4> QED BY <1>1, <1>4, <2>1, <4>1, <4>2
    <3> QED BY <3>2, <3>3
  <2> QED BY <1>2, <2>1 DEF Shelved, IsInjective
<1>7. \A b : b \in Range(t) <=> \E k \in 1..(Len(s) + 1) : t[k] = b
  BY <1>2, <1>6, ShelvedProperties
<1>8. Range(t) = Range(s) \cup {n}
  <2>1. ASSUME NEW b \in Range(t) PROVE b \in Range(s) \cup {n}
    <3>1. PICK j \in 1..(Len(s) + 1) : t[j] = b BY <1>7
    <3>2. CASE j # i
      <4>1. PICK k \in 1..Len(s) : now(k) = j BY <1>5, <3>2
      <4> QED BY <1>1, <1>4, <3>1, <4>1
    <3> QED BY <1>3, <3>1, <3>2
  <2>2. n \in Range(t)
    BY <1>3, <1>7
  <2>3. ASSUME NEW b \in Range(s) PROVE b \in Range(t)
    BY <1>1, <1>4, <1>7
  <2> QED BY <2>1, <2>2, <2>3
<1> QED BY <1>2, <1>4, <1>6, <1>8 DEF t, now

\* In the order of titles a book's place is its index.
LEMMA TitleChoice ==
  ASSUME NEW s, Shelved(s), NEW i \in 1..Len(s)
  PROVE  (CHOOSE k \in 1..Len(s) : s[k] = s[i]) = i
BY ShelvedProperties

\* A book that comes sends no other to an earlier place.
LEMMA PlacesGrow ==
  ASSUME Shelved(shelf), NEW n \in NBooks \ Range(shelf), NEW i \in 1..(Len(shelf) + 1),
         shelf' = InsertAt(shelf, i, n), sort' = sort,
         NEW b \in Range(shelf)
  PROVE  Place(b)' >= Place(b)
<1>1. /\ Shelved(shelf') /\ Len(shelf') = Len(shelf) + 1
      /\ Range(shelf') = Range(shelf) \cup {n}
      /\ \A k \in 1..Len(shelf) : shelf'[IF k < i THEN k ELSE k + 1] = shelf[k]
  BY InsertShelved
<1>2. CASE sort = "title"
  <2>1. PICK k \in 1..Len(shelf) : shelf[k] = b
    BY ShelvedProperties
  <2> DEFINE now == IF k < i THEN k ELSE k + 1
  <2>2. now \in 1..Len(shelf') /\ now >= k /\ shelf'[now] = b
    BY <1>1, <2>1, ShelvedProperties
  <2> HIDE DEF now
  <2>3. Place(b)' = now
    BY <1>1, <1>2, <2>2, TitleChoice DEF Place
  <2> QED BY <1>2, <2>1, <2>2, <2>3, TitlePlace
<1>3. CASE sort # "title"
  <2>1. Place(b) = Cardinality(UpTo(b, shelf)) /\ Place(b)' = Cardinality(UpTo(b, shelf'))
    BY <1>3 DEF Place, UpTo
  <2>2. UpTo(b, shelf) \subseteq UpTo(b, shelf') /\ IsFiniteSet(UpTo(b, shelf'))
    BY <1>1, UpToProperties DEF UpTo
  <2>3. Cardinality(UpTo(b, shelf)) <= Cardinality(UpTo(b, shelf'))
    BY <2>2, FS_Subset
  <2>4. Cardinality(UpTo(b, shelf)) \in Nat /\ Cardinality(UpTo(b, shelf')) \in Nat
    BY <1>1, UpToProperties
  <2> QED BY <2>1, <2>3, <2>4
<1> QED BY <1>2, <1>3

\* A book that goes from after the first m places sends none of the others there.
LEMMA PlacesShrink ==
  ASSUME Shelved(shelf), NEW i \in 1..Len(shelf),
         shelf' = RemoveAt(shelf, i), sort' = sort,
         NEW b \in Range(shelf) \ {shelf[i]}, NEW m \in Nat,
         Place(shelf[i]) > m, Place(b) > m
  PROVE  Place(b)' > m
<1>1. /\ Shelved(shelf') /\ Len(shelf') = Len(shelf) - 1
      /\ Range(shelf') = Range(shelf) \ {shelf[i]}
      /\ \A k \in 1..(Len(shelf) - 1) : shelf'[k] = shelf[IF k < i THEN k ELSE k + 1]
  BY RemoveShelved
<1>2. CASE sort = "title"
  <2>1. PICK k \in 1..Len(shelf') : shelf'[k] = b
    BY <1>1, ShelvedProperties
  <2> DEFINE was == IF k < i THEN k ELSE k + 1
  <2>2. was \in 1..Len(shelf) /\ shelf[was] = b
    BY <1>1, <2>1, ShelvedProperties
  <2>3. Place(b)' = k
    BY <1>1, <1>2, <2>1, TitleChoice DEF Place
  <2>4. Place(b) = was /\ Place(shelf[i]) = i
    BY <1>2, <2>2, TitlePlace
  <2> QED BY <2>3, <2>4
<1>3. CASE sort # "title"
  <2> DEFINE x == shelf[i]
  <2>1. /\ Place(b) = Cardinality(UpTo(b, shelf)) /\ Place(x) = Cardinality(UpTo(x, shelf))
        /\ Place(b)' = Cardinality(UpTo(b, shelf'))
    BY <1>3 DEF Place, UpTo
  <2>2. x \in Nat /\ b \in Nat /\ x # b /\ x \in Range(shelf) /\ Range(shelf) \subseteq Nat
    BY ShelvedProperties DEF NBooks
  <2>3. IsFiniteSet(UpTo(b, shelf)) /\ Cardinality(UpTo(b, shelf)) \in Nat
        /\ Cardinality(UpTo(x, shelf)) \in Nat
    BY UpToProperties
  <2> HIDE DEF x
  <2>4. UpTo(b, shelf') = UpTo(b, shelf) \ {x}
    BY <1>1 DEF UpTo, x
  <2>5. CASE x >= b
    <3>1. Cardinality(UpTo(b, shelf')) = Cardinality(UpTo(b, shelf)) - 1
      <4>1. x \in UpTo(b, shelf) BY <2>2, <2>5 DEF UpTo
      <4> QED BY <2>3, <2>4, <4>1, FS_RemoveElement
    <3>2. UpTo(x, shelf) \subseteq UpTo(b, shelf) \ {b} /\ b \in UpTo(b, shelf)
      BY <2>2, <2>5 DEF UpTo
    <3>3. /\ IsFiniteSet(UpTo(b, shelf) \ {b})
          /\ Cardinality(UpTo(b, shelf) \ {b}) = Cardinality(UpTo(b, shelf)) - 1
      BY <2>3, <3>2, FS_RemoveElement
    <3>4. Cardinality(UpTo(x, shelf)) <= Cardinality(UpTo(b, shelf) \ {b})
      BY <3>2, <3>3, FS_Subset
    <3>5. Cardinality(UpTo(x, shelf)) > m
      BY <2>1 DEF x
    <3> QED BY <2>1, <2>3, <3>1, <3>3, <3>4, <3>5
  <2>6. CASE ~(x >= b)
    <3>1. UpTo(b, shelf') = UpTo(b, shelf)
      BY <2>4, <2>6 DEF UpTo
    <3> QED BY <2>1, <3>1
  <2> QED BY <2>5, <2>6
<1> QED BY <1>2, <1>3

\* A book gets another title: unless it goes from the first m places to the later
\* ones, it sends none of the others there.
LEMMA PlacesMove ==
  ASSUME Shelved(shelf), NEW i \in 1..Len(shelf), NEW k \in 1..Len(shelf),
         shelf' = InsertAt(RemoveAt(shelf, i), k, shelf[i]), sort' = sort
  PROVE  /\ Shelved(shelf') /\ Len(shelf') = Len(shelf) /\ Range(shelf') = Range(shelf)
         /\ sort = "title" =>
              \A b \in Range(shelf) \ {shelf[i]}, m \in Nat :
                 ~(i <= m /\ k > m) /\ Place(b) > m => Place(b)' > m
         /\ sort # "title" => \A b : Place(b)' = Place(b)
<1> DEFINE rest == RemoveAt(shelf, i)
<1>1. /\ Len(shelf) \in Nat /\ Range(shelf) \subseteq NBooks /\ shelf[i] \in Range(shelf)
  BY ShelvedProperties
<1>2. /\ Shelved(rest) /\ Len(rest) = Len(shelf) - 1
      /\ Range(rest) = Range(shelf) \ {shelf[i]}
      /\ \A j \in 1..(Len(shelf) - 1) : rest[j] = shelf[IF j < i THEN j ELSE j + 1]
  BY RemoveShelved
<1>3. shelf' = InsertAt(rest, k, shelf[i])
  OBVIOUS
<1> HIDE DEF rest
<1>4. /\ Shelved(shelf') /\ Len(shelf') = Len(rest) + 1
      /\ Range(shelf') = Range(rest) \cup {shelf[i]}
      /\ \A j \in 1..Len(rest) : shelf'[IF j < k THEN j ELSE j + 1] = rest[j]
  <2>1. shelf[i] \in NBooks \ Range(rest) /\ k \in 1..(Len(rest) + 1)
    BY <1>1, <1>2
  <2> QED BY <1>2, <1>3, <2>1, InsertShelved
<1>5. Shelved(shelf') /\ Len(shelf') = Len(shelf) /\ Range(shelf') = Range(shelf)
  BY <1>1, <1>2, <1>4
<1>6. ASSUME sort = "title", NEW b \in Range(shelf) \ {shelf[i]}, NEW m \in Nat,
             ~(i <= m /\ k > m), Place(b) > m
      PROVE  Place(b)' > m
  <2>1. PICK j \in 1..Len(rest) : rest[j] = b
    BY <1>2, ShelvedProperties
  <2> DEFINE was == IF j < i THEN j ELSE j + 1
             now == IF j < k THEN j ELSE j + 1
  <2>2. was \in 1..Len(shelf) /\ shelf[was] = b
    BY <1>1, <1>2, <2>1
  <2>3. now \in 1..Len(shelf') /\ shelf'[now] = b
    BY <1>1, <1>2, <1>4, <2>1
  <2>4. Place(b) = was
    BY <1>6, <2>2, TitlePlace
  <2>5. Place(b)' = now
    <3> HIDE DEF now
    <3> QED BY <1>4, <1>6, <2>3, TitleChoice DEF Place
  <2> QED BY <1>6, <2>4, <2>5
<1>7. sort # "title" => \A b : Place(b)' = Place(b)
  BY <1>5 DEF Place
<1> QED BY <1>5, <1>6, <1>7

\* Whatever comes or goes on the shelf.
LEMMA WalkChanges ==
  ASSUME WalkInv, ComeIn \/ Retitle \/ LeaveFilter
  PROVE  WalkInv'
<1>1. /\ read \in {"asked", "counted", "shown"} /\ changes' \in 0..MaxChanges
      /\ UNCHANGED <<pageSize, cookie, sort, page, per, read, total, start, seen>>
  <2>1. Change
    BY DEF ComeIn, Retitle, LeaveFilter
  <2> QED BY <2>1, PagesAssumption DEF Change, WalkInv, PagesTypeOK
<1>2. /\ Shelved(shelf) /\ page \in Nat /\ page > 0 /\ per \in Int /\ Passed \in Nat
  <2>1. /\ Shelved(shelf) /\ page \in Nat /\ page > 0 /\ per \in Int
        /\ Limit \in Nat /\ Limit > 0
    BY <1>1 DEF WalkInv, PagesTypeOK, Shelved, Limit
  <2>2. (page - 1) * Limit \in Nat
    BY <2>1
  <2> QED BY <2>1, <2>2 DEF Passed, Offset
<1>3. Passed' = Passed /\ TotalPages' = TotalPages
  BY <1>1 DEF Passed, Offset, Limit, TotalPages
<1>4. Len(shelf) \in Nat /\ Range(shelf) \subseteq NBooks
  BY <1>2, ShelvedProperties
\* What each kind of change does to the shelf and the places on it.
<1>5. /\ Shelved(shelf') /\ moved \subseteq moved' /\ moved' \subseteq NBooks /\ moved' \ moved \subseteq Range(shelf)
      /\ slid' \in BOOLEAN /\ (slid => slid') /\ torn' \in BOOLEAN /\ (torn => torn')
      /\ start \ Range(shelf') \subseteq moved'
      /\ Owed' \subseteq Owed
      /\ ~slid' => \A b \in Owed' : Place(b) > Passed => Place(b)' > Passed
      /\ read = "counted" /\ ~torn' => Len(shelf') <= Len(shelf)
  <2>1. CASE ComeIn
    <3>1. PICK n \in NBooks \ Range(shelf), i \in 1..(Len(shelf) + 1) : shelf' = InsertAt(shelf, i, n)
      BY <2>1 DEF ComeIn
    <3>2. Shelved(shelf') /\ Range(shelf') = Range(shelf) \cup {n}
      BY <1>2, <3>1, InsertShelved
    <3>3. UNCHANGED <<moved, slid>> /\ torn' = (torn \/ read = "counted")
      BY <2>1 DEF ComeIn
    <3>4. Owed' \subseteq Owed
      BY <1>1, <3>2, <3>3 DEF Owed, WalkInv
    <3>5. \A b \in Owed : Place(b) \in Nat /\ Place(b)' >= Place(b)
      BY <1>1, <1>2, <3>1, PlaceBounds, PlacesGrow DEF Owed
    <3>6. ASSUME NEW b \in Owed', Place(b) > Passed PROVE Place(b)' > Passed
      <4>1. Place(b) \in Nat /\ Place(b)' >= Place(b) BY <3>4, <3>5
      <4>2. Place(b)' \in Nat
        <5>1. ASSUME NEW s, Shelved(s), NEW q \in Range(s)
              PROVE  (CHOOSE k \in 1..Len(s) : s[k] = q) \in Nat
          BY <5>1, ShelvedProperties
        <5>2. b \in Range(shelf') BY DEF Owed
        <5> QED BY <3>2, <5>1, <5>2, UpToProperties DEF Place, UpTo
      <4> QED BY <1>2, <3>6, <4>1, <4>2
    <3>7. moved \subseteq NBooks /\ slid \in BOOLEAN /\ torn \in BOOLEAN
          /\ start \ Range(shelf') \subseteq moved
      BY <3>2 DEF WalkInv, PagesTypeOK
    <3> QED BY <3>2, <3>3, <3>4, <3>6, <3>7
  <2>2. CASE Retitle
    <3>1. PICK i \in 1..Len(shelf), k \in 1..Len(shelf) :
            /\ shelf' = InsertAt(RemoveAt(shelf, i), k, shelf[i])
            /\ IF sort = "title"
                 THEN /\ moved' = moved \cup {shelf[i]}
                      /\ slid' = (slid \/ (i <= Passed /\ k > Passed))
                 ELSE UNCHANGED <<moved, slid>>
      BY <2>2 DEF Retitle
    <3>2. /\ Shelved(shelf') /\ Len(shelf') = Len(shelf) /\ Range(shelf') = Range(shelf)
          /\ sort = "title" =>
               \A b \in Range(shelf) \ {shelf[i]}, m \in Nat :
                  ~(i <= m /\ k > m) /\ Place(b) > m => Place(b)' > m
          /\ sort # "title" => \A b : Place(b)' = Place(b)
      BY <1>1, <1>2, <3>1, PlacesMove
    <3>3. torn' = torn /\ shelf[i] \in Range(shelf)
      BY <1>2, <2>2, ShelvedProperties DEF Retitle
    <3>4. moved \subseteq NBooks /\ slid \in BOOLEAN /\ torn \in BOOLEAN
      BY DEF WalkInv, PagesTypeOK
    <3>5. CASE sort = "title"
      <4>1. moved' = moved \cup {shelf[i]} /\ slid' = (slid \/ (i <= Passed /\ k > Passed))
        BY <3>1, <3>5
      <4>2. start \ Range(shelf') \subseteq moved' /\ Owed' \subseteq Owed \ {shelf[i]}
        BY <1>1, <3>2, <4>1 DEF Owed, WalkInv
      <4>3. Owed \subseteq Range(shelf)
        BY DEF Owed
      <4>4. ~slid' => \A b \in Owed' : Place(b) > Passed => Place(b)' > Passed
        BY <1>2, <3>2, <3>5, <4>1, <4>2, <4>3
      <4>5. slid' \in BOOLEAN /\ (slid => slid')
        BY <4>1, <3>4
      <4> QED BY <1>4, <3>2, <3>3, <3>4, <4>1, <4>2, <4>4, <4>5
    <3>6. CASE sort # "title"
      <4>1. UNCHANGED <<moved, slid>>
        BY <3>1, <3>6
      <4>2. start \ Range(shelf') \subseteq moved' /\ Owed' = Owed
        BY <1>1, <3>2, <4>1 DEF Owed, WalkInv
      <4> QED BY <1>4, <3>2, <3>3, <3>4, <3>6, <4>1, <4>2
    <3> QED BY <3>5, <3>6
  <2>3. CASE LeaveFilter
    <3>1. PICK i \in 1..Len(shelf) :
            /\ shelf' = RemoveAt(shelf, i)
            /\ moved' = moved \cup {shelf[i]}
            /\ slid' = (slid \/ Place(shelf[i]) <= Passed)
      BY <2>3 DEF LeaveFilter
    <3>2. /\ Shelved(shelf') /\ Len(shelf') = Len(shelf) - 1
          /\ Range(shelf') = Range(shelf) \ {shelf[i]}
      BY <1>2, <3>1, RemoveShelved
    <3>3. torn' = torn /\ shelf[i] \in Range(shelf)
      BY <1>2, <2>3, ShelvedProperties DEF LeaveFilter
    <3>4. moved \subseteq NBooks /\ slid \in BOOLEAN /\ torn \in BOOLEAN
      BY DEF WalkInv, PagesTypeOK
    <3>5. start \ Range(shelf') \subseteq moved' /\ Owed' \subseteq Owed \ {shelf[i]}
      BY <1>1, <3>1, <3>2 DEF Owed, WalkInv
    <3>6. ~slid' => Place(shelf[i]) > Passed
      <4>1. ~slid' => ~(Place(shelf[i]) <= Passed) BY <3>1
      <4>2. Place(shelf[i]) \in Nat BY <1>2, <3>3, PlaceBounds
      <4> QED BY <1>2, <4>1, <4>2
    <3>7. \A b \in Range(shelf) \ {shelf[i]} :
            Place(shelf[i]) > Passed /\ Place(b) > Passed => Place(b)' > Passed
      BY <1>1, <1>2, <3>1, PlacesShrink
    <3>8. Owed \subseteq Range(shelf)
      BY DEF Owed
    <3>9. slid' \in BOOLEAN /\ (slid => slid')
      BY <3>1, <3>4
    <3> QED BY <1>4, <3>1, <3>2, <3>3, <3>4, <3>5, <3>6, <3>7, <3>8, <3>9
  <2> QED BY <2>1, <2>2, <2>3
<1>6. PagesTypeOK'
  BY <1>1, <1>5 DEF WalkInv, PagesTypeOK, Shelved
<1>7. ~slid' => \A b \in Owed' : Place(b)' > Passed'
  BY <1>1, <1>3, <1>5 DEF WalkInv
<1>8. read' = "counted" /\ ~torn' => Len(shelf') <= total'
  <2> SUFFICES ASSUME read = "counted", ~torn' PROVE Len(shelf') <= total
    BY <1>1
  <2>1. Len(shelf') \in Nat /\ total \in Nat
    BY <1>5, ShelvedProperties DEF WalkInv, PagesTypeOK
  <2> QED BY <1>4, <1>5, <2>1 DEF WalkInv
<1>9. read' = "shown" /\ per' >= 1 /\ page' >= TotalPages' /\ ~slid' /\ ~torn' => Owed' = {}
  BY <1>1, <1>3, <1>5 DEF WalkInv
<1> QED BY <1>1, <1>5, <1>6, <1>7, <1>8, <1>9 DEF WalkInv

-----------------------------------------------------------------------------
(* The walk *)

\* The pages there are hold all the books that were counted.
LEMMA PagesHold ==
  ASSUME PagesTypeOK, per >= 1, NEW n \in Nat, n > 0, n >= TotalPages
  PROVE  total <= n * per
<1> DEFINE pages == (total + per - 1) \div per
<1>1. total \in Nat /\ per \in Nat \ {0}
  BY DEF PagesTypeOK
<1>2. pages \in Nat /\ total <= pages * per
  BY <1>1
<1>3. n >= pages
  <2>1. FloorDiv(total + per - 1, per) = pages
    BY <1>1 DEF FloorDiv
  <2> HIDE DEF pages
  <2> QED BY <1>2, <2>1 DEF TotalPages
<1> HIDE DEF pages
<1>4. pages * per <= n * per /\ pages * per \in Nat /\ n * per \in Nat
  BY <1>1, <1>2, <1>3
<1> QED BY <1>1, <1>2, <1>4

LEMMA WalkStarts == ASSUME Init PROVE WalkInv
<1> USE DEF Init, PagesInit
<1>1. Shelved(shelf)
  BY PagesAssumption DEF Shelved, NBooks
<1>2. slid \in BOOLEAN /\ torn \in BOOLEAN
  OBVIOUS
<1>3. changes \in 0..MaxChanges /\ total \in 0..MaxBooks /\ page \in Nat /\ per \in Int
  BY PagesAssumption
<1>4. PagesTypeOK
  BY <1>1, <1>2, <1>3 DEF PagesTypeOK, Shelved, Stages
<1> QED BY <1>4 DEF WalkInv

LEMMA AskKeeps ==
  ASSUME WalkInv, Visit \/ Search \/ FollowNext
  PROVE  WalkInv'
<1>1. CASE Visit \/ Search
  <2>1. /\ page' = 1 /\ read' = "asked" /\ torn' = FALSE /\ start' = Range(shelf)
        /\ UNCHANGED <<shelf, changes, pageSize, sort, total, seen, moved, slid>>
        /\ per' \in {pageSize} \cup Offered /\ cookie' \in {0, pageSize} \cup Offered
    BY <1>1 DEF Visit, Search, Ask, WalkInv
  <2>2. per' \in Int
    BY <2>1, PagesAssumption DEF WalkInv, PagesTypeOK
  <2>3. Shelved(shelf)
    BY DEF WalkInv, PagesTypeOK, Shelved
  <2>4. PagesTypeOK'
    <3>1. Range(shelf) \subseteq NBooks BY <2>3, ShelvedProperties
    <3>2. cookie' \in {0} \cup Offered \cup PageSizes /\ page' \in Nat /\ page' > 0
          /\ per' \in Int
      BY <2>1, <2>2 DEF WalkInv, PagesTypeOK
    <3>3. slid' \in BOOLEAN /\ torn' \in BOOLEAN
      BY <2>1 DEF WalkInv, PagesTypeOK
    <3> QED BY <2>1, <2>2, <3>1, <3>2, <3>3 DEF WalkInv, PagesTypeOK, Stages
  <2>5. Passed' = 0
    <3>1. (1 - 1) * Limit' = 0
      <4>1. Limit' \in Int BY <2>2 DEF Limit
      <4>2. \A z \in Int : (1 - 1) * z = 0 OBVIOUS
      <4> QED BY <4>1, <4>2
    <3>2. Passed' = (1 - 1) * Limit' BY <2>1 DEF Passed, Offset
    <3> QED BY <3>1, <3>2
  <2>6. \A b \in Range(shelf) : Place(b)' > 0
    <3>1. ASSUME NEW b \in Range(shelf) PROVE Place(b)' = Place(b)
      BY <2>1 DEF Place
    <3> QED BY <2>3, <3>1, PlaceBounds
  <2>7. Owed' \subseteq Range(shelf)
    BY <2>1 DEF Owed
  <2> QED BY <2>1, <2>4, <2>5, <2>6, <2>7 DEF WalkInv
<1>2. CASE FollowNext
  <2>1. /\ page' = page + 1 /\ per' = per /\ read' = "asked" /\ torn' = FALSE
        /\ read = "shown" /\ cookie' = per /\ Accepted(per)
        /\ UNCHANGED <<shelf, changes, pageSize, sort, total, start, seen, moved, slid>>
    BY <1>2 DEF FollowNext, Ask, LinkedPer
  <2>2. /\ per \in Int /\ per >= 1 /\ page \in Nat /\ page > 0
        /\ Limit \in Nat /\ Limit' = Limit
    BY <2>1 DEF WalkInv, PagesTypeOK, Accepted, Limit
  <2>3. per \in {pageSize} \cup Offered
    BY <2>1 DEF WalkInv
  <2>4. PagesTypeOK'
    <3>1. cookie' \in {0} \cup Offered \cup PageSizes /\ page' \in Nat /\ page' > 0
      BY <2>1, <2>2, <2>3 DEF WalkInv, PagesTypeOK
    <3>2. slid' \in BOOLEAN /\ torn' \in BOOLEAN
      BY <2>1 DEF WalkInv, PagesTypeOK
    <3> QED BY <2>1, <2>2, <3>1, <3>2 DEF WalkInv, PagesTypeOK, Stages
  <2>5. Passed' = Passed
    <3>1. Passed' = ((page + 1) - 1) * Limit /\ Passed = (page - 1) * Limit + Limit
      BY <2>1, <2>2 DEF Passed, Offset
    <3>2. ((page + 1) - 1) * Limit = (page - 1) * Limit + Limit
      BY <2>2
    <3> QED BY <3>1, <3>2
  <2>6. Owed' = Owed /\ \A b : Place(b)' = Place(b)
    BY <2>1 DEF Owed, Place
  <2> QED BY <2>1, <2>2, <2>3, <2>4, <2>5, <2>6 DEF WalkInv
<1> QED BY <1>1, <1>2

LEMMA CountKeeps == ASSUME WalkInv, Count PROVE WalkInv'
<1> USE DEF Count
<1>1. Shelved(shelf)
  BY DEF WalkInv, PagesTypeOK, Shelved
<1>2. Len(shelf) \in 0..MaxBooks
  <2>1. shelf \in Injection(1..Len(shelf), NBooks)
    BY <1>1, ShelvedProperties DEF Injection, Shelved
  <2>2. IsFiniteSet(NBooks) /\ Cardinality(NBooks) = MaxBooks
    BY FS_Interval, PagesAssumption DEF NBooks
  <2>3. Len(shelf) \in Nat /\ Cardinality(1..Len(shelf)) = Len(shelf)
    <3>1. Len(shelf) \in Nat BY <1>1, ShelvedProperties
    <3>2. \A n \in Nat : Cardinality(1..n) = n
      <4> TAKE n \in Nat
      <4>1. Cardinality(1..n) = IF 1 > n THEN 0 ELSE n - 1 + 1 BY FS_Interval
      <4> QED BY <4>1
    <3> QED BY <3>1, <3>2
  <2>4. Cardinality(1..Len(shelf)) <= Cardinality(NBooks)
    BY <2>1, <2>2, FS_Injection
  <2> QED BY <2>2, <2>3, <2>4, PagesAssumption
<1>3. PagesTypeOK'
  BY <1>2 DEF WalkInv, PagesTypeOK, Stages
<1>4. Owed' = Owed /\ Passed' = Passed /\ \A b : Place(b)' = Place(b)
  BY DEF Owed, Passed, Offset, Limit, Place
<1> QED BY <1>2, <1>3, <1>4 DEF WalkInv

LEMMA SelectKeeps == ASSUME WalkInv, Select PROVE WalkInv'
<1> USE DEF Select
<1>1. /\ Shelved(shelf) /\ page \in Nat /\ page > 0 /\ per \in Int /\ total \in Nat
      /\ Limit \in Nat /\ Limit > 0 /\ (per >= 1 => Limit = per)
  BY DEF WalkInv, PagesTypeOK, Shelved, Limit
<1>2. PagesTypeOK'
  <2>1. Range(shelf) \subseteq NBooks
    BY <1>1, ShelvedProperties
  <2> QED BY <2>1 DEF WalkInv, PagesTypeOK, Stages
<1>3. Offset \in Nat /\ Passed = Offset /\ Passed' = Offset + Limit /\ Offset + Limit = page * Limit
  <2>1. (page - 1) * Limit \in Nat /\ (page - 1) * Limit + Limit = page * Limit
    BY <1>1
  <2> QED BY <2>1 DEF Passed, Offset, Limit
<1>4. Owed' = {b \in Owed : ~(Place(b) > Offset /\ Place(b) <= Offset + Limit)}
  BY DEF Owed
<1>5. \A b : Place(b)' = Place(b)
  BY DEF Place
<1>6. \A b \in Owed : Place(b) \in Nat /\ Place(b) <= Len(shelf)
  BY <1>1, PlaceBounds DEF Owed
<1>7. ~slid => \A b \in Owed' : Place(b)' > Passed'
  BY <1>1, <1>3, <1>4, <1>5, <1>6 DEF WalkInv
<1>8. per' >= 1 /\ page' >= TotalPages' /\ ~slid' /\ ~torn' => Owed' = {}
  <2> SUFFICES ASSUME per >= 1, page >= TotalPages, ~slid, ~torn, NEW b \in Owed' PROVE FALSE
    BY DEF TotalPages
  <2>1. total <= page * per
    BY <1>1, PagesHold DEF WalkInv
  <2>2. Len(shelf) <= total /\ Len(shelf) \in Nat
    BY <1>1, ShelvedProperties DEF WalkInv
  <2>3. Place(b) \in Nat /\ Place(b) <= Len(shelf)
    BY <1>4, <1>6
  <2>4. Place(b) > Offset + Limit
    BY <1>3, <1>5, <1>7
  <2> QED BY <1>1, <1>3, <2>1, <2>2, <2>3, <2>4
<1> QED BY <1>2, <1>7, <1>8 DEF WalkInv

LEMMA EndKeeps ==
  ASSUME WalkInv, DivideByZero \/ NextRefused \/ LastPage \/ OtherTab
  PROVE  WalkInv'
<1>1. UNCHANGED <<shelf, changes, pageSize, sort, page, per, total, history>>
  BY DEF DivideByZero, NextRefused, LastPage, OtherTab
<1>2. cookie' \in {0, pageSize} \cup Offered /\ read' \in Stages
  BY DEF DivideByZero, NextRefused, LastPage, OtherTab, WalkInv, PagesTypeOK, Stages
<1>3. PagesTypeOK'
  BY <1>1, <1>2 DEF WalkInv, PagesTypeOK, DivideByZero, NextRefused, LastPage, OtherTab
<1>4. Owed' = Owed /\ TotalPages' = TotalPages /\ \A b : Place(b)' = Place(b)
  BY <1>1 DEF Owed, TotalPages, Place
<1>5. CASE NextRefused
  BY <1>1, <1>2, <1>3, <1>4, <1>5 DEF NextRefused, WalkInv, LinkedPer, Accepted
<1>6. CASE LastPage
  BY <1>1, <1>2, <1>3, <1>4, <1>6 DEF LastPage, WalkInv
<1>7. CASE OtherTab
  <2>1. read' = read /\ Passed' = Passed
    BY <1>7 DEF OtherTab, Passed, Offset, Limit
  <2> QED BY <1>1, <1>2, <1>3, <1>4, <2>1 DEF WalkInv, Accepted
<1>8. CASE DivideByZero
  BY <1>1, <1>2, <1>3, <1>4, <1>8 DEF DivideByZero, WalkInv
<1> QED BY <1>5, <1>6, <1>7, <1>8

LEMMA WalkFrame == ASSUME WalkInv, UNCHANGED pagesVars PROVE WalkInv'
<1>1. Owed' = Owed /\ TotalPages' = TotalPages /\ Passed' = Passed /\ \A b : Place(b)' = Place(b)
  BY DEF Owed, TotalPages, Passed, Offset, Limit, Place
<1> QED BY <1>1 DEF WalkInv, PagesTypeOK, Accepted

LEMMA WalkKeeps == ASSUME WalkInv, [Next]_vars PROVE WalkInv'
<1>1. CASE PagesNext
  BY <1>1, AskKeeps, CountKeeps, SelectKeeps, EndKeeps, WalkChanges DEF PagesNext
<1>2. CASE UNCHANGED pagesVars BY <1>2, WalkFrame
<1> QED BY <1>1, <1>2 DEF Next

\* Whoever follows the Next links to the end has seen every book that was there and
\* kept its place, for any number of books, changes and page sizes, if there is at
\* least one book to a page; a link of the application's own is refused, and a page
\* fails, only when it is configured with more books to a page than it accepts or
\* with fewer than one, and then a walk ends on its first page (db.py:212-225,
\* library.py:20-84, config.py:34).
THEOREM NothingMissed == Spec => []WalkMissesNothing
<1>1. Init => WalkInv BY WalkStarts
<1>2. WalkInv /\ [Next]_vars => WalkInv' BY WalkKeeps
<1>3. WalkInv => WalkMissesNothing
  <2> SUFFICES ASSUME WalkInv PROVE WalkMissesNothing
    OBVIOUS
  <2>1. read = "end" /\ per >= 1 /\ ~slid /\ ~torn => Missed \subseteq moved
    BY DEF WalkInv, Owed, Missed
  <2>2. \A k \in Offered : Accepted(k) /\ k >= 1 /\ k # 0 /\ ~(k < 1)
    BY PagesAssumption DEF Accepted
  <2>3. read = "refused" => per = pageSize /\ ~Accepted(pageSize)
    BY <2>2 DEF WalkInv
  <2>4. read = "failed" => per = pageSize /\ pageSize = 0
    BY <2>2 DEF WalkInv
  <2>5. read = "end" /\ per < 1 => per = pageSize /\ page = 1
    BY <2>2 DEF WalkInv
  <2> QED BY <2>1, <2>3, <2>4, <2>5 DEF WalkInv, WalkMissesNothing
<1> QED BY <1>1, <1>2, <1>3, PTL DEF Spec
=============================================================================
