---------------------------- MODULE UploadProofs ----------------------------
(***************************************************************************)
(* Theorems about Upload for every set of names and contents, any number   *)
(* of files of any size, and all limits: what the job finds in the spool,  *)
(* what remains of it, when a request is refused, and that the job loses   *)
(* no file.                                                                *)
(***************************************************************************)
EXTENDS Upload, SequenceTheorems, WellFoundedInduction, TLAPS

USE DEF sizes, vars

Open == {"between", "reading", "queued", "adding"}

\* Where the route is in the request, and that it saves files of acceptable names.
RouteInv ==
  /\ stage = "idle" => request = <<>> /\ next = 1
  /\ next <= Len(request) + 1
  /\ stage \in {"reading", "refused"} => next <= Len(request) /\ Current.name \in Name
  /\ stage \in {"queued", "adding", "finished"} => next = Len(request) + 1
  /\ \A i \in 1..Len(saved) : saved[i] < next /\ request[saved[i]].name \in Name
  /\ stage \in Open => dir
  /\ stage \in {"refused", "nothing", "finished"} => ~dir
  /\ verdicts # <<>> => stage \in {"adding", "finished"}

SavedAs(i) == request[saved[i]].name

\* While the spool is in use it has each saved file, complete but for one that is
\* being written over, and nothing else but the file that is being written.
SpoolContents ==
  /\ stage \notin Open => \A n \in Name : spool[n] # Absent => stage = "broken"
  /\ stage \in Open =>
       /\ \A n \in Name : spool[n] = Part => stage = "reading" /\ n = Current.name
       /\ \A i \in 1..Len(saved) : spool[SavedAs(i)] # Absent
       /\ \A n \in Name : spool[n] # Absent =>
            (stage = "reading" /\ n = Current.name) \/ \E i \in 1..Len(saved) : SavedAs(i) = n
       /\ \A i \in 1..Len(saved) :
            ~Overwritten(i) => \/ spool[SavedAs(i)] = request[saved[i]].content
                               \/ stage = "reading" /\ SavedAs(i) = Current.name

\* What has been counted is what has been read.
CountInv ==
  /\ \A i \in 1..Len(saved) : request[saved[i]].size <= FileLimit
  /\ stage \in {"idle", "between", "queued", "adding", "finished"} =>
       totalBytes = BytesOf[next - 1] /\ totalBytes <= TotalLimit
  /\ stage = "reading" =>
       /\ fileBytes <= FileLimit /\ fileBytes <= Current.size
       /\ BytesOf[next - 1] \in Nat
       /\ totalBytes = BytesOf[next - 1] + fileBytes /\ totalBytes <= TotalLimit
  /\ stage = "refused" => Current.size > FileLimit \/ BytesOf[next] > TotalLimit

\* The verdicts so far are true of the library.
VerdictInv ==
  \A i \in 1..Len(verdicts) :
     request[saved[i]].content \notin library => verdicts[i] = "failed" \/ Overwritten(i)

FinishedInv == stage = "finished" => Len(verdicts) = Len(saved)

UploadInv == TypeOK /\ RouteInv /\ SpoolContents /\ CountInv /\ VerdictInv /\ FinishedInv

-----------------------------------------------------------------------------
(* The bytes of the first files. *)

LEMMA LeastNumber ==
  ASSUME NEW S \in SUBSET Nat, S # {}
  PROVE  \E i \in S : \A k \in S : i <= k
<1> DEFINE R == {pair \in Nat \X Nat : pair[1] < pair[2]}
<1>1. IsWellFoundedOn(R, Nat)
  BY NatLessThanWellFounded DEF OpToRel
<1>2. \A x, y \in S : x < y => <<x, y>> \in R
  OBVIOUS
<1>. HIDE DEF R
<1>3. PICK i \in S : \A k \in S : <<k, i>> \notin R
  BY <1>1, WFMin
<1>4. \A k \in S : ~(k < i)
  BY <1>2, <1>3
<1>5. \A k \in S : i \in Nat /\ k \in Nat
  OBVIOUS
<1>. QED BY <1>4, <1>5

\* Sums of the first values of w exist, whatever w is.
LEMMA SumsExist ==
  ASSUME NEW N \in Nat, NEW w
  PROVE  \E g : g = [n \in 0..N |-> IF n = 0 THEN 0 ELSE g[n - 1] + w[n]]
<1> DEFINE HasSums(m) == \E g : g = [n \in 0..m |-> IF n = 0 THEN 0 ELSE g[n - 1] + w[n]]
           Lacking == {m \in Nat : ~HasSums(m)}
<1>1. CASE Lacking = {}
  BY <1>1
<1>2. CASE Lacking # {}
  <2>1. Lacking \in SUBSET Nat
    OBVIOUS
  <2>2. PICK m \in Lacking : \A k \in Lacking : m <= k
    <3>. HIDE DEF Lacking
    <3>. QED BY <1>2, <2>1, LeastNumber
  <2>3. m \in Nat /\ ~HasSums(m)
    OBVIOUS
  <2>4. HasSums(0)
    <3> DEFINE g == [n \in 0..0 |-> 0]
    <3>1. g = [n \in 0..0 |-> IF n = 0 THEN 0 ELSE g[n - 1] + w[n]]
      OBVIOUS
    <3>. HIDE DEF g
    <3>. QED BY <3>1
  <2>5. m # 0 /\ m - 1 \in Nat
    <3>1. m # 0
      <4>. HIDE DEF HasSums
      <4>. QED BY <2>3, <2>4
    <3>. QED BY <2>3, <3>1
  <2>6. HasSums(m - 1)
    <3>1. m - 1 \notin Lacking
      <4>. HIDE DEF Lacking
      <4>. QED BY <2>2, <2>3, <2>5
    <3>. HIDE DEF HasSums
    <3>. QED BY <2>5, <3>1
  <2>7. PICK g : g = [n \in 0..(m - 1) |-> IF n = 0 THEN 0 ELSE g[n - 1] + w[n]]
    BY <2>6
  <2> DEFINE longer == [n \in 0..m |-> IF n = m THEN g[m - 1] + w[m] ELSE g[n]]
  <2>8. ASSUME NEW n \in 0..m
        PROVE  longer[n] = IF n = 0 THEN 0 ELSE longer[n - 1] + w[n]
    <3>1. CASE n = m
      BY <2>3, <2>5, <3>1
    <3>2. CASE n # m
      <4>1. n \in 0..(m - 1) /\ longer[n] = g[n]
        BY <2>3, <3>2
      <4>2. g[n] = IF n = 0 THEN 0 ELSE g[n - 1] + w[n]
        BY <2>7, <4>1
      <4>3. n # 0 => n - 1 \in 0..m /\ n - 1 # m /\ longer[n - 1] = g[n - 1]
        BY <2>3, <4>1
      <4>. QED BY <4>1, <4>2, <4>3
    <3>. QED BY <3>1, <3>2
  <2>9. longer = [n \in 0..m |-> longer[n]]
    OBVIOUS
  <2>10. longer = [n \in 0..m |-> IF n = 0 THEN 0 ELSE longer[n - 1] + w[n]]
    <3>. HIDE DEF longer
    <3>. QED BY <2>8, <2>9
  <2>11. HasSums(m)
    <3>. HIDE DEF longer
    <3>. QED BY <2>10
  <2>. QED BY <2>3, <2>11
<1>. QED BY <1>1, <1>2

\* BytesOf is what its definition says.
LEMMA BytesOfEquation ==
  /\ BytesOf[0] = 0
  /\ \A n \in 1..MaxFiles :
       BytesOf[n] = BytesOf[n - 1] + (IF request[n].name = Unsafe THEN 0 ELSE request[n].size)
<1> DEFINE w == [n \in 0..MaxFiles |-> IF request[n].name = Unsafe THEN 0 ELSE request[n].size]
<1>1. PICK g : g = [n \in 0..MaxFiles |-> IF n = 0 THEN 0 ELSE g[n - 1] + w[n]]
  <2>. HIDE DEF w
  <2>. QED BY BoundsAssumption, SumsExist
<1>2. g = [n \in 0..MaxFiles |-> IF n = 0 THEN 0 ELSE
             g[n - 1] + (IF request[n].name = Unsafe THEN 0 ELSE request[n].size)]
  BY <1>1
<1>3. BytesOf = [n \in 0..MaxFiles |-> IF n = 0 THEN 0 ELSE
             BytesOf[n - 1] + (IF request[n].name = Unsafe THEN 0 ELSE request[n].size)]
  BY <1>2 DEF BytesOf
<1>. HIDE DEF BytesOf
<1>. QED BY <1>3, BoundsAssumption

LEMMA SameBytes == UNCHANGED request => BytesOf' = BytesOf
BY DEF BytesOf

-----------------------------------------------------------------------------
(* The steps. *)

LEMMA FunctionIsSeq ==
  ASSUME NEW n \in Nat, NEW S, NEW f \in [1..n -> S]
  PROVE  f \in Seq(S) /\ Len(f) = n
<1>1. f \in UNION {[1..k -> S] : k \in Nat}
  OBVIOUS
<1>2. f \in Seq(S)
  BY <1>1, SeqDef
<1> DEFINE k == Len(f)
<1>3. k \in Nat /\ 1..k = 1..n
  BY <1>2, LenProperties
<1>4. k = n
  <2>. HIDE DEF k
  <2>1. /\ k \in 1..k <=> k \in 1..n
        /\ n \in 1..k <=> n \in 1..n
    BY <1>3
  <2>. QED BY <1>3, <2>1
<1>. QED BY <1>2, <1>4

\* One more file is saved, or one more verdict given.
LEMMA TypeStep == TypeOK /\ RouteInv /\ SpoolContents /\ CountInv /\ [Next]_vars => TypeOK'
<1> SUFFICES ASSUME TypeOK, RouteInv, SpoolContents, CountInv, [Next]_vars PROVE TypeOK'
  OBVIOUS
<1> USE BoundsAssumption, LimitsAssumption
<1>1. CASE UNCHANGED vars
  BY <1>1 DEF TypeOK
<1>2. ASSUME NEW n \in 1..MaxFiles, NEW f \in [1..n -> Files], Post(f) PROVE TypeOK'
  <2>1. request' \in Seq(Files) /\ Len(request') <= MaxFiles
    BY <1>2, FunctionIsSeq DEF Post
  <2>. QED BY <1>2, <2>1 DEF Post, TypeOK
<1>3. CASE SkipFile
  <2>1. next' \in 1..(MaxFiles + 1) /\ Len(saved) < next'
    BY <1>3 DEF SkipFile, AtFile, TypeOK
  <2>. QED BY <1>3, <2>1 DEF SkipFile, TypeOK
<1>4. CASE OpenFile
  BY <1>4 DEF OpenFile, AtFile, TypeOK, RouteInv, Open
<1>5. CASE ReadChunk
  BY <1>5 DEF ReadChunk, OverLimit, TypeOK
<1>6. CASE Refuse
  <2>1. stage = "reading" /\ stage' = "refused" /\ spool' = TornDown /\ dir' = (TornDown # Empty)
        /\ fileBytes' = fileBytes + 1 /\ totalBytes' = totalBytes + 1
        /\ UNCHANGED <<request, next, saved, verdicts, library, failed>>
    BY <1>6 DEF Refuse, AtFile
  <2>2. fileBytes' \in 0..(FileLimit + 1) /\ totalBytes' \in 0..(TotalLimit + 1)
    BY <2>1 DEF TypeOK, CountInv
  <2>3. spool' \in [Name -> Content \cup {Absent, Part}]
    BY <2>1 DEF TypeOK, TornDown
  <2>4. \A n \in Name : spool'[n] # Absent => dir'
    BY <2>1 DEF TornDown, Empty
  <2>. QED BY <2>1, <2>2, <2>3, <2>4 DEF TypeOK
<1>7. CASE CloseFile
  <2>1. next \in 1..MaxFiles /\ Current \in Files /\ Current.name \in Name
    <3>1. next \in 1..Len(request) /\ Current.name \in Name /\ Len(request) \in Nat
      BY <1>7, LenProperties DEF CloseFile, AtFile, TypeOK, RouteInv
    <3>2. Current \in Files
      BY <3>1, ElementOfSeq DEF TypeOK, Current
    <3>. QED BY <3>1, <3>2 DEF TypeOK
  <2>2. saved' \in Seq(1..MaxFiles) /\ Len(saved') = Len(saved) + 1
    BY <1>7, <2>1, AppendProperties DEF CloseFile, TypeOK
  <2>3. Current.content \in Content
    BY <2>1 DEF Files
  <2>4. spool' \in [Name -> Content \cup {Absent, Part}] /\ dir'
    BY <1>7, <2>3 DEF CloseFile, AtFile, TypeOK, RouteInv, Open
  <2>5. Len(saved) \in Nat /\ Len(verdicts) \in Nat
    BY LenProperties DEF TypeOK
  <2>6. next' \in 1..(MaxFiles + 1) /\ Len(saved') < next' /\ Len(verdicts) <= Len(saved')
    BY <1>7, <2>1, <2>2, <2>5 DEF CloseFile, TypeOK
  <2>. QED BY <1>7, <2>2, <2>4, <2>6 DEF CloseFile, TypeOK
<1>8. CASE SpoolingFails \/ Enqueue \/ StartJob \/ JobLost
  BY <1>8 DEF SpoolingFails, Enqueue, StartJob, JobLost, TypeOK
<1>9. CASE NothingSaved
  <2>1. \A n \in Name : spool[n] = Absent
    BY <1>9 DEF NothingSaved, AllRead, SpoolContents, Open
  <2>. QED BY <1>9, <2>1 DEF NothingSaved, TypeOK
<1>10. CASE AddFile
  <2>1. /\ Len(verdicts) \in Nat /\ Len(saved) \in Nat
        /\ \E v \in {"done", "skipped", "failed"} : verdicts' = Append(verdicts, v)
        /\ library' \subseteq Content /\ Len(verdicts) < Len(saved)
    BY <1>10, LenProperties DEF AddFile, TypeOK
  <2>2. verdicts' \in Seq({"done", "skipped", "failed"}) /\ Len(verdicts') = Len(verdicts) + 1
    BY <2>1, AppendProperties DEF TypeOK
  <2>3. Len(verdicts') <= Len(saved)
    BY <2>1, <2>2
  <2>. QED BY <1>10, <2>1, <2>2, <2>3 DEF AddFile, TypeOK
<1>11. CASE EndJob
  BY <1>11 DEF EndJob, Empty, TypeOK
<1>. QED
  BY <1>1, <1>2, <1>3, <1>4, <1>5, <1>6, <1>7, <1>8, <1>9, <1>10, <1>11 DEF Next

\* What the refusal tears down is all there is.
LEMMA RefusedIsEmpty == TypeOK /\ RouteInv /\ SpoolContents /\ Refuse => TornDown = Empty
<1> SUFFICES ASSUME TypeOK, RouteInv, SpoolContents, Refuse PROVE TornDown = Empty
  OBVIOUS
<1>1. \A n \in Name : spool[n] # Absent => n = Current.name \/ \E i \in 1..Len(saved) : request[saved[i]].name = n
  BY DEF Refuse, AtFile, SpoolContents, Open, SavedAs
<1>. QED BY <1>1 DEF TornDown, Empty

LEMMA RouteStep == TypeOK /\ RouteInv /\ SpoolContents /\ [Next]_vars => RouteInv'
<1> SUFFICES ASSUME TypeOK, RouteInv, SpoolContents, [Next]_vars PROVE RouteInv'
  OBVIOUS
<1>1. /\ Len(request) \in Nat /\ Len(saved) \in Nat /\ next \in Nat /\ next > 0
      /\ \A i \in 1..Len(saved) : saved[i] \in Nat
  BY LenProperties, ElementOfSeq, BoundsAssumption DEF TypeOK
<1>2. CASE UNCHANGED vars
  BY <1>2 DEF RouteInv, Open, Current
<1>3. ASSUME NEW n \in 1..MaxFiles, NEW f \in [1..n -> Files], Post(f) PROVE RouteInv'
  <2>1. Len(request') = n /\ request' = f
    BY <1>3, FunctionIsSeq, BoundsAssumption DEF Post
  <2>2. saved = <<>> /\ next = 1
    BY <1>1, <1>3, LenProperties DEF Post, RouteInv, TypeOK
  <2>. QED BY <1>3, <2>1, <2>2 DEF Post, RouteInv, Open
<1>4. CASE SkipFile \/ OpenFile \/ ReadChunk
  BY <1>1, <1>4 DEF SkipFile, OpenFile, ReadChunk, AtFile, RouteInv, Open, Current
<1>5. CASE Refuse
  <2>1. dir' = FALSE
    BY <1>5, RefusedIsEmpty DEF Refuse
  <2>. QED BY <1>1, <1>5, <2>1 DEF Refuse, AtFile, RouteInv, Open, Current
<1>6. CASE CloseFile
  <2>1. next \in 1..MaxFiles
    BY <1>1, <1>6, BoundsAssumption DEF CloseFile, AtFile, TypeOK, RouteInv
  <2>2. /\ Len(saved') = Len(saved) + 1 /\ saved'[Len(saved) + 1] = next
        /\ \A i \in 1..Len(saved) : saved'[i] = saved[i]
    BY <1>6, <2>1, AppendProperties DEF CloseFile, TypeOK
  <2>3. \A i \in 1..Len(saved') : saved'[i] < next + 1 /\ request[saved'[i]].name \in Name
    BY <1>1, <1>6, <2>1, <2>2 DEF CloseFile, AtFile, RouteInv, Current
  <2>. QED BY <1>1, <1>6, <2>3 DEF CloseFile, AtFile, RouteInv, Open
<1>7. CASE SpoolingFails \/ Enqueue \/ StartJob \/ JobLost
  BY <1>1, <1>7 DEF SpoolingFails, Enqueue, StartJob, JobLost, AllRead, AtFile, RouteInv, Open
<1>8. CASE NothingSaved
  BY <1>1, <1>8 DEF NothingSaved, AllRead, RouteInv, Open
<1>9. CASE AddFile
  BY <1>1, <1>9 DEF AddFile, RouteInv, Open
<1>10. CASE EndJob
  BY <1>1, <1>10 DEF EndJob, RouteInv, Open
<1>. QED BY <1>2, <1>3, <1>4, <1>5, <1>6, <1>7, <1>8, <1>9, <1>10 DEF Next

\* The names and contents of saved files stay, and so does who is overwritten,
\* while nothing is saved.
LEMMA SavedStay ==
  UNCHANGED <<request, saved>> =>
    \A i : Overwritten(i)' = Overwritten(i) /\ SavedAs(i)' = SavedAs(i)
BY DEF Overwritten, SavedAs

LEMMA SpoolStep == TypeOK /\ RouteInv /\ SpoolContents /\ [Next]_vars => SpoolContents'
<1> SUFFICES ASSUME TypeOK, RouteInv, SpoolContents, [Next]_vars PROVE SpoolContents'
  OBVIOUS
<1>1. /\ Len(request) \in Nat /\ Len(saved) \in Nat /\ next \in Nat
      /\ \A i \in 1..Len(saved) : saved[i] \in 1..Len(request) /\ SavedAs(i) \in Name
  BY LenProperties, ElementOfSeq, BoundsAssumption DEF TypeOK, RouteInv, SavedAs
<1>2. CASE UNCHANGED <<request, saved, spool, next, stage>>
  BY <1>2 DEF SpoolContents, Open, Overwritten, SavedAs, Current
<1>3. ASSUME NEW n \in 1..MaxFiles, NEW f \in [1..n -> Files], Post(f) PROVE SpoolContents'
  <2>1. Len(saved) = 0 /\ \A m \in Name : spool[m] = Absent
    BY <1>1, <1>3 DEF Post, RouteInv, TypeOK, SpoolContents, Open
  <2>. QED BY <1>3, <2>1 DEF Post, SpoolContents, Open, Absent, Part
<1>4. CASE SkipFile
  BY <1>4 DEF SkipFile, AtFile, SpoolContents, Open, Overwritten, SavedAs
<1>5. CASE OpenFile
  <2>1. /\ stage = "between" /\ stage' = "reading" /\ UNCHANGED <<request, saved, next>>
        /\ Current' = Current /\ Current.name \in Name
        /\ spool' = [spool EXCEPT ![Current.name] = Part]
    BY <1>5 DEF OpenFile, AtFile, Current
  <2>2. spool'[Current.name] = Part /\ \A n \in Name \ {Current.name} : spool'[n] = spool[n]
    BY <2>1 DEF TypeOK
  <2>3. \A i : Overwritten(i)' = Overwritten(i) /\ SavedAs(i)' = SavedAs(i)
    BY <2>1, SavedStay
  <2>. QED BY <1>1, <2>1, <2>2, <2>3 DEF SpoolContents, Open, Part, Absent
<1>6. CASE Refuse
  BY <1>6, RefusedIsEmpty DEF Refuse, SpoolContents, Open, Empty
<1>7. CASE CloseFile
  <2> DEFINE c == Current.name
             L == Len(saved)
  <2>1. /\ stage = "reading" /\ stage' = "between" /\ UNCHANGED request
        /\ c \in Name /\ Current = request[next] /\ Current \in Files
        /\ spool' = [spool EXCEPT ![c] = Current.content]
        /\ saved' = Append(saved, next) /\ next \in 1..MaxFiles
    <3>1. next \in 1..Len(request) /\ next \in 1..MaxFiles
      BY <1>1, <1>7, BoundsAssumption DEF CloseFile, AtFile, TypeOK
    <3>2. Current \in Files
      BY <3>1, ElementOfSeq DEF TypeOK, Current
    <3>. QED BY <1>7, <3>1, <3>2 DEF CloseFile, AtFile, RouteInv, Current
  <2>2. Current.content \in Content /\ Current.content # Absent /\ Current.content # Part
    BY <2>1, ContentAssumption DEF Files
  <2>3. spool'[c] = Current.content /\ \A n \in Name \ {c} : spool'[n] = spool[n]
    BY <2>1 DEF TypeOK
  <2>4. /\ Len(saved') = L + 1 /\ saved'[L + 1] = next
        /\ \A i \in 1..L : saved'[i] = saved[i]
    BY <2>1, AppendProperties DEF TypeOK
  <2>5. \A i : (i = L + 1 => SavedAs(i)' = c) /\ (i \in 1..L => SavedAs(i)' = SavedAs(i))
    BY <2>1, <2>4 DEF SavedAs
  <2>6. \A i \in 1..Len(saved') : i \in 1..L \/ i = L + 1
    BY <1>1, <2>4
  <2>7. L + 1 \in 1..Len(saved') /\ \A i \in 1..L : i \in 1..Len(saved') /\ L + 1 \in (i + 1)..Len(saved')
    BY <1>1, <2>4
  <2>8. ASSUME NEW i \in 1..L, ~Overwritten(i)'
        PROVE  ~Overwritten(i) /\ SavedAs(i) # c
    <3>1. SavedAs(i) # c
      BY <2>1, <2>4, <2>5, <2>7, <2>8 DEF Overwritten, SavedAs
    <3>2. ASSUME NEW j \in (i + 1)..L, request[saved[j]].name = request[saved[i]].name PROVE FALSE
      <4>1. j \in (i + 1)..Len(saved') /\ j \in 1..L
        BY <1>1, <2>4
      <4>. QED BY <2>1, <2>4, <2>8, <3>2, <4>1 DEF Overwritten
    <3>. QED BY <3>1, <3>2 DEF Overwritten
  <2>9. \A n \in Name : spool'[n] # Part
    BY <2>1, <2>2, <2>3 DEF SpoolContents, Open
  <2>10. \A i \in 1..Len(saved') : spool'[SavedAs(i)'] # Absent
    BY <1>1, <2>1, <2>2, <2>3, <2>5, <2>6 DEF SpoolContents, Open
  <2>11. ASSUME NEW n \in Name, spool'[n] # Absent
         PROVE  \E i \in 1..Len(saved') : SavedAs(i)' = n
    <3>1. CASE n = c
      <4>1. PICK i \in 1..Len(saved') : i = L + 1
        BY <2>7
      <4>. QED BY <2>5, <3>1, <4>1
    <3>2. CASE n # c
      <4>1. PICK i \in 1..L : SavedAs(i) = n
        BY <2>1, <2>3, <2>11, <3>2 DEF SpoolContents, Open
      <4>. QED BY <2>5, <2>7, <4>1
    <3>. QED BY <3>1, <3>2
  <2>12. ASSUME NEW i \in 1..Len(saved'), ~Overwritten(i)'
         PROVE  spool'[SavedAs(i)'] = request'[saved'[i]].content
    <3>1. CASE i = L + 1
      BY <2>1, <2>3, <2>4, <2>5, <3>1
    <3>2. CASE i \in 1..L
      <4>1. ~Overwritten(i) /\ SavedAs(i) # c
        BY <2>8, <2>12, <3>2
      <4>2. spool[SavedAs(i)] = request[saved[i]].content
        BY <2>1, <3>2, <4>1 DEF SpoolContents, Open
      <4>. QED BY <1>1, <2>1, <2>3, <2>4, <2>5, <3>2, <4>1, <4>2
    <3>. QED BY <2>6, <3>1, <3>2
  <2>. QED BY <2>1, <2>9, <2>10, <2>11, <2>12 DEF SpoolContents, Open, SavedAs
<1>8. CASE SpoolingFails \/ JobLost
  BY <1>8 DEF SpoolingFails, JobLost, SpoolContents, Open
<1>9. CASE NothingSaved
  BY <1>1, <1>9, LenProperties DEF NothingSaved, AllRead, SpoolContents, Open
<1>10. CASE Enqueue \/ StartJob
  BY <1>10, SavedStay DEF Enqueue, StartJob, AllRead, SpoolContents, Open
<1>11. CASE EndJob
  BY <1>11 DEF EndJob, Empty, SpoolContents, Open
<1>12. CASE ReadChunk \/ AddFile
  BY <1>2, <1>12 DEF ReadChunk, AddFile
<1>. QED
  BY <1>2, <1>3, <1>4, <1>5, <1>6, <1>7, <1>8, <1>9, <1>10, <1>11, <1>12 DEF Next

LEMMA CountStep == TypeOK /\ RouteInv /\ CountInv /\ [Next]_vars => CountInv'
<1> SUFFICES ASSUME TypeOK, RouteInv, CountInv, [Next]_vars PROVE CountInv'
  OBVIOUS
<1>1. /\ Len(request) \in Nat /\ Len(saved) \in Nat /\ next \in Nat /\ next > 0
      /\ totalBytes \in Nat /\ fileBytes \in Nat /\ FileLimit \in Nat /\ TotalLimit \in Nat
      /\ \A i \in 1..Len(request) : request[i].size \in Nat
  <2>1. \A i \in 1..Len(request) : request[i] \in Files
    BY ElementOfSeq DEF TypeOK
  <2>2. \A i \in 1..Len(request) : request[i].size \in Nat
    BY <2>1, BoundsAssumption DEF Files
  <2>3. totalBytes \in Nat /\ fileBytes \in Nat
    BY LimitsAssumption DEF TypeOK
  <2>4. next \in Nat /\ next > 0
    BY BoundsAssumption DEF TypeOK
  <2>. QED BY <2>2, <2>3, <2>4, LenProperties, LimitsAssumption DEF TypeOK
<1>2. UNCHANGED request => BytesOf' = BytesOf /\ Current' = request[next']
  BY SameBytes DEF Current
<1>3. ASSUME next <= Len(request)
      PROVE  /\ BytesOf[next] = BytesOf[next - 1] + (IF Current.name = Unsafe THEN 0 ELSE Current.size)
             /\ Current.size \in Nat
  <2>1. next \in 1..MaxFiles /\ next \in 1..Len(request)
    BY <1>1, <1>3, BoundsAssumption DEF TypeOK
  <2>. QED BY <1>1, <2>1, BytesOfEquation DEF Current
<1>4. CASE UNCHANGED <<request, next, stage, saved, sizes>>
  BY <1>2, <1>4 DEF CountInv, Current
<1>5. ASSUME NEW n \in 1..MaxFiles, NEW f \in [1..n -> Files], Post(f) PROVE CountInv'
  <2>1. (BytesOf[0] = 0)'
    BY BytesOfEquation, PTL
  <2>2. Len(saved) = 0 /\ next = 1
    BY <1>1, <1>5 DEF Post, RouteInv, TypeOK
  <2>3. totalBytes = 0
    BY <1>5, <2>2, BytesOfEquation DEF Post, CountInv
  <2>. QED BY <1>1, <1>5, <2>1, <2>2, <2>3 DEF Post, CountInv
<1>6. CASE SkipFile
  BY <1>1, <1>2, <1>3, <1>6 DEF SkipFile, AtFile, CountInv
<1>7. CASE OpenFile
  BY <1>1, <1>2, <1>3, <1>7 DEF OpenFile, AtFile, CountInv, Current
<1>8. CASE ReadChunk
  BY <1>1, <1>2, <1>3, <1>8 DEF ReadChunk, AtFile, OverLimit, CountInv, Current
<1>9. CASE Refuse
  <2>1. /\ stage = "reading" /\ stage' = "refused" /\ UNCHANGED <<request, next, saved>>
        /\ next <= Len(request) /\ fileBytes < Current.size
        /\ fileBytes + 1 > FileLimit \/ totalBytes + 1 > TotalLimit
    BY <1>9 DEF Refuse, AtFile, OverLimit
  <2>2. BytesOf[next] = BytesOf[next - 1] + Current.size /\ Current.size \in Nat
    BY <1>3, <2>1, NamesAssumption DEF RouteInv
  <2>3. BytesOf[next - 1] \in Nat /\ totalBytes = BytesOf[next - 1] + fileBytes
    BY <2>1 DEF CountInv
  <2>4. Current.size > FileLimit \/ BytesOf[next] > TotalLimit
    BY <1>1, <2>1, <2>2, <2>3
  <2>5. Current' = Current /\ BytesOf'[next'] = BytesOf[next]
    BY <1>2, <2>1 DEF Current
  <2>. QED BY <2>1, <2>4, <2>5 DEF CountInv
<1>10. CASE CloseFile
  <2>1. /\ stage = "reading" /\ stage' = "between" /\ UNCHANGED <<request, sizes>>
        /\ next <= Len(request) /\ next' = next + 1 /\ fileBytes = Current.size
        /\ saved' = Append(saved, next) /\ next \in 1..MaxFiles
    BY <1>1, <1>10, BoundsAssumption DEF CloseFile, AtFile, TypeOK
  <2>2. /\ Len(saved') = Len(saved) + 1 /\ saved'[Len(saved) + 1] = next
        /\ \A i \in 1..Len(saved) : saved'[i] = saved[i]
    BY <2>1, AppendProperties DEF TypeOK
  <2>3. \A i \in 1..Len(saved') : request'[saved'[i]].size <= FileLimit
    BY <1>1, <2>1, <2>2 DEF CountInv, Current
  <2>4. BytesOf[next] = totalBytes
    BY <1>3, <2>1, NamesAssumption DEF CountInv, RouteInv
  <2>5. BytesOf'[next' - 1] = totalBytes
    BY <1>1, <1>2, <2>1, <2>4
  <2>. QED BY <1>1, <2>1, <2>3, <2>5 DEF CountInv
<1>11. CASE SpoolingFails \/ NothingSaved \/ Enqueue \/ StartJob \/ JobLost \/ AddFile \/ EndJob
  BY <1>2, <1>11
  DEF SpoolingFails, NothingSaved, Enqueue, StartJob, JobLost, AddFile, EndJob, AllRead, CountInv
<1>. QED
  BY <1>4, <1>5, <1>6, <1>7, <1>8, <1>9, <1>10, <1>11 DEF Next

\* A path that calibredb adds has the content the file was accepted with, unless a
\* later file has been written over it.
LEMMA VerdictStep ==
  TypeOK /\ RouteInv /\ SpoolContents /\ VerdictInv /\ FinishedInv /\ [Next]_vars
    => VerdictInv' /\ FinishedInv'
<1> SUFFICES ASSUME TypeOK, RouteInv, SpoolContents, VerdictInv, FinishedInv, [Next]_vars
             PROVE VerdictInv' /\ FinishedInv'
  OBVIOUS
<1>1. CASE UNCHANGED <<request, saved, verdicts, library>> /\ (stage' # "finished" \/ UNCHANGED stage)
  BY <1>1, SavedStay DEF VerdictInv, FinishedInv
<1>2. CASE stage' \in {"between", "reading"} /\ UNCHANGED verdicts
  <2>1. stage \notin {"adding", "finished"} => Len(verdicts) = 0
    BY LenProperties DEF RouteInv
  <2>2. stage \notin {"adding", "finished"}
    BY <1>2 DEF Next, Post, SkipFile, OpenFile, ReadChunk, Refuse, CloseFile, SpoolingFails, NothingSaved,
       Enqueue, StartJob, JobLost, AddFile, EndJob, AtFile
  <2>. QED BY <1>2, <2>1, <2>2 DEF VerdictInv, FinishedInv
<1>3. CASE AddFile
  <2> DEFINE k == Len(verdicts)
  <2>1. /\ k \in Nat /\ Len(saved) \in Nat /\ k + 1 \in 1..Len(saved)
        /\ stage = "adding" /\ UNCHANGED <<request, saved, spool, stage>>
        /\ library \subseteq library'
    BY <1>3, LenProperties DEF AddFile, TypeOK
  <2>2. PICK v \in {"done", "skipped", "failed"} :
           /\ verdicts' = Append(verdicts, v)
           /\ v # "failed" => Spooled \in library'
    BY <1>3 DEF AddFile
  <2>3. /\ Len(verdicts') = k + 1 /\ verdicts'[k + 1] = v
        /\ \A i \in 1..k : verdicts'[i] = verdicts[i]
    BY <2>2, AppendProperties DEF TypeOK
  <2>4. ~Overwritten(k + 1) => Spooled = request[saved[k + 1]].content
    BY <2>1 DEF SpoolContents, Open, SavedAs, Spooled
  <2>5. \A i : Overwritten(i)' = Overwritten(i)
    BY <2>1, SavedStay
  <2>6. ASSUME NEW i \in 1..Len(verdicts'), request[saved[i]].content \notin library'
        PROVE  verdicts'[i] = "failed" \/ Overwritten(i)
    <3>1. CASE i = k + 1
      BY <2>2, <2>3, <2>4, <2>6, <3>1
    <3>2. CASE i \in 1..k
      BY <2>1, <2>3, <2>6, <3>2 DEF VerdictInv
    <3>. QED BY <2>1, <2>3, <3>1, <3>2
  <2>. QED BY <2>1, <2>5, <2>6 DEF VerdictInv, FinishedInv
<1>4. CASE EndJob
  BY <1>4, SavedStay DEF EndJob, VerdictInv, FinishedInv
<1>. QED
  BY <1>1, <1>2, <1>3, <1>4
  DEF Next, Post, SkipFile, OpenFile, ReadChunk, Refuse, CloseFile, SpoolingFails, NothingSaved,
      Enqueue, StartJob, JobLost

-----------------------------------------------------------------------------
(* The theorems. *)

LEMMA UploadInvInit == Init => UploadInv
<1> SUFFICES ASSUME Init PROVE UploadInv
  OBVIOUS
<1>1. TypeOK
  <2>1. Len(request) = 0 /\ Len(saved) = 0 /\ Len(verdicts) = 0
    BY DEF Init
  <2>2. next \in 1..(MaxFiles + 1) /\ fileBytes \in 0..(FileLimit + 1) /\ totalBytes \in 0..(TotalLimit + 1)
    BY BoundsAssumption, LimitsAssumption DEF Init
  <2>3. request \in Seq(Files) /\ saved \in Seq(1..MaxFiles) /\ verdicts \in Seq({"done", "skipped", "failed"})
    BY DEF Init
  <2>4. Len(request) <= MaxFiles /\ Len(saved) < next /\ Len(verdicts) <= Len(saved)
    BY <2>1, BoundsAssumption DEF Init
  <2>5. /\ spool \in [Name -> Content \cup {Absent, Part}]
        /\ \A n \in Name : spool[n] # Absent => dir
    BY DEF Init
  <2>6. dir \in BOOLEAN /\ failed \in BOOLEAN /\ library \subseteq Content
    BY DEF Init
  <2>. QED BY <2>2, <2>3, <2>4, <2>5, <2>6 DEF Init, TypeOK
<1>2. RouteInv /\ SpoolContents /\ VerdictInv /\ FinishedInv
  BY DEF Init, RouteInv, SpoolContents, Open, VerdictInv, FinishedInv
<1>3. CountInv
  BY LimitsAssumption, BytesOfEquation DEF Init, CountInv
<1>. QED BY <1>1, <1>2, <1>3 DEF UploadInv

LEMMA UploadInvStep == UploadInv /\ [Next]_vars => UploadInv'
BY TypeStep, RouteStep, SpoolStep, CountStep, VerdictStep DEF UploadInv

\* The job finds a complete file at each of its paths, and nothing is left of the
\* spool of a request that is refused or empty, nor of a finished job.
THEOREM SpoolCorrect == Spec => []SpoolInv
<1>1. ASSUME UploadInv PROVE SpoolInv
  <2>1. /\ Len(verdicts) \in Nat /\ Len(saved) \in Nat
        /\ \A i \in 1..Len(saved) : SavedAs(i) \in Name
    BY <1>1, LenProperties DEF UploadInv, TypeOK, RouteInv, SavedAs
  <2>2. ASSUME stage \in {"queued", "adding"}, NEW i \in (Len(verdicts) + 1)..Len(saved)
        PROVE  spool[request[saved[i]].name] \in Content
    <3>1. i \in 1..Len(saved)
      BY <2>1
    <3>. QED BY <1>1, <2>1, <2>2, <3>1 DEF UploadInv, TypeOK, SpoolContents, Open, SavedAs
  <2>. QED BY <1>1, <2>2 DEF UploadInv, RouteInv, SpoolInv
<1>. QED BY <1>1, UploadInvInit, UploadInvStep, PTL DEF Spec

\* A request is refused only for a file or a sum over its limit, and what the job
\* gets is within the limits.
THEOREM LimitsCorrect == Spec => []LimitsDecide
<1>1. ASSUME UploadInv PROVE LimitsDecide
  <2>1. Len(request) \in Nat /\ next \in Nat
    BY <1>1, LenProperties, BoundsAssumption DEF UploadInv, TypeOK
  <2>2. stage \in {"queued", "adding", "finished"} => next - 1 = Len(request)
    BY <1>1, <2>1 DEF UploadInv, RouteInv
  <2>. QED BY <1>1, <2>2 DEF UploadInv, CountInv, LimitsDecide
<1>. QED BY <1>1, UploadInvInit, UploadInvStep, PTL DEF Spec

\* When the job is over, every accepted file is in the library, or reported as
\* failed, or was written over by a later file of its name.
THEOREM UploadsKept == Spec => []NoUploadDropped
<1>1. UploadInv => NoUploadDropped
  BY DEF UploadInv, VerdictInv, FinishedInv, NoUploadDropped
<1>. QED BY <1>1, UploadInvInit, UploadInvStep, PTL DEF Spec
=============================================================================
