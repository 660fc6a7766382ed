------------------------------- MODULE Upload -------------------------------
(***************************************************************************)
(* An upload from the request to the end of its job: the route upload of   *)
(* app/routes/upload.py, which spools the files under limits, and the loop *)
(* of handle_upload in app/handlers.py, which adds them to the library and *)
(* deletes the spool.  Every request has a spool directory of its own, so  *)
(* one request is modelled.  Sizes are in chunks of the route's read.      *)
(***************************************************************************)
EXTENDS Integers, Sequences

CONSTANTS Name,        \* the acceptable file names, after _sanitise_filename
          Content,     \* what an uploaded file can hold
          MaxFiles,    \* bound: files in a request
          MaxSize,     \* bound: chunks of a file
          FileLimit,   \* MAX_FILE_BYTES
          TotalLimit   \* MAX_REQUEST_BYTES

ASSUME BoundsAssumption == MaxFiles \in Nat /\ MaxSize \in Nat
ASSUME LimitsAssumption == FileLimit \in Nat /\ TotalLimit \in Nat

Unsafe == "unsafe"   \* a name that _sanitise_filename refuses
Absent == "absent"   \* no such file
Part   == "part"     \* a file that is still being written

ASSUME NamesAssumption   == Unsafe \notin Name
ASSUME ContentAssumption == Content \cap {Absent, Part} = {}

Files == [name : Name \cup {Unsafe}, content : Content, size : 0..MaxSize]

VARIABLES request,     \* the files of the request, read or not
          next,        \* the one the route is at
          stage,       \* where the request and its job stand
          spool,       \* what the spool directory holds under each name
          dir,         \* the spool directory exists
          saved,       \* the files accepted so far, by index
          fileBytes, totalBytes,
          verdicts,    \* of the job, for each path it has handled
          library,     \* the contents in the library
          failed       \* history: a step failed that is not a refusal

sizes == <<fileBytes, totalBytes>>
vars  == <<request, next, stage, spool, dir, saved, sizes, verdicts, library, failed>>

TypeOK ==
  /\ request \in Seq(Files) /\ Len(request) <= MaxFiles
  /\ next \in 1..(MaxFiles + 1)
  /\ stage \in {"idle", "between", "reading", "refused", "nothing",
                "queued", "adding", "finished", "broken"}
  /\ spool \in [Name -> Content \cup {Absent, Part}]
  /\ dir \in BOOLEAN /\ failed \in BOOLEAN
  /\ saved \in Seq(1..MaxFiles) /\ Len(saved) < next
  /\ fileBytes \in 0..(FileLimit + 1) /\ totalBytes \in 0..(TotalLimit + 1)
  /\ verdicts \in Seq({"done", "skipped", "failed"}) /\ Len(verdicts) <= Len(saved)
  /\ library \subseteq Content
  /\ \A n \in Name : spool[n] # Absent => dir

Init ==
  /\ request = <<>> /\ next = 1 /\ stage = "idle"
  /\ spool = [n \in Name |-> Absent] /\ dir = FALSE
  /\ saved = <<>> /\ fileBytes = 0 /\ totalBytes = 0
  /\ verdicts = <<>>
  /\ library \in SUBSET Content
  /\ failed = FALSE

Empty == [n \in Name |-> Absent]

-----------------------------------------------------------------------------
(* The route. *)

Post(files) ==
  /\ stage = "idle"
  /\ request' = files
  /\ stage' = "between"
  /\ dir' = TRUE
  /\ UNCHANGED <<next, spool, saved, sizes, verdicts, library, failed>>

AtFile(s) == stage = s /\ next <= Len(request)
Current   == request[next]

SkipFile ==
  /\ AtFile("between") /\ Current.name = Unsafe
  /\ next' = next + 1
  /\ UNCHANGED <<request, stage, spool, dir, saved, sizes, verdicts, library, failed>>

\* dest.open("wb") empties a file of that name.
OpenFile ==
  /\ AtFile("between") /\ Current.name \in Name
  /\ spool' = [spool EXCEPT ![Current.name] = Part]
  /\ fileBytes' = 0
  /\ stage' = "reading"
  /\ UNCHANGED <<request, next, dir, saved, totalBytes, verdicts, library, failed>>

\* Mutant: a file at the limit is over it.
AtLimit == fileBytes + 1 >= FileLimit \/ totalBytes + 1 > TotalLimit

\* The chunk in hand takes the file or the request over its limit.
OverLimit == fileBytes + 1 > FileLimit \/ totalBytes + 1 > TotalLimit

ReadChunk ==
  /\ AtFile("reading") /\ fileBytes < Current.size
  /\ ~OverLimit
  /\ fileBytes' = fileBytes + 1
  /\ totalBytes' = totalBytes + 1
  /\ UNCHANGED <<request, next, stage, spool, dir, saved, verdicts, library, failed>>

\* Mutant: the file that is being written is forgotten.
TornDownButLast ==
  [n \in Name |-> IF \E i \in 1..Len(saved) : request[saved[i]].name = n THEN Absent ELSE spool[n]]

\* What the refusal leaves in the spool: dest and the saved files are unlinked.
TornDown ==
  [n \in Name |-> IF n = Current.name \/ \E i \in 1..Len(saved) : request[saved[i]].name = n
                    THEN Absent ELSE spool[n]]

\* 413: the spool is torn down; rmdir takes none but an empty directory.
Refuse ==
  /\ AtFile("reading") /\ fileBytes < Current.size
  /\ OverLimit
  /\ spool' = TornDown
  /\ dir' = (TornDown # Empty)
  /\ stage' = "refused"
  /\ fileBytes' = fileBytes + 1
  /\ totalBytes' = totalBytes + 1
  /\ UNCHANGED <<request, next, saved, verdicts, library, failed>>

CloseFile ==
  /\ AtFile("reading") /\ fileBytes = Current.size
  /\ spool' = [spool EXCEPT ![Current.name] = Current.content]
  /\ saved' = Append(saved, next)
  /\ next' = next + 1
  /\ stage' = "between"
  /\ UNCHANGED <<request, dir, sizes, verdicts, library, failed>>

\* The disk is full, or the read fails: only an HTTPException tears down.
SpoolingFails ==
  /\ AtFile("reading")
  /\ stage' = "broken"
  /\ failed' = TRUE
  /\ UNCHANGED <<request, next, spool, dir, saved, sizes, verdicts, library>>

AllRead == stage = "between" /\ next > Len(request)

NothingSaved ==
  /\ AllRead /\ saved = <<>>
  /\ dir' = FALSE
  /\ stage' = "nothing"
  /\ UNCHANGED <<request, next, spool, saved, sizes, verdicts, library, failed>>

Enqueue ==
  /\ AllRead /\ saved # <<>>
  /\ stage' = "queued"
  /\ UNCHANGED <<request, next, spool, dir, saved, sizes, verdicts, library, failed>>

-----------------------------------------------------------------------------
(* The job. *)

StartJob ==
  /\ stage = "queued"
  /\ stage' = "adding"
  /\ UNCHANGED <<request, next, spool, dir, saved, sizes, verdicts, library, failed>>

\* The snapshot fails and the job with it, or the process ends before it.
JobLost ==
  /\ stage = "queued"
  /\ stage' = "broken"
  /\ failed' = TRUE
  /\ UNCHANGED <<request, next, spool, dir, saved, sizes, verdicts, library>>

\* The content of the path the job's loop is at.
Spooled == spool[request[saved[Len(verdicts) + 1]].name]

\* Mutant: a file that calibredb does not add counts as one it knows.
AddFileCarelessly ==
  /\ stage = "adding" /\ Len(verdicts) < Len(saved)
  /\ \/ /\ Spooled \in Content
        /\ library' = library \cup {Spooled}
        /\ verdicts' = Append(verdicts, IF Spooled \in library THEN "skipped" ELSE "done")
     \/ /\ verdicts' = Append(verdicts, "skipped")
        /\ UNCHANGED library
  /\ UNCHANGED <<request, next, stage, spool, dir, saved, sizes, failed>>

\* calibredb add: it knows what the library has.
AddFile ==
  /\ stage = "adding" /\ Len(verdicts) < Len(saved)
  /\ \/ /\ Spooled \in Content
        /\ library' = library \cup {Spooled}
        /\ verdicts' = Append(verdicts, IF Spooled \in library THEN "skipped" ELSE "done")
     \/ /\ verdicts' = Append(verdicts, "failed")
        /\ UNCHANGED library
  /\ UNCHANGED <<request, next, stage, spool, dir, saved, sizes, failed>>

EndJob ==
  /\ stage = "adding" /\ Len(verdicts) = Len(saved)
  /\ spool' = Empty
  /\ dir' = FALSE
  /\ stage' = "finished"
  /\ UNCHANGED <<request, next, saved, sizes, verdicts, library, failed>>

Next ==
  \/ \E n \in 1..MaxFiles : \E files \in [1..n -> Files] : Post(files)
  \/ SkipFile \/ OpenFile \/ ReadChunk \/ Refuse \/ CloseFile \/ SpoolingFails
  \/ NothingSaved \/ Enqueue
  \/ StartJob \/ JobLost \/ AddFile \/ EndJob

Spec == Init /\ [][Next]_vars

-----------------------------------------------------------------------------
\* The bytes of the first n files, those that are not skipped.
BytesOf[n \in 0..MaxFiles] ==
  IF n = 0 THEN 0 ELSE BytesOf[n - 1] + (IF request[n].name = Unsafe THEN 0 ELSE request[n].size)

\* A request is refused only if a file of it, or what it has sent so far, is
\* over the limit: one at the limit passes, and skipped files do not count.
\* What the job gets is within the limits (upload.py:58-68).
LimitsDecide ==
  /\ stage = "refused" => Current.size > FileLimit \/ BytesOf[next] > TotalLimit
  /\ stage \in {"queued", "adding", "finished"}
       => /\ BytesOf[Len(request)] <= TotalLimit
          /\ \A i \in 1..Len(saved) : request[saved[i]].size <= FileLimit

\* The job finds a complete file at each of its paths, also when two of the
\* files have one name.  A refused or empty request leaves nothing behind,
\* whatever the names of its files, and the end of the job deletes the spool:
\* it is orphaned only by a failure (upload.py:50-79, handlers.py:148-174).
SpoolInv ==
  /\ TypeOK
  /\ stage \in {"queued", "adding"}
       => \A i \in (Len(verdicts) + 1)..Len(saved) : spool[request[saved[i]].name] \in Content
  /\ stage \in {"refused", "nothing", "finished"} => ~dir

\* Another file of the request was accepted later under the name of the i-th.
Overwritten(i) ==
  \E j \in (i + 1)..Len(saved) : request[saved[j]].name = request[saved[i]].name

\* No upload is "silently dropped" (README.md:76): when the job is over, what
\* was accepted is in the library, or its file was reported as failed.  That
\* holds of every file but one that a later file of its name has replaced in
\* the spool (upload.py:50-56): this file is reported as done or skipped.
NoUploadDropped ==
  stage = "finished" =>
    \A i \in 1..Len(saved) :
       request[saved[i]].content \notin library => verdicts[i] = "failed" \/ Overwritten(i)
=============================================================================
