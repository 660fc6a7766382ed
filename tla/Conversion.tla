----------------------------- MODULE Conversion -----------------------------
(***************************************************************************)
(* The jobs that add books and formats to the library: handle_upload with  *)
(* _autoconvert_all_formats, and handle_convert, both over convert_book of *)
(* app/services/calibre_cli.py, which runs in a thread of its own.  Each   *)
(* call of calibredb and ebook-convert may fail or raise, Worker.stop()    *)
(* may cancel the job at any point, the process may be killed, and files   *)
(* may disappear from the library's folders.                               *)
(***************************************************************************)
EXTENDS Formats, BatchJob

CONSTANT MaxLosses  \* bound: the files that disappear

ASSUME ConversionAssumption == MaxLosses \in Nat

VARIABLES target,      \* the target of the running convert job
          plan,        \* the targets _autoconvert_all_formats has yet to try
          known,       \* the formats the handler takes the book in hand to have
          conv,        \* the call of convert_book under way
          failures,    \* the books one of whose automatic conversions failed
          interrupted, \* those left in the library with conversions never tried
          losses       \* the files that have disappeared

library        == <<formats, files>>
conversionVars == <<batch, library, target, plan, known, conv, failures, interrupted, losses>>

Idle   == [stage |-> "idle"]
Stages == {"called", "converting", "exited", "adding", "done", "no_source", "error"}

\* A call of convert_book: `exit` and `output` are ebook-convert's, once it has
\* exited; `half` is TRUE when a calibredb that failed has changed the library.
Calls == [stage : Stages, book : Book, target : ConvertTargets, source : Fmt \cup {NoFmt},
          exit : {0, 1}, output : {"none", "partial", "whole"}, half : BOOLEAN]

ConversionTypeOK ==
  /\ formats \in [Book -> SUBSET Fmt]
  /\ files \in [Book -> SUBSET Fmt]
  /\ target \in ConvertTargets \cup {NoFmt}
  /\ plan \in Seq(ConvertTargets)
  /\ known \subseteq Fmt
  /\ conv \in Calls \cup {Idle}
  /\ failures \subseteq Book
  /\ interrupted \subseteq Book
  /\ losses \in 0..MaxLosses
  /\ BookStatesDeclared
  /\ plan # <<>> => kind = "upload" /\ todo # <<>> /\ formats[Head(todo)] # {}

ConversionInit ==
  /\ BatchInit
  /\ formats = [b \in Book |-> {}]
  /\ files = [b \in Book |-> {}]
  /\ target = NoFmt
  /\ plan = <<>>
  /\ known = {}
  /\ conv = Idle
  /\ failures = {}
  /\ interrupted = {}
  /\ losses = 0

-----------------------------------------------------------------------------
(* convert_book, in its thread. *)

Call(b, t) ==
  conv' = [stage |-> "called", book |-> b, target |-> t, source |-> PickSource(known', t),
           exit |-> 0, output |-> "none", half |-> FALSE]

\* What convert_book returns; its temporary folder is gone, with the output.
Return(verdict, half) ==
  conv' = [conv EXCEPT !.stage = verdict, !.exit = 0, !.output = "none", !.half = half]

\* The book has a source to convert from, and its file is there.
FindSource ==
  /\ conv.stage = "called"
  /\ \/ conv.source = NoFmt /\ Return("no_source", FALSE)
     \/ conv.source # NoFmt /\ conv.source \notin files[conv.book] /\ Return("error", FALSE)
     \/ conv.source \in files[conv.book] /\ conv' = [conv EXCEPT !.stage = "converting"]
  /\ UNCHANGED <<batch, library, target, plan, known, failures, interrupted, losses>>

\* ebook-convert ends: if it fails, with or without a part of its output.
EbookConvert ==
  /\ conv.stage = "converting"
  /\ \E exit \in {0, 1}, output \in {"none", "partial", "whole"} :
       /\ exit = 0 => output # "partial"
       /\ conv' = [conv EXCEPT !.stage = "exited", !.exit = exit, !.output = output]
  /\ UNCHANGED <<batch, library, target, plan, known, failures, interrupted, losses>>

\* Mutant: any output will do, whatever the exit code.
CheckOutputOnly ==
  /\ conv.stage = "exited"
  /\ IF conv.output = "none" THEN Return("error", FALSE)
                             ELSE conv' = [conv EXCEPT !.stage = "adding"]
  /\ UNCHANGED <<batch, library, target, plan, known, failures, interrupted, losses>>

CheckOutput ==
  /\ conv.stage = "exited"
  /\ IF conv.exit # 0 \/ conv.output = "none" THEN Return("error", FALSE)
                                               ELSE conv' = [conv EXCEPT !.stage = "adding"]
  /\ UNCHANGED <<batch, library, target, plan, known, failures, interrupted, losses>>

\* add_format: the library lists the format, and has its file.
Gain(b, t) ==
  /\ formats' = [formats EXCEPT ![b] = @ \cup {t}]
  /\ files' = [files EXCEPT ![b] = @ \cup {t}]

AddFormat ==
  /\ conv.stage = "adding"
  /\ Gain(conv.book, conv.target)
  /\ Return("done", FALSE)
  /\ UNCHANGED <<batch, target, plan, known, failures, interrupted, losses>>

\* calibredb fails, with nothing done, or after it has listed the format.
AddFormatFails ==
  /\ conv.stage = "adding"
  /\ \/ UNCHANGED library /\ Return("error", FALSE)
     \/ Gain(conv.book, conv.target) /\ Return("error", TRUE)
  /\ UNCHANGED <<batch, target, plan, known, failures, interrupted, losses>>

-----------------------------------------------------------------------------
(* The jobs. *)

\* Mutant: EPUB is not among the targets.
KindleTargets == <<"AZW3", "MOBI">>

AutoconvertTargets == <<"AZW3", "MOBI", "EPUB">>

\* A job begins when no thread is left of an earlier one: a process that stops
\* waits for its threads.
BeginUpload(books) ==
  /\ conv = Idle
  /\ \A i \in 1..Len(books) : formats[books[i]] = {}
  /\ BeginBatch("upload", books)
  /\ UNCHANGED <<library, target, plan, known, conv, failures, interrupted, losses>>

BeginConvert(books, t) ==
  /\ conv = Idle
  /\ BeginBatch("convert", books)
  /\ target' = t
  /\ UNCHANGED <<library, plan, known, conv, failures, interrupted, losses>>

\* The loop of handle_upload comes to its next file.
TakeUpload(b) ==
  /\ At("upload", b) /\ progress[b] = "pending"
  /\ progress' = [progress EXCEPT ![b] = "running"]
  /\ UNCHANGED <<kind, todo, outcome, library, target, plan, known, conv, failures, interrupted, losses>>

\* calibredb add is at work on the file.
Adding(b) == At("upload", b) /\ progress[b] = "running"

Added(b, f) ==
  /\ formats' = [formats EXCEPT ![b] = {f}]
  /\ files' = [files EXCEPT ![b] = {f}]

\* calibredb adds the file: the book is done, its conversions begin.
AddBook(b, f) ==
  /\ Adding(b)
  /\ Added(b, f)
  /\ progress' = [progress EXCEPT ![b] = "done"]
  /\ plan' = AutoconvertTargets
  /\ known' = {f}
  /\ UNCHANGED <<kind, todo, outcome, target, conv, failures, interrupted, losses>>

\* calibredb reports a duplicate, or fails.
RefuseBook(b) ==
  /\ Adding(b)
  /\ Settle("skipped") \/ Settle("failed")
  /\ UNCHANGED <<library, target, plan, known, conv, failures, interrupted, losses>>

\* It fails after all its work: the book is in the library, and nobody knows.
AddUnnoticed(b, f) ==
  /\ Adding(b)
  /\ Added(b, f)
  /\ Settle("failed")
  /\ interrupted' = interrupted \cup {b}
  /\ UNCHANGED <<target, plan, known, conv, failures, losses>>

\* _autoconvert_all_formats passes over the format that was uploaded: of those
\* it has produced none comes again.
PassTarget(b) ==
  /\ At("upload", b) /\ conv = Idle /\ plan # <<>> /\ Head(plan) \in known
  /\ plan' = Tail(plan)
  /\ UNCHANGED <<batch, library, target, known, conv, failures, interrupted, losses>>

\* It tries its next target.
Autoconvert(b) ==
  /\ At("upload", b) /\ conv = Idle /\ plan # <<>> /\ Head(plan) \notin known
  /\ known' = known
  /\ Call(b, Head(plan))
  /\ UNCHANGED <<batch, library, target, plan, failures, interrupted, losses>>

\* convert_book has returned: failures are not fatal, and what was produced may
\* be the source of what follows.
TakeAutoconverted(b) ==
  /\ At("upload", b) /\ conv.stage \in {"done", "no_source", "error"}
  /\ known' = IF conv.stage = "done" THEN known \cup {conv.target} ELSE known
  /\ failures' = IF conv.stage = "error" THEN failures \cup {b} ELSE failures
  /\ plan' = Tail(plan)
  /\ conv' = Idle
  /\ UNCHANGED <<batch, library, target, interrupted, losses>>

\* The conversions are over: the loop goes on to the next file.
NextUpload(b) ==
  /\ At("upload", b) /\ progress[b] = "done" /\ plan = <<>>
  /\ todo' = Tail(todo)
  /\ known' = {}
  /\ UNCHANGED <<kind, progress, outcome, library, target, plan, conv, failures, interrupted, losses>>

\* handle_convert's body for a book that is not in the library.
ConvertUnknown(b) ==
  /\ At("convert", b) /\ formats[b] = {} /\ conv = Idle
  /\ Settle("failed")
  /\ UNCHANGED <<library, target, plan, known, conv, failures, interrupted, losses>>

\* For one that is: whether it has the target is not asked.
ConvertBook(b) ==
  /\ At("convert", b) /\ formats[b] # {} /\ conv = Idle
  /\ progress' = [progress EXCEPT ![b] = "running"]
  /\ known' = formats[b]
  /\ Call(b, target)
  /\ UNCHANGED <<kind, todo, outcome, library, target, plan, failures, interrupted, losses>>

TakeConverted(b) ==
  /\ At("convert", b)
  /\ \/ conv.stage = "done" /\ Settle("done")
     \/ conv.stage = "no_source" /\ Settle("skipped")
     \/ conv.stage = "error" /\ Settle("failed")
  /\ conv' = Idle
  /\ known' = {}
  /\ UNCHANGED <<library, target, plan, failures, interrupted, losses>>

ConversionReturn ==
  /\ EndBatch
  /\ target' = NoFmt
  /\ UNCHANGED <<library, plan, known, conv, failures, interrupted, losses>>

-----------------------------------------------------------------------------
(* What ends a job midway. *)

\* The job leaves its loop at the book in hand, and what is left of its plan.
LeaveLoop ==
  /\ interrupted' = IF plan # <<>> THEN interrupted \cup {Head(todo)} ELSE interrupted
  /\ plan' = <<>>
  /\ known' = {}
  /\ target' = NoFmt
  /\ UNCHANGED <<failures, losses>>

\* The snapshot that begins both jobs raises, or db.get_book does.
ReadRaises ==
  /\ kind # "none" /\ todo # <<>> /\ conv = Idle
  /\ \/ /\ progress[Head(todo)] = "pending"
        /\ kind = "convert" \/ \A b \in Book : progress[b] \in {"none", "pending"}
     \/ plan = AutoconvertTargets
  /\ AbortBatch(progress[Head(todo)])
  /\ LeaveLoop
  /\ UNCHANGED <<library, conv>>

\* add_book raises before calibredb is at work, or after.
AddRaises(b) ==
  /\ Adding(b)
  /\ AbortBatch("running")
  /\ \/ LeaveLoop /\ UNCHANGED library
     \/ /\ \E f \in Fmt : Added(b, f)
        /\ interrupted' = interrupted \cup {b}
        /\ UNCHANGED <<target, plan, known, failures, losses>>
  /\ UNCHANGED conv

\* convert_book raises: looking up the source, in either program's run, or as it
\* removes its temporary folder.  A job that is no more is not told.
ConvertRaises ==
  /\ conv # Idle /\ conv.source # NoFmt
  /\ \/ UNCHANGED library
     \/ conv.stage = "adding" /\ Gain(conv.book, conv.target)
  /\ conv' = Idle
  /\ \/ kind # "none" /\ AbortBatch(progress[Head(todo)]) /\ LeaveLoop
     \/ kind = "none" /\ UNCHANGED <<batch, target, plan, known, failures, interrupted, losses>>

\* What calibredb may still do, or have done, for a job that is gone.
LastWrite ==
  \/ LeaveLoop /\ UNCHANGED library
  \/ /\ \E b \in Book, f \in Fmt : Adding(b) /\ Added(b, f)
     /\ interrupted' = interrupted \cup {Head(todo)}
     /\ UNCHANGED <<target, plan, known, failures, losses>>

\* Worker.stop() cancels the handler where it waits: the call it waits for goes
\* on in its thread to the end.
StopWorker ==
  /\ kind # "none"
  /\ BatchGone
  /\ LastWrite
  /\ UNCHANGED conv

\* The process is killed, and what calibredb was at is cut off.
Kill ==
  /\ kind # "none" \/ conv # Idle
  /\ BatchGone
  /\ conv' = Idle
  /\ \/ LastWrite
     \/ conv.stage = "adding" /\ Gain(conv.book, conv.target) /\ LeaveLoop

\* A file disappears from the book's folder.
LibraryLosesFile(b, f) ==
  /\ f \in files[b] /\ losses < MaxLosses
  /\ files' = [files EXCEPT ![b] = @ \ {f}]
  /\ losses' = losses + 1
  /\ UNCHANGED <<batch, formats, target, plan, known, conv, failures, interrupted>>

-----------------------------------------------------------------------------
ConvertBookThread == FindSource \/ EbookConvert \/ CheckOutput \/ AddFormat \/ AddFormatFails

ConversionNext ==
  \/ \E books \in Selection : BeginUpload(books)
  \/ \E books \in Selection, t \in ConvertTargets : BeginConvert(books, t)
  \/ \E b \in Book : \/ \E f \in Fmt : AddBook(b, f) \/ AddUnnoticed(b, f) \/ LibraryLosesFile(b, f)
                     \/ TakeUpload(b) \/ RefuseBook(b) \/ AddRaises(b)
                     \/ PassTarget(b) \/ Autoconvert(b) \/ TakeAutoconverted(b) \/ NextUpload(b)
                     \/ ConvertUnknown(b) \/ ConvertBook(b) \/ TakeConverted(b)
  \/ ConvertBookThread
  \/ ConversionReturn \/ ReadRaises \/ ConvertRaises \/ StopWorker \/ Kill

ConversionSpec == ConversionInit /\ [][ConversionNext]_conversionVars

-----------------------------------------------------------------------------
\* The targets _AUTOCONVERT_TARGETS promises "present on every uploaded book".
ReaderFormats == {"AZW3", "MOBI", "EPUB"}

Convertible(b) == formats[b] \cap (ReaderFormats \cup {"PDF"}) # {}

\* An uploaded book whose conversions are under way.
InHand(b) == At("upload", b) /\ progress[b] = "done"

\* Whatever order the conversions run in and whatever the uploaded format, a
\* convertible book ends with all the reader formats, for later targets may use
\* earlier results: unless a conversion failed, or the conversions were broken
\* off, which only a job that ended midway, or that reports the book as failed,
\* leaves behind.  A job that is done has settled every file or book, one that is
\* aborted has at most one that it shows as running for ever
\* (handlers.py:55-58, 112-142, 149-232; worker.py:117-129, 136-144).
AutoconvertCompletes ==
  /\ ConversionTypeOK /\ DoneJobsAreSettled
  /\ \A b, c \in Book : progress[b] = "running" /\ progress[c] = "running" => b = c
  /\ \A b \in Book : kind = "upload" /\ progress[b] = "done" => b \notin interrupted
  /\ \A b \in Book : Convertible(b) /\ b \notin failures \cup interrupted /\ ~InHand(b)
       => ReaderFormats \subseteq formats[b]

\* What a conversion reports is what it did, through all the ways it may fail:
\* only a whole output reaches calibredb; a book that a convert job reports as
\* failed or skipped has the formats it had when its conversion began, unless
\* calibredb itself failed halfway; one it reports as done has the target besides
\* (calibre_cli.py:479-508, handlers.py:215-230).
FailureLeavesBook ==
  [][/\ conv'.stage = "adding" => conv'.exit = 0 /\ conv'.output = "whole"
     /\ \A b \in Book : kind = "convert" /\ progress[b] = "running" /\ progress'[b] # "running" /\ kind' # "none" =>
          \/ progress'[b] = "done" /\ formats'[b] = known \cup {target}
          \/ progress'[b] \in {"failed", "skipped"} /\ (formats'[b] = known \/ conv.half)]_conversionVars
=============================================================================
