------------------------------ MODULE Refresh ------------------------------
(***************************************************************************)
(* The job that refreshes metadata: handle_refresh of app/handlers.py over *)
(* refresh_metadata of app/services/calibre_cli.py, one step per call of a *)
(* Calibre program.  The books' metadata lives in the library, where the   *)
(* programs (external) read and write it; each of them may fail.  Nothing  *)
(* else writes it: the app is the only writer (docs/troubleshooting.md:15).*)
(***************************************************************************)
EXTENDS BatchJob

CONSTANTS Field,  \* the fields of _OPF_FIELDS
          Hints   \* those fetch-ebook-metadata can search by

ASSUME HintsAssumption == Hints \subseteq Field

VARIABLES meta,    \* where each field's value comes from
          cover,   \* where the cover comes from
          mode,    \* job.params["mode"]
          covers,  \* job.params["fetch_covers"]
          step,    \* the call that refresh_metadata makes next
          seen,    \* the fields that existing_opf shows
          found,   \* the fields the fetched OPF has
          image,   \* a cover has been fetched
          applied  \* cover_applied

job         == <<mode, covers>>
call        == <<step, seen, found, image, applied>>
refreshVars == <<batch, meta, cover, job, call>>

Source == {"blank", "own", "fetched"}

RefreshTypeOK ==
  /\ meta \in [Book -> [Field -> Source]] /\ cover \in [Book -> Source]
  /\ mode \in {"fill_blanks", "overwrite"} /\ covers \in BOOLEAN
  /\ step \in {"show", "fetch", "cover", "set"}
  /\ seen \subseteq Field /\ found \subseteq Field
  /\ image \in BOOLEAN /\ applied \in BOOLEAN
  /\ \A b \in Book : progress[b] \in BookState \cup {"none", "no_match", "error"}
  /\ image => covers
  /\ applied => image /\ step = "set"
  /\ step # "show" => todo # <<>>

RefreshInit ==
  /\ BatchInit
  /\ meta \in [Book -> [Field -> {"blank", "own"}]]
  /\ cover \in [Book -> {"blank", "own"}]
  /\ mode = "fill_blanks" /\ covers = FALSE
  /\ step = "show" /\ seen = {} /\ found = {} /\ image = FALSE /\ applied = FALSE

BeginRefresh(books, m, c) ==
  /\ BeginBatch("refresh", books)
  /\ mode' = m /\ covers' = c
  /\ UNCHANGED <<meta, cover, call>>

Present(b) == {f \in Field : meta[b][f] # "blank"}

\* Mutant: the cover of one book is kept for the next.
FinishWithImage(state) ==
  /\ Settle(state)
  /\ step' = "show" /\ seen' = {} /\ found' = {} /\ applied' = FALSE
  /\ UNCHANGED image

\* refresh_metadata returns, and the handler copies its state into the book's.
Finish(state) ==
  /\ Settle(state)
  /\ step' = "show" /\ seen' = {} /\ found' = {} /\ image' = FALSE /\ applied' = FALSE

\* show_metadata_opf: a failure, which nobody checks for, shows nothing.
Show(b) ==
  /\ At("refresh", b) /\ step = "show"
  /\ seen' \in {Present(b), {}}
  /\ step' = "fetch"
  /\ UNCHANGED <<batch, meta, cover, job, found, image, applied>>

\* The search finds a book, by what existing_opf says of title and authors.
FetchFinds(b) ==
  /\ At("refresh", b) /\ step = "fetch"
  /\ seen \cap Hints # {}
  /\ found' \in SUBSET Field
  /\ image' \in {FALSE, covers}
  /\ step' = "cover"
  /\ UNCHANGED <<batch, meta, cover, job, seen, applied>>

\* It finds none, or has nothing to search by, or fails.
FetchFails(b) ==
  /\ At("refresh", b) /\ step = "fetch"
  /\ \E state \in {"no_match", "error"} : Finish(state)
  /\ UNCHANGED <<meta, cover, job>>

\* set_cover, if the mode lets it; its failure leaves the cover as it is.
SetCover(b) ==
  /\ At("refresh", b) /\ step = "cover"
  /\ \/ /\ image /\ (mode = "overwrite" \/ cover[b] = "blank")
        /\ cover' = [cover EXCEPT ![b] = "fetched"]
        /\ applied' = TRUE
     \/ UNCHANGED <<cover, applied>>
  /\ step' = "set"
  /\ UNCHANGED <<batch, meta, job, seen, found, image>>

\* Mutant: the mode is not asked for.
ToApplyAlways == found

\* Mutant: the test on the fields present is the wrong way round.
ToApplySwapped == IF mode = "fill_blanks" THEN found \cap seen ELSE found

\* to_apply
ToApply == IF mode = "fill_blanks" THEN found \ seen ELSE found

\* set_metadata writes the fields, if there are any.
SetFields(b) ==
  /\ At("refresh", b) /\ step = "set"
  /\ meta' = [meta EXCEPT ![b] = [f \in Field |-> IF f \in ToApply THEN "fetched" ELSE @[f]]]
  /\ Finish("done")
  /\ UNCHANGED <<cover, job>>

SetFieldsFails(b) ==
  /\ At("refresh", b) /\ step = "set" /\ ToApply # {}
  /\ Finish("error")
  /\ UNCHANGED <<meta, cover, job>>

\* The snapshot that begins the job fails, and the job with it.
RefreshSnapshotFails ==
  /\ kind # "none" /\ todo # <<>> /\ step = "show"
  /\ \A b \in Book : progress[b] \in {"none", "pending"}
  /\ AbortBatch("pending")
  /\ UNCHANGED <<meta, cover, job, call>>

RefreshReturn == EndBatch /\ UNCHANGED <<meta, cover, job, call>>

RefreshNext ==
  \/ \E books \in Selection, m \in {"fill_blanks", "overwrite"}, c \in BOOLEAN : BeginRefresh(books, m, c)
  \/ \E b \in Book : \/ Show(b) \/ FetchFinds(b) \/ FetchFails(b)
                     \/ SetCover(b) \/ SetFields(b) \/ SetFieldsFails(b)
  \/ RefreshSnapshotFails \/ RefreshReturn

RefreshSpec == RefreshInit /\ [][RefreshNext]_refreshVars

-----------------------------------------------------------------------------
\* Filling blanks never replaces a field or a cover that a book has, not even
\* when show_metadata fails and all its fields look blank: without the title
\* and authors there is nothing to search by (calibre_cli.py:174-182, 282-296).
FillBlanksKeeps ==
  [][mode = "fill_blanks" =>
       \A b \in Book : /\ \A f \in Present(b) : meta'[b][f] = meta[b][f]
                       /\ cover[b] # "blank" => cover'[b] = cover[b]]_refreshVars

\* What is reported of a book tells what became of it: its fields change only
\* in the step that reports it done, and then it has every field that was found
\* for it; no cover has been applied to a book that has no match.  A book whose
\* fields could not be set says error, with a new cover or not
\* (calibre_cli.py:252-254, 282-321).
OutcomeTellsFields ==
  [][\A b \in Book :
       /\ meta'[b] # meta[b] => progress'[b] = "done"
       /\ At("refresh", b) /\ progress'[b] # progress[b] =>
            /\ progress'[b] = "done" => \A f \in found : meta'[b][f] # "blank"
            /\ progress'[b] = "no_match" => ~applied]_refreshVars
=============================================================================
