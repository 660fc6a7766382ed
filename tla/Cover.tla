------------------------------- MODULE Cover -------------------------------
(***************************************************************************)
(* One book's cover in a browser: app/routes/cover.py over get_cover_path  *)
(* of app/services/db.py, the validation of a cached answer by its ETag,   *)
(* and the covers that jobs write meanwhile.  The route looks at the       *)
(* database, at the file's existence, at its date and size (for the ETag)  *)
(* and at its content, one after the other.  Each write gives the file a   *)
(* new date, so that its ETag is the number of the version.                *)
(***************************************************************************)
EXTENDS Integers

CONSTANT MaxCovers   \* versions of the cover

ASSUME CoversAssumption == MaxCovers \in Nat \ {0}

VARIABLES flagged,   \* books.has_cover
          picture,   \* the version of cover.jpg, 0 if there is no file
          newest,    \* the last version written
          cached,    \* what the browser has: an ETag and the body under it
          serving,   \* the step the route takes next, or how it has answered
          etag,      \* the route's etag
          since,     \* history: the cover in place at the request's start, or 0
          lost       \* history: the file has been lost during the request

coverWorld == <<flagged, picture, newest>>
coverVars  == <<coverWorld, cached, serving, etag, since, lost>>

Nothing     == [kind |-> "nothing"]
Pictures    == [kind : {"picture"}, etag : 1..MaxCovers, body : 1..MaxCovers]
Placeholder == [kind |-> "placeholder"]

CoverTypeOK ==
  /\ flagged \in BOOLEAN /\ picture \in 0..MaxCovers /\ newest \in 0..MaxCovers
  /\ cached \in {Nothing, Placeholder} \cup Pictures
  /\ serving \in {"nothing", "row", "file", "stat", "open", "title", "ok", "error"}
  /\ etag \in 0..MaxCovers
  /\ since \in 0..MaxCovers /\ lost \in BOOLEAN
  /\ picture <= newest

CoverInit ==
  /\ picture \in 0..1 /\ newest = picture /\ flagged = (picture = 1)
  /\ cached = Nothing /\ serving = "nothing" /\ etag = 0
  /\ since = 0 /\ lost = FALSE

\* The browser asks, with the ETag it has, because its max-age is over.
AskCover ==
  /\ serving \in {"nothing", "ok", "error"}
  /\ serving' = "row"
  /\ since' = IF flagged THEN picture ELSE 0
  /\ lost' = FALSE
  /\ UNCHANGED <<coverWorld, cached, etag>>

Serve(step) == serving' = step /\ UNCHANGED <<coverWorld, since, lost>>

\* get_cover_path: the row of the book.
ReadRow ==
  /\ serving = "row"
  /\ Serve(IF flagged THEN "file" ELSE "title")
  /\ UNCHANGED <<cached, etag>>

\* get_cover_path: cover.exists().
FindFile ==
  /\ serving = "file"
  /\ Serve(IF picture # 0 THEN "stat" ELSE "title")
  /\ UNCHANGED <<cached, etag>>

\* mtime and size
EtagOfFile == picture

Validated == cached.kind = "picture" /\ cached.etag = EtagOfFile

\* cover_path.stat(), and 304 if the browser's ETag is still right.
StatFile ==
  /\ serving = "stat"
  /\ IF picture = 0
       THEN Serve("error") /\ UNCHANGED etag
       ELSE /\ Serve(IF Validated THEN "ok" ELSE "open")
            /\ etag' = EtagOfFile
  /\ UNCHANGED cached

\* Mutant: the content is read first, and the ETag then.
SendFileBeforeStat ==
  /\ serving = "open"
  /\ IF picture = 0
       THEN Serve("error") /\ UNCHANGED cached
       ELSE /\ Serve("ok")
            /\ cached' = [kind |-> "picture", etag |-> picture, body |-> etag]
  /\ UNCHANGED etag

\* FileResponse opens the file later on; the ETag stays.
SendFile ==
  /\ serving = "open"
  /\ IF picture = 0
       THEN Serve("error") /\ UNCHANGED cached
       ELSE /\ Serve("ok")
            /\ cached' = [kind |-> "picture", etag |-> etag, body |-> picture]
  /\ UNCHANGED etag

\* Without a cover: get_book for the title.  All the placeholders of a book
\* have one ETag, which confirms them whatever the title has become.
SendPlaceholder ==
  /\ serving = "title"
  /\ Serve("ok")
  /\ cached' = Placeholder
  /\ UNCHANGED etag

\* calibredb writes a cover, and then the row.
WriteCover ==
  /\ newest < MaxCovers
  /\ newest' = newest + 1 /\ picture' = newest'
  /\ UNCHANGED <<flagged, cached, serving, etag, since, lost>>

FlagCover ==
  /\ picture # 0 /\ ~flagged
  /\ flagged' = TRUE
  /\ UNCHANGED <<picture, newest, cached, serving, etag, since, lost>>

\* The file disappears from the library's folder.
LoseCover ==
  /\ picture # 0
  /\ picture' = 0
  /\ lost' = TRUE
  /\ UNCHANGED <<flagged, newest, cached, serving, etag, since>>

CoverNext ==
  \/ AskCover \/ ReadRow \/ FindFile \/ StatFile \/ SendFile \/ SendPlaceholder
  \/ WriteCover \/ FlagCover \/ LoseCover

-----------------------------------------------------------------------------
\* Once answered, the browser shows a cover at least as new as the one that was
\* in place when it asked, however writes fall between the route's reads: a
\* cover that has been replaced is never confirmed, and no placeholder stands
\* for a cover that was there all along.  A request fails, and a placeholder
\* takes a cover's place, only if the file goes away under it (cover.py:32-42,
\* db.py:292-298).
CoverFresh ==
  /\ CoverTypeOK
  /\ serving = "ok" =>
       \/ cached.kind = "picture" /\ cached.body >= since
       \/ cached = Placeholder /\ (since = 0 \/ lost)
  /\ serving = "error" => lost
=============================================================================
