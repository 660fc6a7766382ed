----------------------------- MODULE DeviceJobs -----------------------------
(***************************************************************************)
(* The jobs that send books to the device and remove them: handle_send and *)
(* handle_remove of app/handlers.py with the names they give a book's file *)
(* on the device, its badge (app/services/device.py) and the sidecar tile  *)
(* of its cover, which is named after the identity of the one file it is   *)
(* read from.  The device is attached; how its absence, the poller and the *)
(* listing meet the transfers is in DeviceSync.                            *)
(***************************************************************************)
EXTENDS Formats, BatchJob

CONSTANTS
  Stem,            \* data.name: the file name of a book in the library, bare
  Title,           \* books.title
  DeviceOrder,     \* Settings.device_format_order
  Libraries,       \* the format sets each book may start with
  Identity,        \* EXTH 113 and 501: what a conversion may write into its output
  Damaged,         \* the books whose MOBI and AZW3 files break off in the header
  MaxChanges       \* bound: changes of the library under the device's feet

ASSUME NamesAssumption   == DOMAIN Stem = Book /\ DOMAIN Title = Book
ASSUME OrderAssumption   == DeviceOrder \in Seq(STRING)
ASSUME LibraryAssumption == Libraries \in [Book -> SUBSET SUBSET Fmt]
ASSUME FaultAssumption   == Damaged \subseteq Book /\ MaxChanges \in Nat

VARIABLES device,   \* the names in the device's documents folder
          cache,    \* state.on_device_filenames
          tiles,    \* the sidecars in system/thumbnails, by book and identity
          identity, \* that of each book's AZW3 and MOBI file in the library
          changes,  \* how often the library has changed
          sentAs,   \* history: the name a book was last sent under, if it is there
          strayed,  \* history: the books whose copy may be out of reach
          orphaned  \* history: those one of whose sidecars may be

libraryVars    == <<formats, files, identity, changes>>
deviceVars     == <<device, cache, tiles, sentAs, strayed, orphaned>>
deviceJobsVars == <<batch, libraryVars, deviceVars>>

FileName(b, f) == [stem |-> Stem[b], ext |-> f]
NoName         == [stem |-> "none", ext |-> NoFmt]
Names          == {FileName(b, f) : b \in Book, f \in Fmt}

\* What read_mobi_identity finds where a record is missing.
NoIdentity == "none"
ASSUME IdentityAssumption == NoIdentity \notin Identity

DeviceJobsTypeOK ==
  /\ formats \in [Book -> SUBSET Fmt] /\ files \in [Book -> SUBSET Fmt]
  /\ identity \in [Book -> [MobiFamily -> Identity \cup {NoIdentity}]]
  /\ device \subseteq Names /\ cache \subseteq Names /\ tiles \subseteq Book \X Identity
  /\ sentAs \in [Book -> Names \cup {NoName}]
  /\ changes \in 0..MaxChanges /\ strayed \subseteq Book /\ orphaned \subseteq Book
  /\ BookStatesDeclared

DeviceJobsInit ==
  /\ BatchInit
  /\ formats \in [Book -> SUBSET Fmt] /\ \A b \in Book : formats[b] \in Libraries[b]
  /\ files = formats
  /\ identity \in [Book -> [MobiFamily -> Identity \cup {NoIdentity}]]
  /\ \A b \in Book : \A f \in MobiFamily \ formats[b] : identity[b][f] = NoIdentity
  /\ device = {} /\ cache = {} /\ tiles = {}
  /\ sentAs = [b \in Book |-> NoName]
  /\ changes = 0 /\ strayed = {} /\ orphaned = {}

BeginDeviceJob(k, books) == BeginBatch(k, books) /\ UNCHANGED <<libraryVars, deviceVars>>

\* The first half of _device_filename: the format for the device.
Choice(b) == FirstOf(DeviceOrder, formats[b])

\* The loop stands at a book it has not decided on ...
Deciding(k, b) == At(k, b) /\ progress[b] = "pending"
\* ... or has transferred, and turns to its sidecar.
AtTile(k, b) == At(k, b) /\ progress[b] = "done"

\* Mutant: the loop goes on without giving the book a state.
PassOverSilently(k, b) ==
  /\ Deciding(k, b)
  /\ Choice(b) = NoFmt
  /\ todo' = Tail(todo)
  /\ UNCHANGED <<kind, progress, outcome, libraryVars, deviceVars>>

\* A book the library does not know, or has no format of for the device.
PassOver(k, b) ==
  /\ Deciding(k, b)
  /\ Choice(b) = NoFmt
  /\ Settle(IF formats[b] = {} THEN "failed" ELSE "skipped")
  /\ UNCHANGED <<libraryVars, deviceVars>>

\* The transfer is done: the book is, and the loop stays for the sidecar.
Done(b) ==
  /\ progress' = [progress EXCEPT ![b] = "done"]
  /\ UNCHANGED <<kind, todo, outcome>>

-----------------------------------------------------------------------------
(* handle_send *)

SentName(b) == FileName(b, DeviceFormat(Choice(b)))

SendMissing(b) ==
  /\ Deciding("send", b)
  /\ Choice(b) # NoFmt /\ Choice(b) \notin files[b]
  /\ Settle("failed")
  /\ UNCHANGED <<libraryVars, deviceVars>>

\* The conversion or the transfer fails; the file may have arrived.
SendFails(b) ==
  /\ Deciding("send", b) /\ Choice(b) \in files[b]
  /\ Settle("failed")
  /\ device' \in {device, device \cup {SentName(b)}}
  /\ UNCHANGED <<libraryVars, cache, tiles, sentAs, strayed, orphaned>>

SendFile(b) ==
  /\ Deciding("send", b) /\ Choice(b) \in files[b]
  /\ device' = device \cup {SentName(b)}
  /\ cache' = cache \cup {SentName(b)}
  /\ sentAs' = [sentAs EXCEPT ![b] = SentName(b)]
  /\ Done(b)
  /\ UNCHANGED <<libraryVars, tiles, strayed, orphaned>>

\* The header that read_mobi_identity reads for the book's sidecar breaks off.
Breaks(b) == b \in Damaged /\ Choice(b) \in files[b] \cap MobiFamily

\* read_mobi_identity of the library's file for the device.
LibraryIdentity(b) ==
  IF Choice(b) \in files[b] \cap MobiFamily THEN identity[b][Choice(b)] ELSE NoIdentity

\* That of the file sent: of an EPUB it was an AZW3 converted for this one send.
SentIdentities(b) ==
  IF Choice(b) = "EPUB" THEN Identity ELSE {LibraryIdentity(b)} \cap Identity

\* _upload_kindle_thumbnail: there may be no cover, and any failure is quiet.
UploadTile(b) ==
  /\ AtTile("send", b)
  /\ Settle("done")
  /\ \/ ~Breaks(b) /\ \E id \in SentIdentities(b) : tiles' = tiles \cup {<<b, id>>}
     \/ UNCHANGED tiles
  /\ UNCHANGED <<libraryVars, device, cache, sentAs, strayed, orphaned>>

-----------------------------------------------------------------------------
(* handle_remove *)

\* Mutant: the name looked for has the chosen format's own extension.
DestNameRaw(b) ==
  [stem |-> IF Choice(b) \in files[b] THEN Stem[b] ELSE Title[b], ext |-> Choice(b)]

\* The name it looks for; without the library file it falls back to the title.
DestName(b) ==
  [stem |-> IF Choice(b) \in files[b] THEN Stem[b] ELSE Title[b],
   ext  |-> DeviceFormat(Choice(b))]

RemoveFails(b) ==
  /\ Deciding("remove", b) /\ Choice(b) # NoFmt
  /\ \/ DestName(b) \notin device /\ UNCHANGED device
     \/ device' \in {device, device \ {DestName(b)}}
  /\ Settle("failed")
  /\ UNCHANGED <<libraryVars, cache, tiles, sentAs, strayed, orphaned>>

Deleted(b) ==
  /\ device' = device \ {DestName(b)}
  /\ sentAs' = [sentAs EXCEPT ![b] = IF @ = DestName(b) THEN NoName ELSE @]

\* Mutant: the cache is left to the next listing.
RemoveFileQuietly(b) ==
  /\ Deciding("remove", b) /\ Choice(b) # NoFmt
  /\ DestName(b) \in device
  /\ Deleted(b)
  /\ IF Choice(b) \in files[b] THEN Done(b) ELSE Settle("done")
  /\ UNCHANGED <<libraryVars, cache, tiles, strayed, orphaned>>

RemoveFile(b) ==
  /\ Deciding("remove", b) /\ Choice(b) # NoFmt
  /\ DestName(b) \in device
  /\ Deleted(b)
  /\ cache' = cache \ {DestName(b)}
  /\ IF Choice(b) \in files[b] THEN Done(b) ELSE Settle("done")
  /\ UNCHANGED <<libraryVars, tiles, strayed, orphaned>>

\* Mutant: the sidecar is left behind.
RemoveNoTile(b) ==
  /\ AtTile("remove", b) /\ ~Breaks(b)
  /\ Settle("done")
  /\ UNCHANGED <<libraryVars, deviceVars>>

\* _remove_kindle_thumbnail: the identity is read from the library's file, and
\* a deletion that fails is quiet.
RemoveTile(b) ==
  /\ AtTile("remove", b) /\ ~Breaks(b)
  /\ Settle("done")
  /\ \/ tiles' = tiles \ {<<b, LibraryIdentity(b)>>} /\ UNCHANGED orphaned
     \/ /\ LibraryIdentity(b) # NoIdentity
        /\ orphaned' = orphaned \cup {b} /\ UNCHANGED tiles
  /\ UNCHANGED <<libraryVars, device, cache, sentAs, strayed>>

-----------------------------------------------------------------------------
\* read_mobi_identity raises struct.error on a header that breaks off, and
\* nothing on the way out of the handler catches it.
IdentityRaises(b) ==
  /\ AtTile("send", b) \/ AtTile("remove", b)
  /\ Breaks(b)
  /\ AbortBatch("done")
  /\ UNCHANGED <<libraryVars, deviceVars>>

\* The transfer raises what is no MTPHelperError: libmtp cannot be loaded, or
\* the file to send goes away under mtp_helper (MtpStore's "crash").
TransferRaises(b) ==
  /\ \/ Deciding("send", b) /\ Choice(b) \in files[b]
     \/ Deciding("remove", b) /\ Choice(b) # NoFmt
  /\ AbortBatch("running")
  /\ UNCHANGED <<libraryVars, deviceVars>>

DeviceJobsReturn == EndBatch /\ UNCHANGED <<libraryVars, deviceVars>>

\* The library changes under a book: the name its file is looked for on the device
\* may be another now, and so may the sidecar.
Strays(b, really) ==
  strayed' = IF really /\ sentAs[b] # NoName THEN strayed \cup {b} ELSE strayed
Orphans(b) ==
  orphaned' = IF \E id \in Identity \ {LibraryIdentity(b)'} : <<b, id>> \in tiles
                THEN orphaned \cup {b} ELSE orphaned

\* Between device jobs a conversion adds a format, or replaces the one there is;
\* its output has an identity of its own, or that of its source.
GainFormat(b, f) ==
  /\ kind = "none"
  /\ f \in ConvertTargets /\ PickSource(formats[b], f) \in files[b]
  /\ changes < MaxChanges
  /\ changes' = changes + 1
  /\ formats' = [formats EXCEPT ![b] = @ \cup {f}]
  /\ files' = [files EXCEPT ![b] = @ \cup {f}]
  /\ \/ f \in MobiFamily /\ \E id \in Identity : identity' = [identity EXCEPT ![b][f] = id]
     \/ f \notin MobiFamily /\ UNCHANGED identity
  /\ Strays(b, DeviceFormat(Choice(b)') # DeviceFormat(Choice(b)))
  /\ Orphans(b)
  /\ UNCHANGED <<batch, device, cache, tiles, sentAs>>

\* A file disappears from the library's folder; if it is the one that the names
\* are taken from, the book strays.
LoseFile(b, f) ==
  /\ f \in files[b]
  /\ changes < MaxChanges
  /\ changes' = changes + 1
  /\ files' = [files EXCEPT ![b] = @ \ {f}]
  /\ UNCHANGED <<batch, formats, identity, device, cache, tiles, sentAs>>
  /\ Strays(b, f = Choice(b))
  /\ Orphans(b)

Send(b)   == SendMissing(b) \/ SendFails(b) \/ SendFile(b) \/ UploadTile(b)
Remove(b) == RemoveFails(b) \/ RemoveFile(b) \/ RemoveTile(b)

DeviceJobsNext ==
  \/ \E k \in {"send", "remove"}, books \in Selection : BeginDeviceJob(k, books)
  \/ \E b \in Book : \/ \E k \in {"send", "remove"} : PassOver(k, b)
                     \/ Send(b) \/ Remove(b) \/ IdentityRaises(b) \/ TransferRaises(b)
                     \/ \E f \in Fmt : GainFormat(b, f) \/ LoseFile(b, f)
  \/ DeviceJobsReturn

DeviceJobsSpec == DeviceJobsInit /\ [][DeviceJobsNext]_deviceJobsVars

-----------------------------------------------------------------------------
\* A job that is done has settled each of its books, and no send leaves an EPUB
\* on the device, whose indexer skips them: not even of a book that has nothing
\* else, and not when a call fails (handlers.py:234-337).
JobInv ==
  /\ DeviceJobsTypeOK
  /\ DoneJobsAreSettled
  /\ \A name \in device : name.ext # "EPUB"

\* handle_remove looks for the name that handle_send used: "they must agree on
\* the filename or remove will target the wrong dest_name" (handlers.py:42-43).
\* They do, also for EPUBs and whatever fails, unless the library has changed
\* since in what the names are taken from.
HandlersAgreeOnName ==
  \A b \in Book \ strayed : sentAs[b] # NoName => DestName(b) = sentAs[b]

\* books_on_device: a book is badged if a file of one of its formats is there.
Badged(b) == \E f \in formats[b] : FileName(b, f) \in cache

\* When no two books have one file name, a book sent in a format of its own is
\* badged from then on, and the badge of a book clears when it has been removed
\* (README.md:80-81, handlers.py:272-279, 322-323, device.py:195-204).
BadgesFollow ==
  \A b \in Book :
     /\ AtTile("send", b) /\ Choice(b) # "EPUB" => Badged(b)
     /\ AtTile("remove", b) /\ b \notin strayed => ~Badged(b)

\* When the removal of a book with a Kindle format of its own is over, none of its
\* sidecars is left, whatever became of the sends before it: unless a sidecar was
\* of a file that the library no longer has for it, because a conversion or a loss
\* has replaced it since, or an EPUB's passing AZW3 was sent, or a deletion failed
\* (handlers.py:72-76, 97-109, 258-270, 330-335).
NativeTileGoes ==
  \A b \in Book \ orphaned :
     kind = "remove" /\ progress[b] = "done" /\ ~Chosen(todo, b) /\ Choice(b) \in MobiFamily
       => \A id \in Identity : <<b, id>> \notin tiles
=============================================================================
