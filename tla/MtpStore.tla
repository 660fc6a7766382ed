------------------------------ MODULE MtpStore ------------------------------
(***************************************************************************)
(* What one call of app/services/mtp_helper.py does to the device, object  *)
(* by object: the blocking verbs inside _open_device, over the backend     *)
(* that drives libmtp (_CtypesBackend).  The device (external) keeps       *)
(* objects by id, so two may have one name; it can refuse any request, be  *)
(* unplugged at any moment, and its firmware leaves sentinels of its own.  *)
(* libmtp (external) answers a listing that fails like an empty folder,    *)
(* and leaves out an entry whose properties it cannot read.  That calls do *)
(* not overlap is the matter of Lifespan.                                  *)
(***************************************************************************)
EXTENDS FiniteSets, Naturals

CONSTANTS Id,    \* ids of objects
          Book   \* a book's name: of its file, and of its sidecar

VARIABLES libmtp,   \* libmtp.so.9 can be loaded
          loaded,   \* _backend has been constructed
          local,    \* the file to send is in place
          plugged,  \* a device that matches the filter is on the bus
          folders,  \* which of its two folders the device has
          objects,  \* what is stored under each id
          handle,   \* a device handle is open
          verb,     \* the running call, "none" between calls
          book,     \* its argument
          stage,    \* where it stands
          targets,  \* the objects it has yet to delete
          hit,      \* it has deleted one
          result,   \* of the last call; "crash" is no MTPHelperError
          missed,   \* history: a deletion of it was refused
          short,    \* history: one of its listings was not, or is no longer, complete
          gone,     \* history: its local file went away under it
          twice     \* history: the books stored while the device had them

world   == <<libmtp, local, plugged, folders>>
call    == <<verb, book, stage, targets, hit>>
history == <<missed, short, gone, twice>>
vars    == <<world, loaded, objects, handle, call, result, history>>

Folder  == {"documents", "thumbnails"}
Verb    == {"detect", "list", "send", "remove", "send_thumbnail", "remove_thumbnail"}
Free    == [folder |-> "none", book |-> "none", partial |-> FALSE]
Object  == [folder : Folder, book : Book, partial : BOOLEAN]

Flags ==
  /\ libmtp \in BOOLEAN /\ loaded \in BOOLEAN /\ local \in BOOLEAN /\ plugged \in BOOLEAN
  /\ handle \in BOOLEAN /\ hit \in BOOLEAN
  /\ missed \in BOOLEAN /\ short \in BOOLEAN /\ gone \in BOOLEAN

Storage ==
  /\ folders \subseteq Folder
  /\ objects \in [Id -> Object \cup {Free}]
  /\ targets \subseteq Id /\ twice \subseteq Book

CallTypes ==
  /\ verb \in Verb \cup {"none"} /\ book \in Book \cup {"none"}
  /\ stage \in {"idle", "check", "load", "open", "find", "scan", "delete", "put", "close"}
  /\ result \in {"none", "ok", "error", "crash"}
  /\ verb = "none" <=> stage = "idle"

TypeOK ==
  /\ Flags /\ Storage /\ CallTypes
  /\ loaded => libmtp
  /\ \A i \in targets : objects[i] # Free
  /\ targets # {} => stage = "delete" \/ result = "error"

Init ==
  /\ libmtp \in BOOLEAN /\ loaded = FALSE /\ local = TRUE
  /\ plugged = TRUE /\ folders \in SUBSET Folder
  /\ objects = [i \in Id |-> Free]
  /\ handle = FALSE
  /\ verb = "none" /\ book = "none" /\ stage = "idle"
  /\ targets = {} /\ hit = FALSE
  /\ result = "none"
  /\ missed = FALSE /\ short = FALSE /\ gone = FALSE /\ twice = {}

-----------------------------------------------------------------------------
(* The world. *)

PlugOrUnplug ==
  /\ plugged' = ~plugged
  /\ UNCHANGED <<libmtp, local, folders, loaded, objects, handle, call, result, history>>

\* The firmware fails to extract a cover: a .tmp.partial appears, which a call
\* that has done its listing does not know of.
LeaveSentinel(i, b) ==
  /\ "thumbnails" \in folders
  /\ objects[i] = Free
  /\ objects' = [objects EXCEPT ![i] = [folder |-> "thumbnails", book |-> b, partial |-> TRUE]]
  /\ short' = (short \/ (b = book /\ stage \in {"delete", "put", "close"}))
  /\ UNCHANGED <<world, loaded, handle, call, result, missed, gone, twice>>

\* The local file disappears: before the call, or under it.
LoseLocal ==
  /\ local
  /\ local' = FALSE
  /\ gone' = (verb # "none")
  /\ UNCHANGED <<libmtp, plugged, folders, loaded, objects, handle, call, result,
                 missed, short, twice>>

-----------------------------------------------------------------------------
(* The call. *)

\* Each call brings its own local file, if it has one.
Begin(v, b) ==
  /\ verb = "none"
  /\ verb' = v /\ book' = b /\ stage' = "check"
  /\ local' \in BOOLEAN
  /\ targets' = {} /\ hit' = FALSE
  /\ result' = "none"
  /\ missed' = FALSE /\ short' = FALSE /\ gone' = FALSE
  /\ UNCHANGED <<libmtp, plugged, folders, loaded, objects, handle, twice>>

Goto(s) == stage' = s /\ UNCHANGED <<verb, book>>

\* The call is over, but for closing the device if it is open.
Conclude(r) == Goto("close") /\ result' = r

Sends == verb \in {"send", "send_thumbnail"}

\* os.path.isfile
Check ==
  /\ stage = "check"
  /\ IF Sends /\ ~local THEN Conclude("error") ELSE Goto("load") /\ UNCHANGED result
  /\ UNCHANGED <<world, loaded, objects, handle, targets, hit, history>>

\* _get_backend, whose first call loads libmtp and raises OSError if it cannot.
LoadBackend ==
  /\ stage = "load"
  /\ loaded' = libmtp
  /\ IF libmtp THEN Goto("open") /\ UNCHANGED result ELSE Conclude("crash")
  /\ UNCHANGED <<world, objects, handle, targets, hit, history>>

\* _open_device: no device, none that matches, or libmtp opens none.
OpenDevice ==
  /\ stage = "open"
  /\ \/ /\ plugged /\ handle' = TRUE
        /\ IF verb = "detect" THEN Conclude("ok") ELSE Goto("find") /\ UNCHANGED result
     \/ UNCHANGED handle /\ Conclude(IF verb = "detect" THEN "ok" ELSE "error")
  /\ UNCHANGED <<world, loaded, objects, targets, hit, history>>

TargetFolder ==
  IF verb \in {"send_thumbnail", "remove_thumbnail"} THEN "thumbnails" ELSE "documents"

\* _find_folder_id through one listing, or two; one that fails finds nothing.
\* Then: what a verb makes of having no folder.
FindFolder ==
  /\ stage = "find"
  /\ \/ /\ plugged /\ TargetFolder \in folders
        /\ Goto(IF verb = "send" THEN "put" ELSE "scan")
        /\ UNCHANGED <<result, short>>
     \/ /\ Conclude(IF verb \in {"list", "remove_thumbnail"} THEN "ok" ELSE "error")
        /\ short' = (short \/ TargetFolder \in folders)
  /\ UNCHANGED <<world, loaded, objects, handle, targets, hit, missed, gone, twice>>

\* Mutant: the sentinels are not looked for.
MatchingExactly ==
  {i \in Id : objects[i].folder = TargetFolder /\ objects[i].book = book /\ ~objects[i].partial}

\* Mutant: any entry of the folder matches.
MatchingAnything == {i \in Id : objects[i].folder = TargetFolder}

\* The entries that carry the name, and for a sidecar also its sentinel.
Matching ==
  {i \in Id : /\ objects[i].folder = TargetFolder /\ objects[i].book = book
              /\ objects[i].partial => TargetFolder = "thumbnails"}

\* list_folder: what it may show of them.
Listings == IF plugged THEN SUBSET Matching ELSE {{}}

\* remove takes the first entry of the name, the sidecar verbs take them all.
Scan ==
  /\ stage = "scan"
  /\ \E shown \in Listings :
       /\ short' = (short \/ shown # Matching)
       /\ CASE verb = "list" -> Conclude("ok") /\ UNCHANGED targets
            [] verb = "remove" /\ shown = {} -> Conclude("error") /\ UNCHANGED targets
            [] verb = "remove" /\ shown # {} ->
                 Goto("delete") /\ UNCHANGED result /\ \E i \in shown : targets' = {i}
            [] OTHER -> Goto("delete") /\ UNCHANGED result /\ targets' = shown
  /\ UNCHANGED <<world, loaded, objects, handle, hit, missed, gone, twice>>

\* The bookkeeping of a copy that goes, or comes to be.
Held(f, b, p) == {i \in Id : objects[i] = [folder |-> f, book |-> b, partial |-> p]}

Delete(i) ==
  /\ stage = "delete" /\ i \in targets /\ plugged
  /\ objects' = [objects EXCEPT ![i] = Free]
  /\ targets' = targets \ {i}
  /\ hit' = TRUE
  /\ twice' = IF verb = "remove" /\ Held("documents", book, FALSE) = {i}
                THEN twice \ {book} ELSE twice
  /\ UNCHANGED <<world, loaded, handle, verb, book, stage, result, missed, short, gone>>

\* A refused deletion is passed over by the sidecar verbs, and ends remove.
DeleteFails(i) ==
  /\ stage = "delete" /\ i \in targets
  /\ targets' = targets \ {i}
  /\ missed' = TRUE
  /\ IF verb = "remove" THEN Conclude("error") ELSE UNCHANGED <<verb, book, stage, result>>
  /\ UNCHANGED <<world, loaded, objects, handle, hit, short, gone, twice>>

AllDeleted ==
  /\ stage = "delete" /\ targets = {}
  /\ IF verb = "send_thumbnail" THEN Goto("put") /\ UNCHANGED result ELSE Conclude("ok")
  /\ UNCHANGED <<world, loaded, objects, handle, targets, hit, history>>

\* Mutant: what libmtp returned is not looked at.
PutUnchecked(i) ==
  /\ stage = "put" /\ local /\ plugged
  /\ objects[i] = Free
  /\ objects' \in {objects, [objects EXCEPT ![i] =
                      [folder |-> TargetFolder, book |-> book, partial |-> FALSE]]}
  /\ Conclude("ok")
  /\ UNCHANGED <<world, loaded, handle, targets, hit, history>>

\* send_file stores the object, and fails if it gets no id for it.
Put(i) ==
  /\ stage = "put" /\ local /\ plugged
  /\ objects[i] = Free
  /\ objects' = [objects EXCEPT ![i] = [folder |-> TargetFolder, book |-> book, partial |-> FALSE]]
  /\ Conclude("ok") \/ Conclude("error")
  /\ twice' = IF verb = "send" /\ Held("documents", book, FALSE) # {}
                THEN twice \cup {book} ELSE twice
  /\ UNCHANGED <<world, loaded, handle, targets, hit, missed, short, gone>>

\* The device refuses the object, or is gone; or os.path.getsize finds no file.
PutFails ==
  /\ stage = "put"
  /\ Conclude(IF local THEN "error" ELSE "crash")
  /\ UNCHANGED <<world, loaded, objects, handle, targets, hit, history>>

\* Mutant: the device is not closed after an error.
CloseAfterSuccess ==
  /\ stage = "close"
  /\ handle' = (handle /\ result = "error")
  /\ stage' = "idle" /\ verb' = "none"
  /\ targets' = {}
  /\ UNCHANGED <<world, loaded, objects, book, hit, result, history>>

\* The finally of _open_device, and the call returns.
CloseDevice ==
  /\ stage = "close"
  /\ handle' = FALSE
  /\ stage' = "idle" /\ verb' = "none"
  /\ targets' = {}
  /\ UNCHANGED <<world, loaded, objects, book, hit, result, history>>

Next ==
  \/ PlugOrUnplug \/ LoseLocal
  \/ \E i \in Id : Delete(i) \/ DeleteFails(i) \/ Put(i) \/ \E b \in Book : LeaveSentinel(i, b)
  \/ \E v \in Verb, b \in Book : Begin(v, b)
  \/ Check \/ LoadBackend \/ OpenDevice \/ FindFolder \/ Scan
  \/ AllDeleted \/ PutFails \/ CloseDevice

Spec == Init /\ [][Next]_vars

-----------------------------------------------------------------------------
\* However a call ends, the device has been closed, and what it raises is an
\* MTPHelperError, the only exception its callers expect (handlers.py:277,
\* 325), unless libmtp is missing or the file to send went away under the call
\* (mtp_helper.py:145-152, 349, 423-431, 497).
HandleInv ==
  /\ TypeOK
  /\ verb = "none" => ~handle
  /\ result = "crash" => ~libmtp \/ gone

Ended(v, b) == stage = "close" /\ verb = v /\ book = b /\ result = "ok"

\* A sidecar that was sent is the only one of its book, and nothing blocks its
\* rendering: no earlier sidecar and no sentinel is left, unless the device
\* refused to delete or to list it, or left it after the listing.  A sidecar
\* removed is gone with its sentinel (mtp_helper.py:523-585).
SidecarsFollow ==
  \A b \in Book : ~missed /\ ~short =>
     /\ Ended("send_thumbnail", b) => /\ Cardinality(Held("thumbnails", b, FALSE)) = 1
                                      /\ Held("thumbnails", b, TRUE) = {}
     /\ Ended("remove_thumbnail", b) /\ "thumbnails" \in folders =>
          Held("thumbnails", b, FALSE) \cup Held("thumbnails", b, TRUE) = {}

\* A book that send reports is on the device, and one that remove reports is
\* not: unless it was sent while it was there, which MTP answers with a second
\* object of the name; remove takes the first (mtp_helper.py:495-520, 359-367).
ReportsHold ==
  \A b \in Book :
     /\ Ended("send", b) => Held("documents", b, FALSE) # {}
     /\ Ended("remove", b) /\ b \notin twice => Held("documents", b, FALSE) = {}

\* A call changes objects of its own book only, and no call but those on
\* sidecars touches the thumbnails, whatever the firmware leaves beside it
\* (mtp_helper.py:507-520, 536-547, 571-580).
OthersUntouched ==
  [][verb # "none" =>
       \A i \in Id : objects'[i] # objects[i] =>
          \/ objects[i] = Free /\ objects'[i].partial
          \/ \A o \in {objects[i], objects'[i]} \ {Free} : o.book = book /\ o.folder = TargetFolder]_vars
=============================================================================
