--------------------------- MODULE MtpStoreProofs ---------------------------
(***************************************************************************)
(* Theorems about MtpStore for every set of books and of object ids, every *)
(* refusal of the device and every unplugging: how a call may end, what it *)
(* may touch, and that what it reports is so on the device.                *)
(***************************************************************************)
EXTENDS MtpStore, FiniteSetTheorems, TLAPS

USE DEF world, call, history, vars

\* Where each verb may stand, and what its local file and its result may be there.
CallInv ==
  /\ verb # "none" => book \in Book
  /\ stage \notin {"close", "idle"} => result = "none"
  /\ stage = "find" => verb # "detect"
  /\ stage = "scan" => verb \notin {"detect", "send"}
  /\ stage = "delete" => verb \in {"remove", "send_thumbnail", "remove_thumbnail"}
  /\ stage = "put" => Sends
  /\ stage = "idle" => ~handle
  /\ gone => ~local
  /\ Sends /\ ~local /\ stage \notin {"idle", "check", "close"} => gone
  /\ result = "crash" => ~libmtp \/ gone

\* A book that was never stored on top of itself has one object at most.
OneObject == \A b \in Book \ twice : \A i, k \in Held("documents", b, FALSE) : i = k

\* What the call has yet to delete is the book's, and once nothing was left out of
\* a listing or refused it is all that is the book's.
TargetInv ==
  /\ stage = "delete" => targets \subseteq Matching
  /\ stage = "delete" /\ verb # "remove" /\ ~missed /\ ~short => Matching \subseteq targets
  /\ stage = "delete" /\ verb = "remove" =>
       /\ \A i, k \in targets : i = k
       /\ targets = {} /\ book \notin twice => Held("documents", book, FALSE) = {}
  /\ stage = "put" /\ verb = "send_thumbnail" /\ ~missed /\ ~short => Matching = {}

\* What is so on the device when a call has come to its end.
EndInv ==
  /\ Ended("send", book) => Held("documents", book, FALSE) # {}
  /\ Ended("remove", book) /\ book \notin twice => Held("documents", book, FALSE) = {}
  /\ Ended("send_thumbnail", book) /\ ~missed /\ ~short =>
       \E i \in Id : Held("thumbnails", book, FALSE) = {i} /\ Held("thumbnails", book, TRUE) = {}
  /\ Ended("remove_thumbnail", book) /\ ~missed /\ ~short /\ "thumbnails" \in folders =>
       Matching = {}

StoreInv == TypeOK /\ CallInv /\ OneObject /\ TargetInv /\ EndInv

-----------------------------------------------------------------------------
(* Types. *)

LEMMA FlagsStep == Flags /\ [Next]_vars => Flags'
<1> SUFFICES ASSUME Flags, [Next]_vars PROVE Flags'
  OBVIOUS
<1> USE DEF Flags
<1>1. CASE UNCHANGED vars \/ PlugOrUnplug \/ LoseLocal
  BY <1>1 DEF PlugOrUnplug, LoseLocal
<1>2. ASSUME NEW v \in Verb, NEW b \in Book, Begin(v, b) PROVE Flags'
  BY <1>2 DEF Begin
<1>3. CASE Check \/ LoadBackend \/ OpenDevice
  BY <1>3 DEF Check, LoadBackend, OpenDevice
<1>4. CASE FindFolder \/ Scan
  BY <1>4 DEF FindFolder, Scan
<1>5. ASSUME NEW i \in Id, Delete(i) \/ DeleteFails(i) \/ Put(i) PROVE Flags'
  BY <1>5 DEF Delete, DeleteFails, Put
<1>6. CASE AllDeleted \/ PutFails \/ CloseDevice
  BY <1>6 DEF AllDeleted, PutFails, CloseDevice
<1>7. ASSUME NEW i \in Id, NEW b \in Book, LeaveSentinel(i, b) PROVE Flags'
  BY <1>7 DEF LeaveSentinel
<1>. QED
  BY <1>1, <1>2, <1>3, <1>4, <1>5, <1>6, <1>7 DEF Next

LEMMA CallTypesStep == CallTypes /\ [Next]_vars => CallTypes'
<1> SUFFICES ASSUME CallTypes, [Next]_vars PROVE CallTypes'
  OBVIOUS
<1> USE DEF CallTypes, Verb, Goto, Conclude
<1>1. CASE UNCHANGED <<verb, book, stage, result>>
  BY <1>1
<1>2. ASSUME NEW v \in Verb, NEW b \in Book, Begin(v, b) PROVE CallTypes'
  BY <1>2 DEF Begin
<1>3. CASE Check \/ LoadBackend \/ OpenDevice
  BY <1>3 DEF Check, LoadBackend, OpenDevice
<1>4. CASE FindFolder
  BY <1>4 DEF FindFolder
<1>5. CASE Scan \/ AllDeleted
  BY <1>5 DEF Scan, AllDeleted
<1>6. ASSUME NEW i \in Id, DeleteFails(i) \/ Put(i) PROVE CallTypes'
  BY <1>6 DEF DeleteFails, Put
<1>7. CASE PutFails \/ CloseDevice
  BY <1>7 DEF PutFails, CloseDevice
<1>. QED
  BY <1>1, <1>2, <1>3, <1>4, <1>5, <1>6, <1>7
  DEF Next, PlugOrUnplug, LoseLocal, LeaveSentinel, Delete

\* The objects a call sees are objects of the folder it works in.
LEMMA MatchingObjects ==
  /\ Matching \subseteq Id
  /\ \A i \in Matching : objects[i] # Free
BY DEF Matching, TargetFolder, Free

LEMMA StorageStep == Storage /\ CallTypes /\ CallInv /\ [Next]_vars => Storage'
<1> SUFFICES ASSUME Storage, CallTypes, CallInv, [Next]_vars PROVE Storage'
  OBVIOUS
<1> USE DEF Storage
<1>1. CASE UNCHANGED <<folders, objects, targets, twice>>
  BY <1>1
<1>2. ASSUME NEW v \in Verb, NEW b \in Book, Begin(v, b) PROVE Storage'
  BY <1>2 DEF Begin
<1>3. ASSUME NEW i \in Id, NEW b \in Book, LeaveSentinel(i, b) PROVE Storage'
  <2>1. [folder |-> "thumbnails", book |-> b, partial |-> TRUE] \in Object
    BY DEF Object, Folder
  <2>. QED BY <1>3, <2>1 DEF LeaveSentinel
<1>4. CASE Scan
  <2>1. targets' \subseteq Matching \/ targets' = targets
    BY <1>4 DEF Scan, Listings
  <2>. QED BY <1>4, <2>1, MatchingObjects DEF Scan
<1>5. ASSUME NEW i \in Id, Delete(i) \/ DeleteFails(i) PROVE Storage'
  BY <1>5 DEF Delete, DeleteFails
<1>6. ASSUME NEW i \in Id, Put(i) PROVE Storage'
  <2>1. book \in Book
    BY <1>6 DEF Put, CallTypes, CallInv
  <2>2. [folder |-> TargetFolder, book |-> book, partial |-> FALSE] \in Object
    BY <2>1 DEF Object, Folder, TargetFolder
  <2>. QED BY <1>6, <2>1, <2>2 DEF Put
<1>7. CASE CloseDevice
  BY <1>7 DEF CloseDevice
<1>. QED
  BY <1>1, <1>2, <1>3, <1>4, <1>5, <1>6, <1>7
  DEF Next, PlugOrUnplug, LoseLocal, Check, LoadBackend, OpenDevice, FindFolder,
      AllDeleted, PutFails

\* Each verb goes its own way through the stages.
LEMMA CallInvStep == CallTypes /\ CallInv /\ [Next]_vars => CallInv'
<1> SUFFICES ASSUME CallTypes, CallInv, [Next]_vars PROVE CallInv'
  OBVIOUS
<1> USE DEF CallTypes, CallInv, Sends, Goto, Conclude
<1>1. CASE UNCHANGED <<call, result, local, gone, handle, libmtp>>
  BY <1>1
<1>2. ASSUME NEW v \in Verb, NEW b \in Book, Begin(v, b) PROVE CallInv'
  BY <1>2 DEF Begin, Verb
<1>3. CASE PlugOrUnplug
  BY <1>3 DEF PlugOrUnplug
<1>12. CASE LoseLocal
  <2>1. UNCHANGED <<call, result, handle, libmtp>> /\ ~local' /\ ~gone
    BY <1>12 DEF LoseLocal
  <2>2. gone' <=> stage # "idle"
    BY <1>12 DEF LoseLocal
  <2>. QED BY <2>1, <2>2
<1>4. CASE Check
  BY <1>4 DEF Check
<1>5. CASE LoadBackend \/ OpenDevice
  BY <1>5 DEF LoadBackend, OpenDevice
<1>6. CASE FindFolder
  BY <1>6 DEF FindFolder, Verb
<1>7. CASE Scan
  BY <1>7 DEF Scan, Verb
<1>8. ASSUME NEW i \in Id, Delete(i) \/ DeleteFails(i) \/ Put(i) PROVE CallInv'
  <2>1. CASE Delete(i)
    BY <2>1 DEF Delete
  <2>2. CASE DeleteFails(i)
    BY <2>2 DEF DeleteFails
  <2>3. CASE Put(i)
    BY <2>3 DEF Put
  <2>. QED BY <1>8, <2>1, <2>2, <2>3
<1>9. CASE AllDeleted
  BY <1>9 DEF AllDeleted
<1>10. CASE PutFails \/ CloseDevice
  BY <1>10 DEF PutFails, CloseDevice
<1>11. ASSUME NEW i \in Id, NEW b \in Book, LeaveSentinel(i, b) PROVE CallInv'
  BY <1>11 DEF LeaveSentinel
<1>. QED
  BY <1>1, <1>2, <1>3, <1>4, <1>5, <1>6, <1>7, <1>8, <1>9, <1>10, <1>11, <1>12 DEF Next

\* Targets are what a listing showed, and there is none before or after the deletions.
LEMMA TypeStep == TypeOK /\ CallInv /\ [Next]_vars => TypeOK'
<1> SUFFICES ASSUME TypeOK, CallInv, [Next]_vars PROVE TypeOK'
  OBVIOUS
<1>1. Flags' /\ CallTypes' /\ Storage'
  BY FlagsStep, CallTypesStep, StorageStep DEF TypeOK
<1>2. (loaded => libmtp)'
  <2>1. CASE LoadBackend
    BY <2>1 DEF LoadBackend, TypeOK, Flags
  <2>2. CASE ~LoadBackend
    <3>1. UNCHANGED <<loaded, libmtp>>
      BY <2>2 DEF Next, PlugOrUnplug, LoseLocal, Delete, DeleteFails, Put, LeaveSentinel, Begin, Check,
         OpenDevice, FindFolder, Scan, AllDeleted, PutFails, CloseDevice
    <3>. QED BY <3>1 DEF TypeOK
  <2>. QED BY <2>1, <2>2
<1>3. (\A i \in targets : objects[i] # Free)'
  <2>1. CASE UNCHANGED <<objects, targets>> \/ targets' = {}
    BY <2>1 DEF TypeOK
  <2>2. CASE Scan
    BY <2>2, MatchingObjects DEF Scan, Listings, TypeOK
  <2>3. ASSUME NEW i \in Id, Delete(i) \/ DeleteFails(i) PROVE \A k \in targets' : objects'[k] # Free
    BY <2>3 DEF Delete, DeleteFails, TypeOK, Storage
  <2>4. ASSUME NEW i \in Id, Put(i) PROVE \A k \in targets' : objects'[k] # Free
    <3>1. i \notin targets /\ UNCHANGED targets
      BY <2>4 DEF Put, TypeOK
    <3>2. \A k \in Id \ {i} : objects'[k] = objects[k]
      BY <2>4 DEF Put, TypeOK, Storage
    <3>. QED BY <3>1, <3>2 DEF TypeOK, Storage
  <2>5. ASSUME NEW i \in Id, NEW b \in Book, LeaveSentinel(i, b)
        PROVE \A k \in targets' : objects'[k] # Free
    <3>1. i \notin targets /\ UNCHANGED targets
      BY <2>5 DEF LeaveSentinel, TypeOK
    <3>2. \A k \in Id \ {i} : objects'[k] = objects[k]
      BY <2>5 DEF LeaveSentinel, TypeOK, Storage
    <3>. QED BY <3>1, <3>2 DEF TypeOK, Storage
  <2>. QED
    BY <2>1, <2>2, <2>3, <2>4, <2>5
    DEF Next, PlugOrUnplug, LoseLocal, Begin, Check, LoadBackend, OpenDevice, FindFolder,
        AllDeleted, PutFails, CloseDevice
<1>4. (targets # {} => stage = "delete" \/ result = "error")'
  <2> USE DEF TypeOK, CallInv, Goto, Conclude
  <2>1. CASE UNCHANGED <<targets, stage, result>> \/ targets' = {} \/ stage' = "delete"
    BY <2>1
  <2>2. CASE Check \/ LoadBackend \/ OpenDevice
    BY <2>2 DEF Check, LoadBackend, OpenDevice
  <2>3. CASE FindFolder \/ Scan
    BY <2>3 DEF FindFolder, Scan
  <2>4. ASSUME NEW i \in Id, Delete(i) \/ DeleteFails(i) \/ Put(i)
        PROVE targets' # {} => stage' = "delete" \/ result' = "error"
    BY <2>4 DEF Delete, DeleteFails, Put
  <2>5. CASE AllDeleted \/ PutFails
    BY <2>5 DEF AllDeleted, PutFails
  <2>. QED
    BY <2>1, <2>2, <2>3, <2>4, <2>5 DEF Next, PlugOrUnplug, LoseLocal, LeaveSentinel, Begin, CloseDevice
<1>. QED BY <1>1, <1>2, <1>3, <1>4 DEF TypeOK

-----------------------------------------------------------------------------
(* What is on the device. *)

\* The objects of the book that a verb sees, as the properties name them.
LEMMA MatchingHeld ==
  ASSUME Storage
  PROVE  /\ TargetFolder = "documents" => Matching = Held("documents", book, FALSE)
         /\ TargetFolder = "thumbnails" =>
              Matching = Held("thumbnails", book, FALSE) \cup Held("thumbnails", book, TRUE)
<1>1. ASSUME NEW i \in Id, NEW f \in Folder, NEW p \in BOOLEAN
      PROVE (objects[i] = [folder |-> f, book |-> book, partial |-> p])
              <=> (objects[i].folder = f /\ objects[i].book = book /\ objects[i].partial = p)
  <2>1. CASE objects[i] = Free
    <3>1. objects[i].folder # f
      BY <2>1, <1>1 DEF Free, Folder
    <3>2. [folder |-> f, book |-> book, partial |-> p].folder = f
      OBVIOUS
    <3>. QED BY <3>1, <3>2
  <2>2. CASE objects[i] \in Object
    BY <2>2 DEF Object
  <2>. QED BY <2>1, <2>2 DEF Storage
<1>2. \A i \in Id : objects[i].partial \in BOOLEAN
  <2>1. \A o \in Object : o.partial \in BOOLEAN
    BY DEF Object
  <2>2. Free.partial = FALSE
    BY DEF Free
  <2>. QED BY <2>1, <2>2 DEF Storage
<1>3. ASSUME NEW i \in Id, NEW f \in Folder
      PROVE  /\ i \in Held(f, book, TRUE)
                  <=> (objects[i].folder = f /\ objects[i].book = book /\ objects[i].partial)
             /\ i \in Held(f, book, FALSE)
                  <=> (objects[i].folder = f /\ objects[i].book = book /\ ~objects[i].partial)
  <2>1. (objects[i] = [folder |-> f, book |-> book, partial |-> TRUE])
          <=> (objects[i].folder = f /\ objects[i].book = book /\ objects[i].partial = TRUE)
    BY <1>1
  <2>2. (objects[i] = [folder |-> f, book |-> book, partial |-> FALSE])
          <=> (objects[i].folder = f /\ objects[i].book = book /\ objects[i].partial = FALSE)
    BY <1>1
  <2>3. objects[i].partial = TRUE \/ objects[i].partial = FALSE
    BY <1>2
  <2>. QED BY <2>1, <2>2, <2>3 DEF Held
<1>4. \A f, p : Held(f, book, p) \subseteq Id
  BY DEF Held
<1>5. \A i : i \in Matching <=> i \in Id /\ objects[i].folder = TargetFolder /\ objects[i].book = book
                                 /\ (objects[i].partial => TargetFolder = "thumbnails")
  BY DEF Matching
<1>6. ASSUME TargetFolder = "documents" PROVE Matching = Held("documents", book, FALSE)
  BY <1>3, <1>4, <1>5, <1>6 DEF Folder
<1>7. ASSUME TargetFolder = "thumbnails"
      PROVE Matching = Held("thumbnails", book, FALSE) \cup Held("thumbnails", book, TRUE)
  BY <1>3, <1>4, <1>5, <1>7 DEF Folder
<1>. QED BY <1>6, <1>7

\* One object less, or one more.
LEMMA HeldFreed ==
  ASSUME Storage, NEW i \in Id, objects' = [objects EXCEPT ![i] = Free]
  PROVE  /\ \A f \in Folder, b \in Book, p \in BOOLEAN : Held(f, b, p)' = Held(f, b, p) \ {i}
         /\ UNCHANGED <<verb, book>> => Matching' = Matching \ {i}
<1>1. \A f \in Folder, b \in Book, p \in BOOLEAN : [folder |-> f, book |-> b, partial |-> p] # Free
  BY DEF Free, Folder
<1>2. objects'[i] = Free /\ \A k \in Id \ {i} : objects'[k] = objects[k]
  BY DEF Storage
<1>. QED BY <1>1, <1>2 DEF Held, Matching, TargetFolder, Free

LEMMA HeldStored ==
  ASSUME Storage, NEW i \in Id, objects[i] = Free, NEW o \in Object,
         objects' = [objects EXCEPT ![i] = o]
  PROVE  \A f \in Folder, b \in Book, p \in BOOLEAN :
           Held(f, b, p)' = IF o = [folder |-> f, book |-> b, partial |-> p]
                              THEN Held(f, b, p) \cup {i} ELSE Held(f, b, p)
<1>1. \A f \in Folder, b \in Book, p \in BOOLEAN : [folder |-> f, book |-> b, partial |-> p] # Free
  BY DEF Free, Folder
<1>2. /\ objects'[i] = o
      /\ \A k \in Id \ {i} : objects'[k] = objects[k]
  BY DEF Storage
<1>3. ASSUME NEW f \in Folder, NEW b \in Book, NEW p \in BOOLEAN
      PROVE Held(f, b, p)' = IF o = [folder |-> f, book |-> b, partial |-> p]
                               THEN Held(f, b, p) \cup {i} ELSE Held(f, b, p)
  <2>1. i \notin Held(f, b, p)
    BY <1>1 DEF Held
  <2>2. \A k \in Id \ {i} : k \in Held(f, b, p)' <=> k \in Held(f, b, p)
    BY <1>2 DEF Held
  <2>3. i \in Held(f, b, p)' <=> o = [folder |-> f, book |-> b, partial |-> p]
    BY <1>2 DEF Held
  <2>4. Held(f, b, p) \subseteq Id /\ Held(f, b, p)' \subseteq Id
    BY DEF Held
  <2>. HIDE DEF Held
  <2>. QED BY <2>1, <2>2, <2>3, <2>4
<1>. QED BY <1>3

\* A book is stored on top of itself only by a send, which the history notes; and
\* the note is taken back when its one copy goes.
LEMMA OneObjectStep == TypeOK /\ CallInv /\ TargetInv /\ OneObject /\ [Next]_vars => OneObject'
<1> SUFFICES ASSUME TypeOK, CallInv, TargetInv, OneObject, [Next]_vars PROVE OneObject'
  OBVIOUS
<1>1. CASE UNCHANGED <<objects, twice>>
  BY <1>1 DEF OneObject, Held
<1>2. ASSUME NEW i \in Id, Delete(i) PROVE OneObject'
  <2>1. \A b \in Book : Held("documents", b, FALSE)' = Held("documents", b, FALSE) \ {i}
    BY <1>2, HeldFreed DEF TypeOK, Delete, Folder
  <2>2. twice' = twice \/ (Held("documents", book, FALSE) = {i} /\ twice' = twice \ {book})
    BY <1>2 DEF Delete
  <2>. HIDE DEF Held
  <2>. QED BY <2>1, <2>2 DEF OneObject
<1>3. ASSUME NEW i \in Id, Put(i) PROVE OneObject'
  <2>1. book \in Book /\ TargetFolder \in Folder
    BY <1>3 DEF Put, CallInv, TypeOK, CallTypes, TargetFolder, Folder
  <2>2. \A b \in Book : Held("documents", b, FALSE)' =
           IF TargetFolder = "documents" /\ b = book
             THEN Held("documents", b, FALSE) \cup {i} ELSE Held("documents", b, FALSE)
    <3> DEFINE o == [folder |-> TargetFolder, book |-> book, partial |-> FALSE]
    <3>1. /\ objects[i] = Free /\ Storage /\ o \in Object
          /\ objects' = [objects EXCEPT ![i] = o]
      BY <1>3, <2>1 DEF Put, TypeOK, Object
    <3>3. \A b \in Book : (o = [folder |-> "documents", book |-> b, partial |-> FALSE])
                            <=> (TargetFolder = "documents" /\ b = book)
      OBVIOUS
    <3>. HIDE DEF o
    <3>2. \A b \in Book :
            Held("documents", b, FALSE)' = IF o = [folder |-> "documents", book |-> b, partial |-> FALSE]
                               THEN Held("documents", b, FALSE) \cup {i} ELSE Held("documents", b, FALSE)
      BY <3>1, HeldStored DEF Folder
    <3>. HIDE DEF Held
    <3>. QED BY <3>2, <3>3
  <2>3. TargetFolder = "documents" => verb = "send"
    BY <1>3 DEF Put, CallInv, Sends, TargetFolder
  <2>4. twice' = IF verb = "send" /\ Held("documents", book, FALSE) # {}
                   THEN twice \cup {book} ELSE twice
    BY <1>3 DEF Put
  <2>. HIDE DEF Held
  <2>5. ASSUME NEW b \in Book, b \notin twice', NEW j \in Held("documents", b, FALSE)',
               NEW k \in Held("documents", b, FALSE)'
        PROVE  j = k
    <3>1. CASE TargetFolder = "documents" /\ b = book
      <4>1. Held("documents", b, FALSE)' = {i}
        BY <2>2, <2>3, <2>4, <2>5, <3>1
      <4>. QED BY <2>5, <4>1
    <3>2. CASE ~(TargetFolder = "documents" /\ b = book)
      <4>1. Held("documents", b, FALSE)' = Held("documents", b, FALSE)
        BY <2>2, <3>2
      <4>2. b \notin twice
        BY <2>4, <2>5
      <4>. QED BY <2>5, <4>1, <4>2 DEF OneObject
    <3>. QED BY <3>1, <3>2
  <2>. QED BY <2>5 DEF OneObject
<1>4. ASSUME NEW i \in Id, NEW b \in Book, LeaveSentinel(i, b) PROVE OneObject'
  <2>1. \A c \in Book : Held("documents", c, FALSE)' = Held("documents", c, FALSE)
    <3> DEFINE o == [folder |-> "thumbnails", book |-> b, partial |-> TRUE]
    <3>1. /\ objects[i] = Free /\ Storage /\ o \in Object
          /\ objects' = [objects EXCEPT ![i] = o]
      BY <1>4 DEF LeaveSentinel, TypeOK, Object, Folder
    <3>2. \A c \in Book : o # [folder |-> "documents", book |-> c, partial |-> FALSE]
      OBVIOUS
    <3>. HIDE DEF o
    <3>3. \A c \in Book :
            Held("documents", c, FALSE)' = IF o = [folder |-> "documents", book |-> c, partial |-> FALSE]
                               THEN Held("documents", c, FALSE) \cup {i} ELSE Held("documents", c, FALSE)
      BY <3>1, HeldStored DEF Folder
    <3>. QED BY <3>2, <3>3
  <2>2. twice' = twice
    BY <1>4 DEF LeaveSentinel
  <2>. HIDE DEF Held
  <2>3. ASSUME NEW c \in Book \ twice' PROVE \A k, l \in Held("documents", c, FALSE)' : k = l
    <3>1. \A k, l \in Held("documents", c, FALSE) : k = l
      BY <2>2, <2>3 DEF OneObject
    <3>. QED BY <2>1, <3>1
  <2>. QED BY <2>3 DEF OneObject
<1>. QED
  BY <1>1, <1>2, <1>3, <1>4
  DEF Next, PlugOrUnplug, LoseLocal, Begin, Check, LoadBackend, OpenDevice, FindFolder, Scan,
      DeleteFails, AllDeleted, PutFails, CloseDevice

\* While what is stored and the call's argument stay, so does what the call sees.
LEMMA SameMatching == UNCHANGED <<objects, verb, book>> => Matching' = Matching
BY DEF Matching, TargetFolder

\* A sentinel left beside a call is of no document, and of its book only if the
\* history notes it.
LEMMA SentinelLeft ==
  ASSUME TypeOK, NEW i \in Id, NEW b \in Book, LeaveSentinel(i, b)
  PROVE  /\ \A c : Held("documents", c, FALSE)' = Held("documents", c, FALSE)
         /\ \A c, p : c # b => Held("thumbnails", c, p)' = Held("thumbnails", c, p)
         /\ Matching \subseteq Matching'
         /\ stage \in {"delete", "put", "close"} => short' \/ Matching' = Matching
<1> DEFINE o == [folder |-> "thumbnails", book |-> b, partial |-> TRUE]
<1>1. objects[i] = Free /\ objects'[i] = o /\ \A k \in Id \ {i} : objects'[k] = objects[k]
  BY DEF LeaveSentinel, TypeOK, Storage
<1>2. \A c, f, p : Free # [folder |-> f, book |-> c, partial |-> p] \/ f = "none"
  BY DEF Free
<1>3. ASSUME NEW c, NEW f \in Folder, NEW p, o # [folder |-> f, book |-> c, partial |-> p]
      PROVE  Held(f, c, p)' = Held(f, c, p)
  BY <1>1, <1>2, <1>3 DEF Held, Folder
<1>4. ASSUME NEW c PROVE Held("documents", c, FALSE)' = Held("documents", c, FALSE)
  BY <1>3 DEF Folder
<1>5. ASSUME NEW c, NEW p, c # b PROVE Held("thumbnails", c, p)' = Held("thumbnails", c, p)
  BY <1>3, <1>5 DEF Folder
<1>6. UNCHANGED <<verb, book, stage>>
  BY DEF LeaveSentinel
<1>7. Matching \subseteq Matching'
  BY <1>1, <1>6 DEF Matching, TargetFolder, Free
<1>8. b # book => Matching' = Matching
  BY <1>1, <1>6 DEF Matching, TargetFolder, Free
<1>9. stage \in {"delete", "put", "close"} /\ b = book => short'
  BY DEF LeaveSentinel
<1>. QED BY <1>4, <1>5, <1>7, <1>8, <1>9

LEMMA TargetInvStep == TypeOK /\ CallInv /\ OneObject /\ TargetInv /\ [Next]_vars => TargetInv'
<1> SUFFICES ASSUME TypeOK, CallInv, OneObject, TargetInv, [Next]_vars PROVE TargetInv'
  OBVIOUS
<1>1. CASE UNCHANGED <<objects, call, missed, short, twice>>
  BY <1>1, SameMatching DEF TargetInv, Held
<1>2. CASE stage' \notin {"delete", "put"}
  BY <1>2 DEF TargetInv
<1>3. CASE FindFolder
  BY <1>3 DEF FindFolder, Goto, Conclude, TargetInv, CallInv
<1>4. CASE Scan
  <2>1. Matching' = Matching /\ UNCHANGED <<verb, book, missed>>
    BY <1>4, SameMatching DEF Scan, Goto, Conclude
  <2>2. PICK shown \in Listings :
          /\ short' = (short \/ shown # Matching)
          /\ stage' = "delete" /\ verb = "remove" => \E i \in shown : targets' = {i}
          /\ stage' = "delete" /\ verb # "remove" => targets' = shown
          /\ stage' \in {"delete", "close"}
    BY <1>4 DEF Scan, Goto, Conclude
  <2>3. shown \subseteq Matching
    BY <2>2 DEF Listings
  <2>. HIDE DEF Matching
  <2>. QED BY <2>1, <2>2, <2>3 DEF TargetInv
<1>5. ASSUME NEW i \in Id, Delete(i) PROVE TargetInv'
  <2>1. UNCHANGED <<verb, book, stage, missed, short>> /\ stage = "delete" /\ i \in targets
        /\ targets' = targets \ {i}
    BY <1>5 DEF Delete
  <2>2. Matching' = Matching \ {i} /\ book \in Book
    BY <1>5, <2>1, HeldFreed DEF Delete, TypeOK, CallInv, CallTypes
  <2>3. ASSUME verb = "remove", book \notin twice' PROVE Held("documents", book, FALSE)' = {}
    <3>1. Matching = Held("documents", book, FALSE)
      BY <2>3, MatchingHeld DEF TypeOK, TargetFolder
    <3>2. Held("documents", book, FALSE)' = Held("documents", book, FALSE) \ {i}
      <4>1. \A b \in Book : Held("documents", b, FALSE)' = Held("documents", b, FALSE) \ {i}
        BY <1>5, HeldFreed DEF Delete, TypeOK, Folder
      <4>. QED BY <2>1, <2>2, <4>1 DEF Held
    <3>3. i \in Held("documents", book, FALSE)
      BY <2>1, <3>1 DEF TargetInv
    <3>4. CASE book \in twice
      <4>1. Held("documents", book, FALSE) = {i}
        BY <1>5, <2>3, <3>4 DEF Delete
      <4>. QED BY <3>2, <4>1
    <3>5. CASE book \notin twice
      <4>1. \A k \in Held("documents", book, FALSE) : k = i
        BY <2>2, <3>3, <3>5 DEF OneObject
      <4>. QED BY <3>2, <4>1
    <3>. QED BY <3>4, <3>5
  <2>. HIDE DEF Matching, Held
  <2>. QED BY <2>1, <2>2, <2>3 DEF TargetInv
<1>6. ASSUME NEW i \in Id, DeleteFails(i), verb # "remove" PROVE TargetInv'
  <2>1. Matching' = Matching
    BY <1>6, SameMatching DEF DeleteFails
  <2>. HIDE DEF Matching, Held
  <2>. QED BY <1>6, <2>1 DEF DeleteFails, TargetInv
<1>7. CASE AllDeleted
  <2>1. Matching' = Matching
    BY <1>7, SameMatching DEF AllDeleted, Goto, Conclude
  <2>. HIDE DEF Matching, Held
  <2>. QED BY <1>7, <2>1 DEF AllDeleted, TargetInv, Goto, Conclude
<1>8. ASSUME NEW i \in Id, NEW b \in Book, LeaveSentinel(i, b) PROVE TargetInv'
  <2>1. UNCHANGED <<call, missed, twice>> /\ Matching \subseteq Matching'
        /\ Held("documents", book, FALSE)' = Held("documents", book, FALSE) /\ (short' \/ ~short)
    BY <1>8, SentinelLeft DEF LeaveSentinel
  <2>2. CASE stage \in {"delete", "put"}
    <3>1. short' \/ Matching' = Matching
      BY <1>8, <2>2, SentinelLeft DEF CallInv, TypeOK, CallTypes
    <3>. HIDE DEF Matching, Held
    <3>. QED BY <2>1, <3>1 DEF TargetInv
  <2>3. CASE stage \notin {"delete", "put"}
    BY <2>1, <2>3 DEF TargetInv
  <2>. QED BY <2>2, <2>3
<1>9. LoseLocal => UNCHANGED <<objects, call, missed, short, twice>>
  BY DEF LoseLocal
<1>10. ASSUME NEW i \in Id, DeleteFails(i), verb = "remove" PROVE stage' = "close"
  BY <1>10 DEF DeleteFails, Conclude, Goto
<1>. QED
  BY <1>1, <1>2, <1>3, <1>4, <1>5, <1>6, <1>7, <1>8, <1>9, <1>10
  DEF Next, PlugOrUnplug, Begin, Check, LoadBackend, OpenDevice, Put, PutFails, CloseDevice, Goto, Conclude

\* What a call reports is so when it has come to its end, and stays so until it
\* has returned.
LEMMA EndInvStep == TypeOK /\ CallInv /\ TargetInv /\ EndInv /\ [Next]_vars => EndInv'
<1> SUFFICES ASSUME TypeOK, CallInv, TargetInv, EndInv, [Next]_vars PROVE EndInv'
  OBVIOUS
<1> USE DEF Ended
<1>1. CASE UNCHANGED <<objects, call, result, folders, missed, short, twice>>
  BY <1>1, SameMatching DEF EndInv, Held
<1>2. CASE stage' # "close" \/ result' # "ok"
  BY <1>2 DEF EndInv
<1>3. CASE OpenDevice \/ FindFolder
  BY <1>3 DEF OpenDevice, FindFolder, Goto, Conclude, EndInv, TargetFolder, CallInv
<1>4. CASE Scan
  BY <1>4 DEF Scan, Goto, Conclude, EndInv
<1>5. CASE AllDeleted
  <2>1. Matching' = Matching /\ UNCHANGED <<objects, verb, book, missed, short, twice, folders>>
        /\ stage = "delete" /\ targets = {}
    BY <1>5, SameMatching DEF AllDeleted, Goto, Conclude
  <2>2. verb = "remove_thumbnail" /\ ~missed /\ ~short => Matching = {}
    BY <2>1 DEF TargetInv
  <2>3. verb = "remove" /\ book \notin twice => Held("documents", book, FALSE)' = {}
    BY <2>1 DEF TargetInv, Held
  <2>4. stage' = "close" => verb # "send_thumbnail" /\ verb # "send"
    BY <1>5, <2>1 DEF AllDeleted, Goto, Conclude, CallInv
  <2>. HIDE DEF Matching, Held
  <2>. QED BY <2>1, <2>2, <2>3, <2>4 DEF EndInv
<1>6. ASSUME NEW i \in Id, Put(i) PROVE EndInv'
  <2> DEFINE o == [folder |-> TargetFolder, book |-> book, partial |-> FALSE]
  <2>1. book \in Book /\ stage = "put" /\ Sends /\ UNCHANGED <<verb, book, missed, short>>
    BY <1>6 DEF Put, CallInv, TypeOK, CallTypes, Goto, Conclude
  <2>2. /\ objects[i] = Free /\ Storage /\ o \in Object
        /\ objects' = [objects EXCEPT ![i] = o]
    BY <1>6, <2>1 DEF Put, TypeOK, Object, TargetFolder, Folder
  <2>3. CASE verb = "send"
    <3>1. o = [folder |-> "documents", book |-> book, partial |-> FALSE]
      BY <2>3 DEF TargetFolder
    <3>2. i \in Held("documents", book, FALSE)'
      BY <2>1, <2>2, <3>1 DEF Held, Storage
    <3>. QED BY <2>1, <2>3, <3>2 DEF EndInv
  <2>4. CASE verb = "send_thumbnail"
    <3>1. o = [folder |-> "thumbnails", book |-> book, partial |-> FALSE]
          /\ o # [folder |-> "thumbnails", book |-> book, partial |-> TRUE]
      BY <2>4 DEF TargetFolder
    <3>2. \A b \in Book : b = book =>
             /\ Held("thumbnails", b, FALSE)' = Held("thumbnails", b, FALSE) \cup {i}
             /\ Held("thumbnails", b, TRUE)' = Held("thumbnails", b, TRUE)
      <4>. HIDE DEF o
      <4>. QED BY <2>2, <3>1, HeldStored DEF Folder
    <3>3. /\ Held("thumbnails", book, FALSE)' = Held("thumbnails", book, FALSE) \cup {i}
          /\ Held("thumbnails", book, TRUE)' = Held("thumbnails", book, TRUE)
      BY <2>1, <3>2 DEF Held
    <3>4. ~missed /\ ~short => Held("thumbnails", book, FALSE) = {} /\ Held("thumbnails", book, TRUE) = {}
      BY <2>1, <2>4, MatchingHeld DEF TargetInv, TypeOK, TargetFolder
    <3>. HIDE DEF Held
    <3>. QED BY <2>1, <2>4, <3>3, <3>4 DEF EndInv
  <2>. QED BY <2>1, <2>3, <2>4 DEF Sends
<1>7. ASSUME NEW i \in Id, NEW b \in Book, LeaveSentinel(i, b), stage = "close" PROVE EndInv'
  <2>1. UNCHANGED <<call, result, folders, missed, twice>> /\ (short' \/ ~short)
        /\ (short' \/ b # book)
    BY <1>7 DEF LeaveSentinel
  <2>2. Held("documents", book, FALSE)' = Held("documents", book, FALSE)
    BY <1>7, <2>1, SentinelLeft DEF Held
  <2>3. short' \/ (Matching' = Matching /\ \A p : Held("thumbnails", book, p)' = Held("thumbnails", book, p))
    <3>1. CASE b # book
      <4>1. \A p : Held("thumbnails", book, p)' = Held("thumbnails", book, p)
        BY <1>7, <2>1, <3>1, SentinelLeft DEF Held
      <4>2. short' \/ Matching' = Matching
        BY <1>7, SentinelLeft
      <4>. QED BY <4>1, <4>2
    <3>. QED BY <2>1, <3>1
  <2>. HIDE DEF Matching, Held
  <2>. QED BY <2>1, <2>2, <2>3 DEF EndInv
<1>8. ASSUME NEW i \in Id, NEW b \in Book, LeaveSentinel(i, b) PROVE UNCHANGED stage
  BY <1>8 DEF LeaveSentinel
<1>. QED
  BY <1>1, <1>2, <1>3, <1>4, <1>5, <1>6, <1>7, <1>8
  DEF Next, PlugOrUnplug, LoseLocal, Begin, Check, LoadBackend, Delete, DeleteFails,
      PutFails, CloseDevice, Goto, Conclude, TypeOK, CallTypes, CallInv

-----------------------------------------------------------------------------
(* The theorems. *)

LEMMA StoreInvStep == StoreInv /\ [Next]_vars => StoreInv'
<1> SUFFICES ASSUME StoreInv, [Next]_vars PROVE StoreInv'
  OBVIOUS
<1>. QED
  BY TypeStep, CallInvStep, OneObjectStep, TargetInvStep, EndInvStep DEF StoreInv, TypeOK

LEMMA StoreInvInit == Init => StoreInv
<1> SUFFICES ASSUME Init PROVE StoreInv
  OBVIOUS
<1>1. TypeOK
  BY DEF Init, TypeOK, Flags, Storage, CallTypes
<1>2. CallInv
  BY DEF Init, CallInv, Sends
<1>3. \A b \in Book : Held("documents", b, FALSE) = {}
  BY DEF Init, Held, Free
<1>4. OneObject /\ TargetInv /\ EndInv
  BY <1>3 DEF Init, OneObject, TargetInv, EndInv, Ended
<1>. QED BY <1>1, <1>2, <1>4 DEF StoreInv

\* However a call ends the device is closed, and it ends with an exception its
\* callers expect unless libmtp is missing or the file to send went away.
THEOREM CallsEndCleanly == Spec => []HandleInv
<1>1. StoreInv => HandleInv
  BY DEF StoreInv, CallInv, HandleInv, TypeOK, CallTypes
<1>. QED BY <1>1, StoreInvInit, StoreInvStep, PTL DEF Spec

\* A book that send reports is on the device and one that remove reports is not,
\* unless it had been sent on top of itself.
THEOREM ReportsTrue == Spec => []ReportsHold
<1>1. StoreInv => ReportsHold
  BY DEF StoreInv, EndInv, ReportsHold, Ended
<1>. QED BY <1>1, StoreInvInit, StoreInvStep, PTL DEF Spec

\* A sidecar that was sent is its book's only one with nothing left that blocks
\* it, and one that was removed is gone with its sentinel, when the device refused
\* no deletion, left nothing out of a listing and added no sentinel after it
\* (mtp_helper.py:523-585).
THEOREM SidecarsCorrect == Spec => []SidecarsFollow
<1>1. ASSUME StoreInv PROVE SidecarsFollow
  <2>1. ASSUME NEW b \in Book, ~missed, ~short, Ended("send_thumbnail", b)
        PROVE  Cardinality(Held("thumbnails", b, FALSE)) = 1 /\ Held("thumbnails", b, TRUE) = {}
    <3>1. PICK i \in Id : Held("thumbnails", b, FALSE) = {i} /\ Held("thumbnails", b, TRUE) = {}
      BY <1>1, <2>1 DEF StoreInv, EndInv, Ended
    <3>. QED BY <3>1, FS_Singleton
  <2>2. ASSUME NEW b \in Book, ~missed, ~short, Ended("remove_thumbnail", b), "thumbnails" \in folders
        PROVE  Held("thumbnails", b, FALSE) \cup Held("thumbnails", b, TRUE) = {}
    BY <1>1, <2>2, MatchingHeld DEF StoreInv, TypeOK, EndInv, Ended, TargetFolder
  <2>. QED BY <2>1, <2>2 DEF SidecarsFollow
<1>. QED BY <1>1, StoreInvInit, StoreInvStep, PTL DEF Spec

\* No call touches an object of another book, or of the folder it does not work in.
THEOREM OthersKept == Spec => OthersUntouched
<1> DEFINE A == verb # "none" =>
       \A i \in Id : objects'[i] # objects[i] =>
          \/ objects[i] = Free /\ objects'[i].partial
          \/ \A o \in {objects[i], objects'[i]} \ {Free} : o.book = book /\ o.folder = TargetFolder
<1>1. ASSUME StoreInv, [Next]_vars PROVE [A]_vars
  <2>1. CASE UNCHANGED objects \/ verb = "none"
    BY <2>1
  <2>2. ASSUME NEW i \in Id, Delete(i) PROVE A
    <3>1. objects'[i] = Free /\ \A k \in Id \ {i} : objects'[k] = objects[k]
      BY <1>1, <2>2 DEF Delete, StoreInv, TypeOK, Storage
    <3>2. objects[i].book = book /\ objects[i].folder = TargetFolder
      BY <1>1, <2>2 DEF Delete, StoreInv, TargetInv, Matching
    <3>. QED BY <3>1, <3>2
  <2>3. ASSUME NEW i \in Id, Put(i) PROVE A
    <3>1. /\ objects[i] = Free /\ \A k \in Id \ {i} : objects'[k] = objects[k]
          /\ objects'[i] = [folder |-> TargetFolder, book |-> book, partial |-> FALSE]
      BY <1>1, <2>3 DEF Put, StoreInv, TypeOK, Storage
    <3>2. objects'[i].book = book /\ objects'[i].folder = TargetFolder
      BY <3>1
    <3>. QED BY <3>1, <3>2
  <2>4. ASSUME NEW i \in Id, NEW b \in Book, LeaveSentinel(i, b) PROVE A
    <3>1. /\ objects[i] = Free /\ \A k \in Id \ {i} : objects'[k] = objects[k]
          /\ objects'[i].partial
      BY <1>1, <2>4 DEF LeaveSentinel, StoreInv, TypeOK, Storage
    <3>. QED BY <3>1
  <2>. QED
    BY <1>1, <2>1, <2>2, <2>3, <2>4
    DEF Next, PlugOrUnplug, LoseLocal, Begin, Check, LoadBackend, OpenDevice,
        FindFolder, Scan, DeleteFails, AllDeleted, PutFails, CloseDevice
<1>. QED BY <1>1, StoreInvInit, StoreInvStep, PTL DEF Spec, OthersUntouched
=============================================================================
