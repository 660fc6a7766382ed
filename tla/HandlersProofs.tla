--------------------------- MODULE HandlersProofs ---------------------------
(***************************************************************************)
(* Theorems about the jobs of app/handlers.py for every set of books, any  *)
(* batch, and whatever fails or changes in the library: what device jobs   *)
(* leave on the device, and that removing finds what sending has put there *)
(* (DeviceJobs); that uploads end with all reader formats and that what a  *)
(* conversion reports is what it did (Conversion); that a refresh fills in *)
(* and reports what it did (Refresh).  The three share BatchJob, the loop  *)
(* whose invariant comes first.                                            *)
(***************************************************************************)
EXTENDS DeviceJobs, Conversion, Refresh, SequenceTheorems, WellFoundedInduction, TLAPS

USE DEF batch, library, libraryVars, deviceVars, deviceJobsVars

\* The loop: its books are distinct, and only the one at its head may have a state
\* of its own yet.
BatchInv ==
  /\ outcome \in {"none", "running", "done", "failed"}
  /\ todo \in Seq(Book)
  /\ progress \in [Book -> BookState \cup {"none"}]
  /\ kind = "none" <=> outcome # "running"
  /\ kind = "none" => todo = <<>>
  /\ \A i, j \in 1..Len(todo) : todo[i] = todo[j] => i = j
  /\ \A i \in 1..Len(todo) : progress[todo[i]] = "pending" \/ (i = 1 /\ progress[todo[i]] \in {"running", "done"})
  /\ outcome # "failed" => \A b \in Book : progress[b] \in Unsettled => Chosen(todo, b)

\* A book that has not strayed is on the device under the name its own file gives
\* now, if it is there at all.
NamesInv ==
  /\ \A b \in Book : AtTile("send", b) => Choice(b) \in Fmt /\ sentAs[b] = SentName(b)
  /\ \A b \in Book \ strayed : AtTile("remove", b) => sentAs[b] = NoName
  /\ \A b \in Book \ strayed : sentAs[b] # NoName => Choice(b) \in files[b] /\ sentAs[b] = SentName(b)

\* Of a book with a Kindle format that is not orphaned, the only sidecar is the one
\* its file identifies now.
TilesInv ==
  \A b \in Book \ orphaned : Choice(b) \in MobiFamily =>
    \A id \in Identity : <<b, id>> \in tiles => LibraryIdentity(b) = id

NoEpub == \A name \in device : name.ext # "EPUB"

\* The cache has what was just sent, and of a book that has not strayed nothing but
\* the name it is under.
BadgeInv ==
  /\ \A b \in Book : AtTile("send", b) => SentName(b) \in cache
  /\ \A b \in Book \ strayed, f \in Fmt : FileName(b, f) \in cache => sentAs[b] = FileName(b, f)

JobsInv == DeviceJobsTypeOK /\ BatchInv /\ NoEpub /\ NamesInv /\ TilesInv /\ NativeTileGoes

-----------------------------------------------------------------------------
(* The choice of a format. *)

LEMMA LeastNumber ==
  ASSUME NEW S \in SUBSET Nat, S # {}
  PROVE  \E i \in S : \A k \in S : i <= k
<1> DEFINE R == {pair \in Nat \X Nat : pair[1] < pair[2]}
<1>1. IsWellFoundedOn(R, Nat)
  BY NatLessThanWellFounded DEF OpToRel
<1>2. \A x, y \in S : x < y => <<x, y>> \in R
  OBVIOUS
<1>. HIDE DEF R
<1>3. PICK i \in S : \A k \in S : <<k, i>> \notin R
  BY <1>1, WFMin
<1>4. \A k \in S : ~(k < i)
  BY <1>2, <1>3
<1>5. \A k \in S : i \in Nat /\ k \in Nat
  OBVIOUS
<1>. QED BY <1>4, <1>5

\* FirstOf finds the first hit, and only a hit.
LEMMA FirstOfProperties ==
  ASSUME NEW order, Len(order) \in Nat, NEW available,
         NEW k \in 1..Len(order), order[k] \in available
  PROVE  \E i \in 1..k : /\ FirstOf(order, available) = order[i]
                         /\ order[i] \in available
                         /\ \A j \in 1..Len(order) : order[j] \in available => i <= j
<1> DEFINE hits == {i \in 1..Len(order) : order[i] \in available}
           first == CHOOSE i \in hits : \A j \in hits : i <= j
<1>1. hits # {} /\ hits \in SUBSET Nat /\ k \in hits
  OBVIOUS
<1>2. first \in hits /\ \A j \in hits : first <= j
  BY <1>1, LeastNumber
<1>3. FirstOf(order, available) = order[first]
  BY <1>1 DEF FirstOf
<1>. HIDE DEF first
<1>. QED BY <1>1, <1>2, <1>3

LEMMA FirstOfNothing ==
  ASSUME NEW order, Len(order) \in Nat, NEW available,
         \A k \in 1..Len(order) : order[k] \notin available
  PROVE  FirstOf(order, available) = NoFmt
BY DEF FirstOf

\* One more format is either the new choice, or leaves the choice as it was.
LEMMA FirstOfOneMore ==
  ASSUME NEW order, Len(order) \in Nat, NEW available, NEW f
  PROVE  FirstOf(order, available \cup {f}) \in {FirstOf(order, available), f}
<1>1. CASE \A k \in 1..Len(order) : order[k] \notin available \cup {f}
  BY <1>1, FirstOfNothing
<1>2. CASE \E k \in 1..Len(order) : order[k] \in available \cup {f}
  <2> DEFINE more == available \cup {f}
  <2>3. PICK k \in 1..Len(order) : order[k] \in more
    BY <1>2
  <2>4. \E i \in 1..k : /\ FirstOf(order, more) = order[i]
                       /\ order[i] \in more
                       /\ \A j \in 1..Len(order) : order[j] \in more => i <= j
    <3>. HIDE DEF more
    <3>. QED BY <2>3, FirstOfProperties
  <2>1. PICK i \in 1..Len(order) :
           /\ FirstOf(order, available \cup {f}) = order[i]
           /\ order[i] \in available \cup {f}
           /\ \A j \in 1..Len(order) : order[j] \in available \cup {f} => i <= j
    BY <2>4
  <2>2. CASE order[i] \in available
    <3>1. PICK m \in 1..i :
             /\ FirstOf(order, available) = order[m]
             /\ order[m] \in available
      BY <2>2, FirstOfProperties
    <3>2. m = i
      BY <2>1, <3>1
    <3>. QED BY <2>1, <3>1, <3>2
  <2>. QED BY <2>1, <2>2
<1>. QED BY <1>1, <1>2

LEMMA ChoiceIn ==
  ASSUME DeviceJobsTypeOK, NEW b \in Book
  PROVE  Choice(b) \in formats[b] \cup {NoFmt} /\ formats[b] \subseteq Fmt /\ files[b] \subseteq Fmt
<1>1. FirstOf(DeviceOrder, formats[b]) \in formats[b] \cup {NoFmt}
  <2>1. CASE \A k \in 1..Len(DeviceOrder) : DeviceOrder[k] \notin formats[b]
    BY <2>1, OrderAssumption, FirstOfNothing
  <2>2. CASE \E k \in 1..Len(DeviceOrder) : DeviceOrder[k] \in formats[b]
    BY <2>2, OrderAssumption, FirstOfProperties
  <2>. QED BY <2>1, <2>2
<1>. QED BY <1>1 DEF DeviceJobsTypeOK, Choice

-----------------------------------------------------------------------------
(* The loop. *)

LEMMA TodoTail ==
  ASSUME BatchInv, todo # <<>>
  PROVE  /\ Head(todo) \in Book /\ Head(todo) = todo[1] /\ Chosen(todo, Head(todo))
         /\ Tail(todo) \in Seq(Book) /\ Len(Tail(todo)) = Len(todo) - 1 /\ Len(todo) \in Nat
         /\ \A i \in 1..Len(Tail(todo)) : Tail(todo)[i] = todo[i + 1] /\ Tail(todo)[i] # Head(todo)
         /\ \A b \in Book : Chosen(todo, b) <=> b = Head(todo) \/ Chosen(Tail(todo), b)
<1>1. /\ Head(todo) \in Book /\ Head(todo) = todo[1]
      /\ Tail(todo) \in Seq(Book) /\ Len(Tail(todo)) = Len(todo) - 1 /\ Len(todo) \in Nat /\ Len(todo) > 0
      /\ \A i \in 1..Len(Tail(todo)) : Tail(todo)[i] = todo[i + 1]
  BY HeadTailProperties DEF BatchInv
<1>2. \A i \in 1..Len(Tail(todo)) : Tail(todo)[i] # Head(todo)
  BY <1>1 DEF BatchInv
<1>3. \A i \in 2..Len(todo) : i - 1 \in 1..Len(Tail(todo)) /\ Tail(todo)[i - 1] = todo[i]
  BY <1>1
<1>. QED BY <1>1, <1>2, <1>3 DEF Chosen

LEMMA SettleStep ==
  ASSUME BatchInv, todo # <<>>, kind # "none", NEW s \in {"done", "skipped", "failed"}, Settle(s)
  PROVE  BatchInv'
<1>1. /\ todo' = Tail(todo) /\ UNCHANGED <<kind, outcome>> /\ outcome = "running"
      /\ progress' = [progress EXCEPT ![Head(todo)] = s]
  BY DEF Settle, BatchInv
<1>2. /\ progress' \in [Book -> BookState \cup {"none"}] /\ progress'[Head(todo)] = s
      /\ \A b \in Book : b # Head(todo) => progress'[b] = progress[b]
  BY <1>1, TodoTail DEF BatchInv, BookState
<1>3. \A i, j \in 1..Len(todo') : todo'[i] = todo'[j] => i = j
  BY <1>1, TodoTail DEF BatchInv
<1>4. \A i \in 1..Len(todo') : progress'[todo'[i]] = "pending"
  <2>1. \A i \in 1..Len(Tail(todo)) : Tail(todo)[i] \in Book /\ progress[Tail(todo)[i]] = "pending"
    BY TodoTail DEF BatchInv
  <2>. QED BY <1>1, <1>2, <2>1, TodoTail
<1>5. \A b \in Book : progress'[b] \in Unsettled => Chosen(Tail(todo), b)
  BY <1>1, <1>2, TodoTail DEF BatchInv, Unsettled
<1>6. \A b \in Book : Chosen(todo, b)' <=> Chosen(Tail(todo), b)
  BY <1>1 DEF Chosen
<1>. QED BY <1>1, <1>2, <1>3, <1>4, <1>5, <1>6, TodoTail DEF BatchInv

\* The book at the head gets a state of its own, and stays there.
LEMMA MarkStep ==
  ASSUME BatchInv, todo # <<>>, kind # "none", NEW s \in {"running", "done"},
         progress' = [progress EXCEPT ![Head(todo)] = s], UNCHANGED <<kind, todo, outcome>>
  PROVE  /\ BatchInv' /\ progress'[Head(todo)] = s
         /\ \A b \in Book : b # Head(todo) => progress'[b] = progress[b]
<1>1. /\ progress' \in [Book -> BookState \cup {"none"}] /\ progress'[Head(todo)] = s
      /\ \A b \in Book : b # Head(todo) => progress'[b] = progress[b]
  BY TodoTail DEF BatchInv, BookState
<1>2. \A i \in 1..Len(todo) : progress'[todo[i]] = "pending" \/ (i = 1 /\ progress'[todo[i]] \in {"running", "done"})
  <2>1. \A i \in 1..Len(todo) : i # 1 => todo[i] # Head(todo) /\ todo[i] \in Book
    BY TodoTail, LenProperties DEF BatchInv
  <2>. QED BY <1>1, <2>1, TodoTail DEF BatchInv
<1>3. \A b \in Book : progress'[b] \in Unsettled => b = Head(todo) \/ progress[b] \in Unsettled
  BY <1>1
<1>4. outcome' # "failed" => \A b \in Book : progress'[b] \in Unsettled => Chosen(todo, b)
  BY <1>3, TodoTail DEF BatchInv
<1>. QED BY <1>1, <1>2, <1>4 DEF BatchInv, Chosen

\* The transfer of the book at the head is done.
LEMMA DoneStep ==
  ASSUME BatchInv, todo # <<>>, kind # "none", Done(Head(todo))
  PROVE  BatchInv'
BY MarkStep DEF Done

LEMMA AbortStep ==
  ASSUME BatchInv, todo # <<>>, NEW s \in {"pending", "running", "done"}, AbortBatch(s)
  PROVE  BatchInv'
<1>1. progress' \in [Book -> BookState \cup {"none"}] /\ kind' = "none" /\ todo' = <<>> /\ outcome' = "failed"
  BY TodoTail DEF AbortBatch, BatchInv, BookState
<1>2. todo' \in Seq(Book) /\ Len(todo') = 0
  BY <1>1
<1>. QED BY <1>1, <1>2 DEF BatchInv

LEMMA GoneStep ==
  ASSUME BatchInv, BatchGone
  PROVE  BatchInv'
BY DEF BatchGone, BatchInv, BookState, Unsettled

\* What a route hands to a job: distinct books.
LEMMA SelectionOfBooks ==
  ASSUME NEW books \in Selection
  PROVE  books \in Seq(Book) /\ \A i, k \in 1..Len(books) : books[i] = books[k] => i = k
<1>1. PICK n \in 1..MaxBatch : books \in [1..n -> Book]
  BY DEF Selection
<1>2. n \in Nat
  BY <1>1, BatchAssumption
<1>3. books \in Seq(Book)
  BY <1>1, <1>2, SeqDef
<1>. QED BY <1>3 DEF Selection

LEMMA BeginStep ==
  ASSUME NEW k, k # "none", NEW books \in Selection, BeginBatch(k, books)
  PROVE  BatchInv' /\ \A b \in Book : progress'[b] # "done"
<1>1. /\ kind' = k /\ todo' = books /\ outcome' = "running"
      /\ progress' = [b \in Book |-> IF Chosen(books, b) THEN "pending" ELSE "none"]
  BY DEF BeginBatch
<1>2. /\ books \in Seq(Book)
      /\ \A i, j \in 1..Len(books) : books[i] = books[j] => i = j
  BY SelectionOfBooks
<1>3. progress' \in [Book -> BookState \cup {"none"}] /\ \A b \in Book : progress'[b] \in {"pending", "none"}
  BY <1>1 DEF BookState
<1>4. \A i \in 1..Len(books) : books[i] \in Book /\ progress'[books[i]] = "pending"
  BY <1>1, <1>2 DEF Chosen
<1>5. \A b \in Book : progress'[b] \in Unsettled => Chosen(books, b)
  BY <1>1 DEF Unsettled
<1>6. \A b \in Book : Chosen(todo, b)' <=> Chosen(books, b)
  BY <1>1 DEF Chosen
<1>. QED BY <1>1, <1>2, <1>3, <1>4, <1>5, <1>6 DEF BatchInv

\* What a step of the handlers does to the loop.
LEMMA BatchStep == BatchInv /\ [DeviceJobsNext]_deviceJobsVars => BatchInv'
<1> SUFFICES ASSUME BatchInv, [DeviceJobsNext]_deviceJobsVars PROVE BatchInv'
  OBVIOUS
<1>1. CASE UNCHANGED batch
  BY <1>1 DEF BatchInv, Chosen
<1>2. ASSUME NEW k \in {"send", "remove"}, NEW books \in Selection, BeginDeviceJob(k, books) PROVE BatchInv'
  BY <1>2, BeginStep DEF BeginDeviceJob
<1>3. ASSUME NEW s \in {"done", "skipped", "failed"}, kind # "none", todo # <<>>, Settle(s) PROVE BatchInv'
  BY <1>3, SettleStep
<1>4. ASSUME NEW b \in Book, NEW k \in {"send", "remove"}, PassOver(k, b) PROVE BatchInv'
  BY <1>3, <1>4 DEF PassOver, Deciding, At
<1>5. ASSUME NEW b \in Book, Send(b) PROVE BatchInv'
  <2>1. CASE SendFile(b)
    BY <2>1, DoneStep DEF SendFile, Deciding, At
  <2>2. CASE SendMissing(b) \/ SendFails(b) \/ UploadTile(b)
    BY <1>3, <2>2 DEF SendMissing, SendFails, UploadTile, Deciding, AtTile, At
  <2>. QED BY <1>5, <2>1, <2>2 DEF Send
<1>6. ASSUME NEW b \in Book, Remove(b) PROVE BatchInv'
  <2>1. CASE RemoveFile(b)
    <3>1. kind # "none" /\ todo # <<>> /\ b = Head(todo)
      BY <2>1 DEF RemoveFile, Deciding, At
    <3>2. Done(b) \/ Settle("done")
      BY <2>1 DEF RemoveFile
    <3>. QED BY <1>3, <3>1, <3>2, DoneStep
  <2>2. CASE RemoveFails(b) \/ RemoveTile(b)
    BY <1>3, <2>2 DEF RemoveFails, RemoveTile, Deciding, AtTile, At
  <2>. QED BY <1>6, <2>1, <2>2 DEF Remove
<1>7. ASSUME NEW b \in Book, IdentityRaises(b) \/ TransferRaises(b) PROVE BatchInv'
  BY <1>7, AbortStep DEF IdentityRaises, TransferRaises, Deciding, AtTile, At
<1>8. CASE DeviceJobsReturn
  <2>1. /\ kind' = "none" /\ outcome' = "done" /\ UNCHANGED <<todo, progress>>
        /\ todo = <<>> /\ outcome = "running"
    BY <1>8 DEF DeviceJobsReturn, EndBatch, BatchInv
  <2>2. \A b \in Book : progress[b] \notin Unsettled
    BY <2>1 DEF BatchInv, Chosen
  <2>. QED BY <2>1, <2>2 DEF BatchInv
<1>9. ASSUME NEW b \in Book, NEW f \in Fmt, GainFormat(b, f) \/ LoseFile(b, f) PROVE UNCHANGED batch
  BY <1>9 DEF GainFormat, LoseFile
<1>. QED BY <1>1, <1>2, <1>4, <1>5, <1>6, <1>7, <1>8, <1>9 DEF DeviceJobsNext

\* A book that is settled leaves the loop, and the next has no state of its own.
LEMMA SettleFacts ==
  ASSUME BatchInv, todo # <<>>, kind # "none", NEW s \in {"done", "skipped", "failed"}, Settle(s)
  PROVE  /\ UNCHANGED kind /\ Head(todo) \in Book
         /\ progress'[Head(todo)] = s
         /\ \A b \in Book : b # Head(todo) => progress'[b] = progress[b]
         /\ \A b \in Book : Chosen(todo, b)' <=> b # Head(todo) /\ Chosen(todo, b)
         /\ \A b \in Book : ~AtTile("send", b)' /\ ~AtTile("remove", b)'
<1>1. /\ todo' = Tail(todo) /\ UNCHANGED kind /\ Head(todo) \in Book
      /\ progress' = [progress EXCEPT ![Head(todo)] = s]
  BY TodoTail DEF Settle
<1>2. /\ progress'[Head(todo)] = s
      /\ \A b \in Book : b # Head(todo) => progress'[b] = progress[b]
  BY <1>1 DEF BatchInv
<1>3. \A b \in Book : Chosen(todo, b)' <=> Chosen(Tail(todo), b)
  BY <1>1 DEF Chosen
<1>4. ~Chosen(Tail(todo), Head(todo))
  BY TodoTail DEF Chosen
<1>5. \A b \in Book : Chosen(todo, b) <=> b = Head(todo) \/ Chosen(Tail(todo), b)
  BY TodoTail
<1>6. ASSUME NEW b \in Book, todo' # <<>>, b = Head(todo') PROVE progress'[b] # "done"
  <2>1. Tail(todo) \in Seq(Book) /\ Tail(todo) # <<>>
    BY <1>1, <1>6, TodoTail
  <2>2. 1 \in 1..Len(Tail(todo)) /\ Head(Tail(todo)) = Tail(todo)[1]
    BY <2>1, EmptySeq
  <2>3. b = todo[1 + 1] /\ b # Head(todo)
    BY <1>1, <1>6, <2>2, TodoTail
  <2>4. Len(todo) \in Nat /\ Len(Tail(todo)) \in Nat /\ Len(Tail(todo)) = Len(todo) - 1 /\ 1 <= Len(Tail(todo))
    BY <2>1, <2>2, TodoTail, LenProperties
  <2>5. 1 + 1 = 2 /\ 2 \in 1..Len(todo)
    BY <2>4
  <2>. QED BY <1>1, <1>2, <2>3, <2>5, TodoTail DEF BatchInv
<1>. QED BY <1>1, <1>2, <1>3, <1>4, <1>5, <1>6 DEF AtTile, At

\* Steps after which the loop is not at a sidecar.
LEMMA NotAtTile ==
  ASSUME BatchInv,
         \/ \E k \in {"send", "remove"}, books \in Selection : BeginDeviceJob(k, books)
         \/ \E b \in Book : \/ \E k \in {"send", "remove"} : PassOver(k, b)
                            \/ SendMissing(b) \/ SendFails(b) \/ UploadTile(b)
                            \/ RemoveFails(b) \/ RemoveTile(b) \/ IdentityRaises(b) \/ TransferRaises(b)
         \/ DeviceJobsReturn
  PROVE  \A b \in Book : ~AtTile("send", b)' /\ ~AtTile("remove", b)'
<1>1. ASSUME NEW s \in {"done", "skipped", "failed"}, kind # "none", todo # <<>>, Settle(s)
      PROVE  \A b \in Book : ~AtTile("send", b)' /\ ~AtTile("remove", b)'
  BY <1>1, SettleFacts
<1>2. ASSUME NEW k \in {"send", "remove"}, NEW books \in Selection, BeginDeviceJob(k, books)
      PROVE  \A b \in Book : progress'[b] # "done"
  BY <1>2, BeginStep DEF BeginDeviceJob
<1>3. ASSUME NEW b \in Book, NEW k \in {"send", "remove"}, PassOver(k, b)
      PROVE  \A c \in Book : ~AtTile("send", c)' /\ ~AtTile("remove", c)'
  BY <1>1, <1>3 DEF PassOver, Deciding, At
<1>4. ASSUME NEW b \in Book,
             SendMissing(b) \/ SendFails(b) \/ UploadTile(b) \/ RemoveFails(b) \/ RemoveTile(b)
      PROVE  \A c \in Book : ~AtTile("send", c)' /\ ~AtTile("remove", c)'
  <2>1. kind # "none" /\ todo # <<>>
    BY <1>4 DEF SendMissing, SendFails, UploadTile, RemoveFails, RemoveTile, Deciding, AtTile, At
  <2>2. Settle("done") \/ Settle("failed")
    BY <1>4 DEF SendMissing, SendFails, UploadTile, RemoveFails, RemoveTile
  <2>. QED BY <1>1, <2>1, <2>2
<1>5. ASSUME NEW b \in Book, IdentityRaises(b) \/ TransferRaises(b) PROVE kind' = "none"
  BY <1>5 DEF IdentityRaises, TransferRaises, AbortBatch
<1>6. DeviceJobsReturn => kind' = "none"
  BY DEF DeviceJobsReturn, EndBatch
<1>. QED BY <1>2, <1>3, <1>4, <1>5, <1>6 DEF AtTile, At

-----------------------------------------------------------------------------
(* Types, and what reaches the device. *)

LEMMA SentNameIn ==
  ASSUME DeviceJobsTypeOK, NEW b \in Book, Choice(b) \in Fmt
  PROVE  /\ SentName(b) \in Names /\ SentName(b) # NoName /\ SentName(b).ext # "EPUB"
         /\ \E f \in Fmt : f = DeviceFormat(Choice(b)) /\ SentName(b) = FileName(b, f)
<1>1. DeviceFormat(Choice(b)) \in Fmt \ {"EPUB"} /\ NoFmt \notin Fmt
  BY DEF DeviceFormat, Fmt, NoFmt
<1>2. SentName(b).ext = DeviceFormat(Choice(b)) /\ NoName.ext = NoFmt
  BY DEF SentName, FileName, NoName
<1>3. SentName(b) \in Names
  BY <1>1 DEF SentName, Names
<1>. QED BY <1>1, <1>2, <1>3 DEF SentName

LEMMA TypeStep == DeviceJobsTypeOK /\ BatchInv /\ NoEpub /\ [DeviceJobsNext]_deviceJobsVars => DeviceJobsTypeOK' /\ NoEpub'
<1> SUFFICES ASSUME DeviceJobsTypeOK, BatchInv, NoEpub, [DeviceJobsNext]_deviceJobsVars PROVE DeviceJobsTypeOK' /\ NoEpub'
  OBVIOUS
<1>1. BookStatesDeclared'
  BY BatchStep DEF BatchInv, BookStatesDeclared
<1>2. CASE UNCHANGED <<libraryVars, deviceVars>>
  BY <1>1, <1>2 DEF DeviceJobsTypeOK, NoEpub
<1>3. ASSUME NEW b \in Book, Send(b) PROVE DeviceJobsTypeOK' /\ NoEpub'
  <2>1. Choice(b) \in files[b] => SentName(b) \in Names /\ SentName(b).ext # "EPUB"
    BY ChoiceIn, SentNameIn DEF DeviceJobsTypeOK
  <2>2. CASE SendMissing(b)
    BY <1>2, <2>2 DEF SendMissing
  <2>3. CASE SendFails(b)
    BY <1>1, <2>1, <2>3 DEF SendFails, DeviceJobsTypeOK, NoEpub
  <2>4. CASE SendFile(b)
    BY <1>1, <2>1, <2>4 DEF SendFile, DeviceJobsTypeOK, NoEpub
  <2>5. CASE UploadTile(b)
    <3>1. SentIdentities(b) \subseteq Identity
      BY DEF SentIdentities
    <3>2. tiles' \subseteq Book \X Identity
      BY <2>5, <3>1 DEF UploadTile, DeviceJobsTypeOK
    <3>. QED BY <1>1, <2>5, <3>2 DEF UploadTile, DeviceJobsTypeOK, NoEpub
  <2>. QED BY <1>3, <2>2, <2>3, <2>4, <2>5 DEF Send
<1>4. ASSUME NEW b \in Book, Remove(b) PROVE DeviceJobsTypeOK' /\ NoEpub'
  <2>1. CASE RemoveFails(b)
    BY <1>1, <2>1 DEF RemoveFails, DeviceJobsTypeOK, NoEpub
  <2>2. CASE RemoveFile(b)
    BY <1>1, <2>2 DEF RemoveFile, Deleted, DeviceJobsTypeOK, NoEpub
  <2>3. CASE RemoveTile(b)
    BY <1>1, <2>3 DEF RemoveTile, DeviceJobsTypeOK, NoEpub
  <2>. QED BY <1>4, <2>1, <2>2, <2>3 DEF Remove
<1>5. ASSUME NEW b \in Book, NEW f \in Fmt, GainFormat(b, f) \/ LoseFile(b, f) PROVE DeviceJobsTypeOK' /\ NoEpub'
  <2>1. changes' \in 0..MaxChanges
    BY <1>5, FaultAssumption DEF GainFormat, LoseFile, DeviceJobsTypeOK
  <2>2. strayed' \subseteq Book /\ orphaned' \subseteq Book
    BY <1>5 DEF GainFormat, LoseFile, Strays, Orphans, DeviceJobsTypeOK
  <2>3. identity' \in [Book -> [MobiFamily -> Identity \cup {NoIdentity}]]
    <3>1. ASSUME f \in MobiFamily, NEW id \in Identity, identity' = [identity EXCEPT ![b][f] = id]
          PROVE  identity' \in [Book -> [MobiFamily -> Identity \cup {NoIdentity}]]
      BY <3>1 DEF DeviceJobsTypeOK
    <3>. QED BY <1>5, <3>1 DEF GainFormat, LoseFile, DeviceJobsTypeOK
  <2>4. /\ formats' \in [Book -> SUBSET Fmt] /\ files' \in [Book -> SUBSET Fmt]
        /\ UNCHANGED <<device, cache, tiles, sentAs>>
    <3>1. formats \in [Book -> SUBSET Fmt] /\ files \in [Book -> SUBSET Fmt]
      BY DEF DeviceJobsTypeOK
    <3>2. CASE GainFormat(b, f)
      BY <3>1, <3>2 DEF GainFormat
    <3>3. CASE LoseFile(b, f)
      BY <3>1, <3>3 DEF LoseFile
    <3>. QED BY <1>5, <3>2, <3>3
  <2>. QED BY <1>1, <2>1, <2>2, <2>3, <2>4 DEF DeviceJobsTypeOK, NoEpub
<1>. QED
  BY <1>2, <1>3, <1>4, <1>5
  DEF DeviceJobsNext, BeginDeviceJob, PassOver, IdentityRaises, TransferRaises, DeviceJobsReturn

-----------------------------------------------------------------------------
(* Names. *)

\* handle_remove looks for what handle_send used.
LEMMA NamesAgree ==
  ASSUME NamesInv, NEW b \in Book \ strayed, sentAs[b] # NoName
  PROVE  DestName(b) = sentAs[b]
BY DEF NamesInv, DestName, SentName, FileName

\* A choice that is in place stays one when a format comes to the library.
LEMMA ChoiceGained ==
  ASSUME DeviceJobsTypeOK, NEW b \in Book, NEW f \in Fmt, GainFormat(b, f), Choice(b) \in files[b]
  PROVE  Choice(b)' \in files'[b]
<1>1. formats'[b] = formats[b] \cup {f} /\ files'[b] = files[b] \cup {f}
  BY DEF GainFormat, DeviceJobsTypeOK
<1>2. Len(DeviceOrder) \in Nat
  BY OrderAssumption, LenProperties
<1>3. Choice(b)' \in {Choice(b), f}
  BY <1>1, <1>2, FirstOfOneMore DEF Choice
<1>. QED BY <1>1, <1>3

LEMMA NamesStep == DeviceJobsTypeOK /\ BatchInv /\ NamesInv /\ [DeviceJobsNext]_deviceJobsVars => NamesInv'
<1> SUFFICES ASSUME DeviceJobsTypeOK, BatchInv, NamesInv, [DeviceJobsNext]_deviceJobsVars PROVE NamesInv'
  OBVIOUS
<1> DEFINE NoTile == \A b \in Book : ~AtTile("send", b)' /\ ~AtTile("remove", b)'
<1>1. CASE UNCHANGED <<formats, files, sentAs, strayed>> /\ (NoTile \/ UNCHANGED batch)
  BY <1>1 DEF NamesInv, AtTile, At, Choice, SentName
<1>2. ASSUME NEW b \in Book, SendFile(b) PROVE NamesInv'
  <2>1. /\ kind = "send" /\ UNCHANGED <<kind, todo, formats, files, strayed>> /\ b = Head(todo)
        /\ Choice(b) \in files[b] /\ Choice(b) \in Fmt
        /\ progress' = [progress EXCEPT ![b] = "done"]
        /\ sentAs' = [sentAs EXCEPT ![b] = SentName(b)]
    BY <1>2, ChoiceIn DEF SendFile, Deciding, At, Done
  <2>2. sentAs'[b] = SentName(b) /\ \A c \in Book \ {b} : sentAs'[c] = sentAs[c]
    BY <2>1 DEF DeviceJobsTypeOK
  <2>3. \A c \in Book : Choice(c)' = Choice(c) /\ SentName(c)' = SentName(c)
    BY <2>1 DEF Choice, SentName
  <2>4. \A c \in Book : ~AtTile("remove", c)' /\ (AtTile("send", c)' => c = b)
    BY <2>1 DEF AtTile, At
  <2>. QED BY <2>1, <2>2, <2>3, <2>4 DEF NamesInv
<1>3. ASSUME NEW b \in Book, UploadTile(b) PROVE NamesInv'
  BY <1>1, <1>3, NotAtTile DEF UploadTile
<1>4. ASSUME NEW b \in Book, RemoveFile(b) PROVE NamesInv'
  <2>1. /\ UNCHANGED <<formats, files, strayed>> /\ kind = "remove" /\ UNCHANGED kind /\ b = Head(todo)
        /\ sentAs' = [sentAs EXCEPT ![b] = IF @ = DestName(b) THEN NoName ELSE @]
        /\ \A c \in Book : AtTile("remove", c)' => c = b
    <3>1. kind = "remove" /\ todo # <<>> /\ b = Head(todo)
      BY <1>4 DEF RemoveFile, Deciding, At
    <3>2. Settle("done") => NoTile
      BY <3>1, SettleFacts
    <3>3. Done(b) => UNCHANGED todo
      BY DEF Done
    <3>4. Done(b) \/ Settle("done")
      BY <1>4 DEF RemoveFile
    <3>. QED BY <1>4, <3>1, <3>2, <3>3, <3>4 DEF RemoveFile, Deleted, Done, Settle, AtTile, At
  <2>2. /\ sentAs'[b] = IF sentAs[b] = DestName(b) THEN NoName ELSE sentAs[b]
        /\ \A c \in Book \ {b} : sentAs'[c] = sentAs[c]
    BY <2>1 DEF DeviceJobsTypeOK
  <2>3. \A c \in Book : Choice(c)' = Choice(c) /\ SentName(c)' = SentName(c)
    BY <2>1 DEF Choice, SentName
  <2>4. b \notin strayed => sentAs'[b] = NoName
    BY <2>2, NamesAgree
  <2>5. \A c \in Book : ~AtTile("send", c)'
    BY <2>1 DEF AtTile, At
  <2>. QED BY <2>1, <2>2, <2>3, <2>4, <2>5 DEF NamesInv
<1>5. ASSUME NEW b \in Book, RemoveTile(b) PROVE NamesInv'
  BY <1>1, <1>5, NotAtTile DEF RemoveTile
<1>6. ASSUME NEW b \in Book, NEW f \in Fmt, GainFormat(b, f) PROVE NamesInv'
  <2>1. /\ UNCHANGED <<batch, sentAs>> /\ kind = "none"
        /\ strayed \subseteq strayed'
        /\ DeviceFormat(Choice(b)') # DeviceFormat(Choice(b)) /\ sentAs[b] # NoName => b \in strayed'
        /\ \A c \in Book \ {b} : formats'[c] = formats[c] /\ files'[c] = files[c]
    BY <1>6 DEF GainFormat, Strays, DeviceJobsTypeOK
  <2>2. \A c \in Book : ~AtTile("send", c)' /\ ~AtTile("remove", c)'
    BY <2>1 DEF AtTile, At
  <2>3. \A c \in Book \ {b} : Choice(c)' = Choice(c) /\ SentName(c)' = SentName(c)
    BY <2>1 DEF Choice, SentName
  <2>4. Choice(b) \in files[b] => Choice(b)' \in files'[b]
    BY <1>6, ChoiceGained
  <2>5. DeviceFormat(Choice(b)') = DeviceFormat(Choice(b)) => SentName(b)' = SentName(b)
    BY DEF SentName
  <2>. QED BY <2>1, <2>2, <2>3, <2>4, <2>5 DEF NamesInv
<1>7. ASSUME NEW b \in Book, NEW f \in Fmt, LoseFile(b, f) PROVE NamesInv'
  <2>1. /\ UNCHANGED <<batch, formats, sentAs>> /\ strayed \subseteq strayed'
        /\ f = Choice(b) /\ sentAs[b] # NoName => b \in strayed'
        /\ files'[b] = files[b] \ {f}
        /\ \A c \in Book \ {b} : files'[c] = files[c]
    BY <1>7 DEF LoseFile, Strays, DeviceJobsTypeOK
  <2>2. \A c \in Book : Choice(c)' = Choice(c) /\ SentName(c)' = SentName(c)
    BY <2>1 DEF Choice, SentName
  <2>3. \A c \in Book : (AtTile("send", c)' <=> AtTile("send", c)) /\ (AtTile("remove", c)' <=> AtTile("remove", c))
    BY <2>1 DEF AtTile, At
  <2>. QED BY <2>1, <2>2, <2>3 DEF NamesInv
<1>8. ASSUME NEW b \in Book,
             \/ \E k \in {"send", "remove"} : PassOver(k, b)
             \/ SendMissing(b) \/ SendFails(b) \/ RemoveFails(b) \/ IdentityRaises(b) \/ TransferRaises(b)
      PROVE  NamesInv'
  <2>1. UNCHANGED <<formats, files, sentAs, strayed>>
    BY <1>8 DEF PassOver, SendMissing, SendFails, RemoveFails, IdentityRaises, TransferRaises
  <2>. QED BY <1>1, <1>8, <2>1, NotAtTile
<1>9. ASSUME \/ \E k \in {"send", "remove"}, books \in Selection : BeginDeviceJob(k, books)
             \/ DeviceJobsReturn
      PROVE  NamesInv'
  <2>1. UNCHANGED <<formats, files, sentAs, strayed>>
    BY <1>9 DEF BeginDeviceJob, DeviceJobsReturn
  <2>. QED BY <1>1, <1>9, <2>1, NotAtTile
<1>. QED
  BY <1>1, <1>2, <1>3, <1>4, <1>5, <1>6, <1>7, <1>8, <1>9 DEF DeviceJobsNext, Send, Remove

-----------------------------------------------------------------------------
(* Sidecars. *)

LEMMA TilesStep == DeviceJobsTypeOK /\ TilesInv /\ [DeviceJobsNext]_deviceJobsVars => TilesInv'
<1> SUFFICES ASSUME DeviceJobsTypeOK, TilesInv, [DeviceJobsNext]_deviceJobsVars PROVE TilesInv'
  OBVIOUS
<1>1. ASSUME UNCHANGED libraryVars, orphaned \subseteq orphaned', tiles' \subseteq tiles PROVE TilesInv'
  BY <1>1 DEF TilesInv, LibraryIdentity, Choice
<1>2. ASSUME NEW b \in Book, UploadTile(b) PROVE TilesInv'
  <2>1. /\ UNCHANGED <<libraryVars, orphaned>>
        /\ \A c \in Book, id \in Identity : <<c, id>> \in tiles' =>
             <<c, id>> \in tiles \/ (c = b /\ id \in SentIdentities(b))
    BY <1>2 DEF UploadTile
  <2>2. \A c \in Book : Choice(c)' = Choice(c) /\ LibraryIdentity(c)' = LibraryIdentity(c)
    BY <2>1 DEF Choice, LibraryIdentity
  <2>3. Choice(b) \in MobiFamily => \A id \in SentIdentities(b) : LibraryIdentity(b) = id
    BY DEF SentIdentities, MobiFamily
  <2>. QED BY <2>1, <2>2, <2>3 DEF TilesInv
<1>3. ASSUME NEW b \in Book, NEW f \in Fmt, GainFormat(b, f) \/ LoseFile(b, f) PROVE TilesInv'
  <2>1. /\ UNCHANGED tiles /\ orphaned \subseteq orphaned'
        /\ (\E id \in Identity \ {LibraryIdentity(b)'} : <<b, id>> \in tiles) => b \in orphaned'
    BY <1>3 DEF GainFormat, LoseFile, Orphans
  <2>2. \A c \in Book \ {b} : formats'[c] = formats[c] /\ files'[c] = files[c] /\ identity'[c] = identity[c]
    BY <1>3 DEF GainFormat, LoseFile, DeviceJobsTypeOK
  <2>3. \A c \in Book \ {b} : Choice(c)' = Choice(c) /\ LibraryIdentity(c)' = LibraryIdentity(c)
    BY <2>2 DEF Choice, LibraryIdentity
  <2>. QED BY <2>1, <2>3 DEF TilesInv
<1>4. ASSUME NEW b \in Book, RemoveTile(b) PROVE TilesInv'
  BY <1>1, <1>4 DEF RemoveTile
<1>. QED
  BY <1>1, <1>2, <1>3, <1>4
  DEF DeviceJobsNext, BeginDeviceJob, PassOver, Send, SendMissing, SendFails, SendFile,
      Remove, RemoveFails, RemoveFile, IdentityRaises, TransferRaises, DeviceJobsReturn

\* A book leaves a job of removals only when its sidecars have gone or are out of reach.
LEMMA TileStep ==
  DeviceJobsTypeOK /\ BatchInv /\ TilesInv /\ NativeTileGoes /\ [DeviceJobsNext]_deviceJobsVars => NativeTileGoes'
<1> DEFINE Free(c) == \A id \in Identity : <<c, id>> \notin tiles
<1> SUFFICES ASSUME DeviceJobsTypeOK, BatchInv, TilesInv, NativeTileGoes, [DeviceJobsNext]_deviceJobsVars,
                    NEW c \in Book, c \notin orphaned', kind' = "remove", progress'[c] = "done",
                    ~Chosen(todo, c)', Choice(c)' \in MobiFamily
             PROVE  Free(c)'
  BY DEF NativeTileGoes
<1>1. ASSUME UNCHANGED formats, orphaned \subseteq orphaned', tiles' \subseteq tiles,
             kind = "remove", progress[c] = "done", ~Chosen(todo, c)
      PROVE  Free(c)'
  BY <1>1 DEF NativeTileGoes, Choice
<1>2. ASSUME NEW s \in {"done", "skipped", "failed"}, kind = "remove", todo # <<>>, Settle(s),
             UNCHANGED formats, orphaned \subseteq orphaned', tiles' \subseteq tiles,
             NEW h \in Book, h = Head(todo),
             s = "done" /\ h \notin orphaned' /\ Choice(h) \in MobiFamily => Free(h)'
      PROVE  Free(c)'
  <2>1. CASE c = h
    <3>1. progress'[h] = s
      BY <1>2, SettleFacts
    <3>2. s = "done" /\ h \notin orphaned' /\ Choice(h) \in MobiFamily
      BY <1>2, <2>1, <3>1 DEF Choice
    <3>. QED BY <1>2, <2>1, <3>2
  <2>2. CASE c # h
    <3>1. progress[c] = "done" /\ ~Chosen(todo, c)
      BY <1>2, <2>2, SettleFacts
    <3>. QED BY <1>1, <1>2, <3>1
  <2>. QED BY <2>1, <2>2
<1>. HIDE DEF Free
<1>3. ASSUME UNCHANGED batch, UNCHANGED formats, orphaned \subseteq orphaned', tiles' \subseteq tiles
      PROVE  Free(c)'
  BY <1>1, <1>3 DEF Chosen
<1>4. ASSUME NEW k \in {"send", "remove"}, NEW books \in Selection, BeginDeviceJob(k, books) PROVE FALSE
  BY <1>4, BeginStep DEF BeginDeviceJob
<1>5. ASSUME NEW b \in Book, Send(b) PROVE FALSE
  BY <1>5 DEF Send, SendMissing, SendFails, SendFile, UploadTile, Deciding, AtTile, At, Settle, Done
<1>6. ASSUME NEW b \in Book, NEW k \in {"send", "remove"}, PassOver(k, b) PROVE Free(c)'
  <2>1. kind = "remove" /\ todo # <<>> /\ b = Head(todo)
    BY <1>6 DEF PassOver, Deciding, At, Settle
  <2>2. PICK s \in {"skipped", "failed"} : Settle(s)
    BY <1>6 DEF PassOver
  <2>3. UNCHANGED <<formats, orphaned, tiles>>
    BY <1>6 DEF PassOver
  <2>. QED BY <1>2, <2>1, <2>2, <2>3
<1>7. ASSUME NEW b \in Book, Remove(b) PROVE Free(c)'
  <2>1. kind = "remove" /\ todo # <<>> /\ b = Head(todo)
    BY <1>7 DEF Remove, RemoveFails, RemoveFile, RemoveTile, Deciding, AtTile, At
  <2>2. CASE RemoveFails(b)
    BY <1>2, <2>1, <2>2 DEF RemoveFails
  <2>3. CASE RemoveFile(b) /\ Choice(b) \in files[b]
    <3>1. UNCHANGED <<formats, orphaned, tiles, kind, todo>> /\ progress' = [progress EXCEPT ![b] = "done"]
      BY <2>3 DEF RemoveFile, Deleted, Done
    <3>2. c # b
      BY <2>1, <3>1, TodoTail DEF Chosen
    <3>3. progress[c] = "done" /\ ~Chosen(todo, c)
      BY <3>1, <3>2 DEF BatchInv, Chosen
    <3>. QED BY <1>1, <2>1, <3>1, <3>3
  <2>4. CASE RemoveFile(b) /\ Choice(b) \notin files[b]
    <3>1. b \notin orphaned /\ Choice(b) \in MobiFamily => \A id \in Identity : <<b, id>> \notin tiles
      BY <2>4, IdentityAssumption DEF TilesInv, LibraryIdentity
    <3>2. UNCHANGED <<formats, tiles, orphaned>> /\ Settle("done")
      BY <2>4 DEF RemoveFile
    <3>3. b \notin orphaned' /\ Choice(b) \in MobiFamily => Free(b)'
      BY <3>1, <3>2 DEF Free
    <3>. QED BY <1>2, <2>1, <3>2, <3>3
  <2>5. CASE RemoveTile(b)
    <3>1. b \notin orphaned' /\ Choice(b) \in MobiFamily => Free(b)'
      <4>1. CASE tiles' = tiles \ {<<b, LibraryIdentity(b)>>} /\ UNCHANGED orphaned
        BY <4>1 DEF TilesInv, Free
      <4>2. CASE orphaned' = orphaned \cup {b}
        BY <4>2
      <4>. QED BY <2>5, <4>1, <4>2 DEF RemoveTile
    <3>. QED BY <1>2, <2>1, <2>5, <3>1 DEF RemoveTile
  <2>. QED BY <1>7, <2>2, <2>3, <2>4, <2>5 DEF Remove
<1>8. ASSUME NEW b \in Book, IdentityRaises(b) \/ TransferRaises(b) PROVE FALSE
  BY <1>8 DEF IdentityRaises, TransferRaises, AbortBatch
<1>9. ASSUME NEW b \in Book, NEW f \in Fmt, GainFormat(b, f) \/ LoseFile(b, f) PROVE Free(c)'
  <2>1. CASE GainFormat(b, f)
    BY <2>1 DEF GainFormat
  <2>2. CASE LoseFile(b, f)
    BY <1>3, <2>2 DEF LoseFile, Orphans
  <2>. QED BY <1>9, <2>1, <2>2
<1>10. CASE DeviceJobsReturn
  BY <1>10 DEF DeviceJobsReturn, EndBatch
<1>. QED BY <1>3, <1>4, <1>5, <1>6, <1>7, <1>8, <1>9, <1>10 DEF DeviceJobsNext

-----------------------------------------------------------------------------
(* Badges. *)

\* No two books have one file name.  (Two entries of one title and author may.)
StemsDistinct == \A b, c \in Book : Stem[b] = Stem[c] => b = c

LEMMA BadgeStep ==
  ASSUME StemsDistinct
  PROVE  DeviceJobsTypeOK /\ BatchInv /\ NamesInv /\ BadgeInv /\ [DeviceJobsNext]_deviceJobsVars => BadgeInv'
<1> SUFFICES ASSUME DeviceJobsTypeOK, BatchInv, NamesInv, BadgeInv, [DeviceJobsNext]_deviceJobsVars PROVE BadgeInv'
  OBVIOUS
<1> DEFINE NoTile == \A b \in Book : ~AtTile("send", b)'
<1>1. ASSUME UNCHANGED <<cache, sentAs>>, strayed \subseteq strayed',
             NoTile \/ UNCHANGED <<batch, formats>>
      PROVE  BadgeInv'
  BY <1>1 DEF BadgeInv, AtTile, At, Choice, SentName
<1>2. ASSUME NEW b \in Book, SendFile(b) PROVE BadgeInv'
  <2>1. /\ UNCHANGED <<kind, todo, formats, strayed>> /\ b = Head(todo)
        /\ Choice(b) \in Fmt
        /\ cache' = cache \cup {SentName(b)}
        /\ sentAs' = [sentAs EXCEPT ![b] = SentName(b)]
    BY <1>2, ChoiceIn DEF SendFile, Deciding, At, Done
  <2>2. sentAs'[b] = SentName(b) /\ \A c \in Book \ {b} : sentAs'[c] = sentAs[c]
    BY <2>1 DEF DeviceJobsTypeOK
  <2>3. \A c \in Book : SentName(c)' = SentName(c)
    BY <2>1 DEF Choice, SentName
  <2>4. \A c \in Book : AtTile("send", c)' => c = b
    BY <2>1 DEF AtTile, At
  <2>5. ASSUME NEW c \in Book \ strayed', NEW f \in Fmt, FileName(c, f) \in cache'
        PROVE  sentAs'[c] = FileName(c, f)
    <3>1. CASE c # b
      <4>1. FileName(c, f) # SentName(b)
        BY <3>1, StemsDistinct DEF StemsDistinct, SentName, FileName
      <4>. QED BY <2>1, <2>2, <2>5, <3>1, <4>1 DEF BadgeInv
    <3>2. CASE c = b /\ FileName(c, f) # SentName(b)
      <4>1. sentAs[b] = FileName(b, f)
        BY <2>1, <2>5, <3>2 DEF BadgeInv
      <4>2. FileName(b, f) # NoName
        BY DEF FileName, NoName, Fmt, NoFmt
      <4>. QED BY <2>1, <2>5, <3>2, <4>1, <4>2 DEF NamesInv
    <3>. QED BY <2>2, <3>1, <3>2
  <2>. QED BY <2>1, <2>3, <2>4, <2>5 DEF BadgeInv
<1>3. ASSUME NEW b \in Book, RemoveFile(b) PROVE BadgeInv'
  <2>1. /\ kind' = "remove" /\ UNCHANGED strayed
        /\ cache' = cache \ {DestName(b)}
        /\ sentAs' = [sentAs EXCEPT ![b] = IF @ = DestName(b) THEN NoName ELSE @]
    BY <1>3 DEF RemoveFile, Deleted, Deciding, At, Done, Settle
  <2>2. \A c \in Book \ {b} : sentAs'[c] = sentAs[c]
    BY <2>1 DEF DeviceJobsTypeOK
  <2>3. ASSUME b \notin strayed, NEW f \in Fmt, FileName(b, f) \in cache' PROVE FALSE
    <3>1. sentAs[b] = FileName(b, f) /\ FileName(b, f) # NoName
      BY <2>1, <2>3 DEF BadgeInv, FileName, NoName, Fmt, NoFmt
    <3>2. DestName(b) = sentAs[b]
      BY <2>3, <3>1, NamesAgree
    <3>. QED BY <2>1, <2>3, <3>1, <3>2
  <2>4. NoTile
    BY <2>1 DEF AtTile, At
  <2>. QED BY <2>1, <2>2, <2>3, <2>4 DEF BadgeInv
<1>4. ASSUME NEW b \in Book,
             \/ \E k \in {"send", "remove"} : PassOver(k, b)
             \/ SendMissing(b) \/ SendFails(b) \/ UploadTile(b) \/ RemoveFails(b) \/ RemoveTile(b)
             \/ IdentityRaises(b) \/ TransferRaises(b)
      PROVE  BadgeInv'
  <2>1. UNCHANGED <<cache, sentAs>> /\ strayed \subseteq strayed'
    BY <1>4 DEF PassOver, SendMissing, SendFails, UploadTile, RemoveFails, RemoveTile,
       IdentityRaises, TransferRaises
  <2>2. NoTile
    BY <1>4, NotAtTile
  <2>. QED BY <1>1, <2>1, <2>2
<1>5. ASSUME \/ \E k \in {"send", "remove"}, books \in Selection : BeginDeviceJob(k, books)
             \/ DeviceJobsReturn
      PROVE  BadgeInv'
  <2>1. UNCHANGED <<cache, sentAs, strayed>>
    BY <1>5 DEF BeginDeviceJob, DeviceJobsReturn
  <2>2. NoTile
    BY <1>5, NotAtTile
  <2>. QED BY <1>1, <2>1, <2>2
<1>6. ASSUME NEW b \in Book, NEW f \in Fmt, GainFormat(b, f) \/ LoseFile(b, f) PROVE BadgeInv'
  <2>1. UNCHANGED <<batch, cache, sentAs>> /\ strayed \subseteq strayed'
    BY <1>6 DEF GainFormat, LoseFile, Strays
  <2>2. NoTile \/ UNCHANGED <<batch, formats>>
    BY <1>6 DEF GainFormat, LoseFile, AtTile, At
  <2>. QED BY <1>1, <2>1, <2>2
<1>7. CASE UNCHANGED deviceJobsVars
  BY <1>1, <1>7
<1>. QED BY <1>2, <1>3, <1>4, <1>5, <1>6, <1>7 DEF DeviceJobsNext, Send, Remove

-----------------------------------------------------------------------------
(* The theorems. *)

LEMMA JobsInvInit == DeviceJobsInit => JobsInv /\ BadgeInv
<1> SUFFICES ASSUME DeviceJobsInit PROVE JobsInv /\ BadgeInv
  OBVIOUS
<1>1. DeviceJobsTypeOK
  BY FaultAssumption DEF DeviceJobsInit, BatchInit, DeviceJobsTypeOK, BookStatesDeclared
<1>2. BatchInv
  BY DEF DeviceJobsInit, BatchInit, BatchInv, Unsettled
<1>3. NamesInv /\ TilesInv /\ BadgeInv /\ NoEpub /\ NativeTileGoes
  BY DEF DeviceJobsInit, BatchInit, NamesInv, TilesInv, BadgeInv, NoEpub, NativeTileGoes, AtTile, At
<1>. QED BY <1>1, <1>2, <1>3 DEF JobsInv

LEMMA JobsInvStep == JobsInv /\ [DeviceJobsNext]_deviceJobsVars => JobsInv'
BY TypeStep, BatchStep, NamesStep, TilesStep, TileStep DEF JobsInv

\* A job that is done has settled each of its books, whatever failed, and no send
\* leaves an EPUB on the device.
THEOREM JobsCorrect == DeviceJobsSpec => []JobInv
<1>1. JobsInv => JobInv
  BY DEF JobsInv, BatchInv, NoEpub, JobInv, DoneJobsAreSettled, Chosen
<1>. QED BY <1>1, JobsInvInit, JobsInvStep, PTL DEF DeviceJobsSpec

\* Removing looks for the name that sending used, unless the library has changed
\* since in what the names are taken from.
THEOREM NamesCorrect == DeviceJobsSpec => []HandlersAgreeOnName
<1>1. JobsInv => HandlersAgreeOnName
  BY NamesAgree DEF JobsInv, HandlersAgreeOnName
<1>. QED BY <1>1, JobsInvInit, JobsInvStep, PTL DEF DeviceJobsSpec

\* When a removal is over, a book with a Kindle format has no sidecar, unless one of
\* its sidecars was of a file that the library has replaced or lost since.
THEOREM TilesCorrect == DeviceJobsSpec => []NativeTileGoes
<1>1. JobsInv => NativeTileGoes
  BY DEF JobsInv
<1>. QED BY <1>1, JobsInvInit, JobsInvStep, PTL DEF DeviceJobsSpec

\* If no two books have one file name, a book sent in a format of its own is badged,
\* and the badge of a book that has been removed clears.
THEOREM BadgesCorrect == ASSUME StemsDistinct PROVE DeviceJobsSpec => []BadgesFollow
<1>1. ASSUME JobsInv, BadgeInv PROVE BadgesFollow
  <2>1. ASSUME NEW b \in Book, AtTile("send", b), Choice(b) # "EPUB" PROVE Badged(b)
    <3>1. Choice(b) \in formats[b]
      BY <1>1, <2>1, ChoiceIn DEF JobsInv, NamesInv, Fmt, NoFmt
    <3>2. FileName(b, Choice(b)) \in cache
      BY <1>1, <2>1 DEF BadgeInv, SentName, DeviceFormat
    <3>. QED BY <3>1, <3>2 DEF Badged
  <2>2. ASSUME NEW b \in Book \ strayed, AtTile("remove", b) PROVE ~Badged(b)
    <3>1. sentAs[b] = NoName /\ formats[b] \subseteq Fmt
      BY <1>1, <2>2, ChoiceIn DEF JobsInv, NamesInv
    <3>2. \A f \in Fmt : FileName(b, f) # NoName
      BY DEF FileName, NoName, Fmt, NoFmt
    <3>. QED BY <1>1, <3>1, <3>2 DEF BadgeInv, Badged
  <2>. QED BY <2>1, <2>2 DEF BadgesFollow
<1>2. JobsInv /\ BadgeInv /\ [DeviceJobsNext]_deviceJobsVars => (JobsInv /\ BadgeInv)'
  BY JobsInvStep, BadgeStep DEF JobsInv
<1>. QED BY <1>1, <1>2, JobsInvInit, PTL DEF DeviceJobsSpec
-----------------------------------------------------------------------------
(***************************************************************************)
(* Conversion, for every set of books and whatever fails, raises, is       *)
(* cancelled or disappears.  Its loop is the one above.                    *)
(***************************************************************************)
USE DEF conversionVars

\* A book is in the library once its upload is done; no job, not even one that is
\* aborted, shows two books as running.
ConvertLoop ==
  /\ kind \in {"none", "upload", "convert"}
  /\ kind = "upload" => \A i \in 1..Len(todo) : formats[todo[i]] # {} <=> progress[todo[i]] = "done"
  /\ kind = "convert" => target \in ConvertTargets
  /\ \A b, c \in Book : progress[b] = "running" /\ progress[c] = "running" => b = c

InterruptedInv ==
  /\ \A b \in interrupted : formats[b] # {}
  /\ kind = "upload" => \A b \in Book : progress[b] = "done" => b \notin interrupted

\* A call that has found a source is for a convertible book, and what it adds is the
\* whole output of a conversion that succeeded.
CallInv ==
  conv # Idle =>
    /\ conv.source # NoFmt => Convertible(conv.book)
    /\ conv.stage \in {"converting", "exited", "adding", "done", "error"} => conv.source # NoFmt
    /\ conv.stage = "no_source" => conv.source = NoFmt
    /\ conv.stage = "exited" => (conv.exit = 0 => conv.output # "partial")
    /\ conv.stage = "adding" => conv.exit = 0 /\ conv.output = "whole"
    /\ conv.half => conv.stage = "error"

\* The call is for the book in hand and the target that is due, and the library has
\* of the book what the handler knows, and the target besides once the call is done.
HandInv ==
  /\ conv # Idle /\ kind # "none" => todo # <<>> /\ conv.book = Head(todo)
  /\ conv # Idle /\ kind = "upload" =>
       /\ plan # <<>> /\ conv.target = Head(plan) /\ conv.target \notin known
       /\ conv.source = PickSource(known, conv.target)
       /\ conv.stage = "done" => conv.target \in formats[conv.book]
  /\ conv # Idle /\ kind = "convert" =>
       /\ conv.target = target /\ progress[conv.book] = "running"
       /\ ~conv.half => formats[conv.book] = IF conv.stage = "done" THEN known \cup {target} ELSE known
  /\ kind = "convert" /\ conv = Idle => \A b \in Book : progress[b] # "running"

\* What an upload's conversions start from.
KnownInv ==
  kind = "upload" /\ plan # <<>> =>
    /\ known \subseteq formats[Head(todo)]
    /\ Convertible(Head(todo)) => known \cap (ReaderFormats \cup {"PDF"}) # {}

\* The conversion of b to t is still planned.
ToCome(b, t) ==
  /\ kind = "upload" /\ todo # <<>> /\ b = Head(todo)
  /\ \E i \in 1..Len(plan) : plan[i] = t

\* A convertible book has each reader format, or gets it later in its upload.
ReadersInv ==
  \A b \in Book \ (failures \cup interrupted) :
     Convertible(b) => \A t \in ReaderFormats : t \in formats[b] \/ ToCome(b, t)

ConvInv ==
  /\ ConversionTypeOK /\ BatchInv /\ ConvertLoop /\ InterruptedInv
  /\ CallInv /\ HandInv /\ KnownInv /\ ReadersInv

\* A source is one of the formats there are, other than the target.
LEMMA SourceIn ==
  ASSUME NEW available \in SUBSET Fmt, NEW t
  PROVE  /\ PickSource(available, t) \in Fmt \cup {NoFmt}
         /\ PickSource(available, t) # NoFmt <=> (available \ {t}) \cap (ReaderFormats \cup {"PDF"}) # {}
<1> DEFINE others == available \ {t}
<1>1. /\ Len(SourceOrder) = 4
      /\ SourceOrder[1] = "EPUB" /\ SourceOrder[2] = "AZW3" /\ SourceOrder[3] = "MOBI" /\ SourceOrder[4] = "PDF"
  <2>. USE DEF SourceOrder
  <2>3. Len(SourceOrder) = 4
    OBVIOUS
  <2>4. SourceOrder[1] = "EPUB" /\ SourceOrder[2] = "AZW3" /\ SourceOrder[3] = "MOBI" /\ SourceOrder[4] = "PDF"
    OBVIOUS
  <2>. QED BY <2>3, <2>4
<1>2. PickSource(available, t) = FirstOf(SourceOrder, others) /\ others \in SUBSET Fmt
  BY DEF PickSource
<1>. HIDE DEF others
<1>3. NoFmt \notin Fmt
  BY DEF NoFmt, Fmt
<1>4. \A f : f \in ReaderFormats \cup {"PDF"} <=> \E k \in 1..Len(SourceOrder) : SourceOrder[k] = f
  <2>1. \A k \in 1..Len(SourceOrder) : k = 1 \/ k = 2 \/ k = 3 \/ k = 4
    BY <1>1
  <2>2. \A k \in {1, 2, 3, 4} : k \in 1..Len(SourceOrder)
    BY <1>1
  <2>. QED BY <1>1, <2>1, <2>2 DEF ReaderFormats
<1>5. CASE \E k \in 1..Len(SourceOrder) : SourceOrder[k] \in others
  <2>1. PICK k \in 1..Len(SourceOrder) : SourceOrder[k] \in others
    BY <1>5
  <2>2. FirstOf(SourceOrder, others) \in others
    BY <1>1, <2>1, FirstOfProperties
  <2>. QED BY <1>2, <1>3, <1>4, <2>1, <2>2 DEF others
<1>6. CASE \A k \in 1..Len(SourceOrder) : SourceOrder[k] \notin others
  <2>1. FirstOf(SourceOrder, others) = NoFmt
    BY <1>1, <1>6, FirstOfNothing
  <2>. QED BY <1>2, <1>4, <1>6, <2>1 DEF NoFmt, others
<1>. QED BY <1>5, <1>6

LEMMA ConvInit == ConversionInit => ConvInv
<1> SUFFICES ASSUME ConversionInit PROVE ConvInv
  OBVIOUS
<1> USE DEF ConversionInit, BatchInit
<1>1. ConversionTypeOK
  BY ConversionAssumption DEF ConversionTypeOK, BookStatesDeclared, BookState
<1>2. BatchInv
  BY DEF BatchInv, Unsettled
<1>. QED BY <1>1, <1>2
       DEF ConvInv, ConvertLoop, InterruptedInv, CallInv, HandInv, KnownInv, ReadersInv, Convertible

-----------------------------------------------------------------------------
(* convert_book's steps. *)

LEMMA IdleIsNoCall == \A c \in Calls : c # Idle /\ c.stage # "idle"
<1>1. \A c \in Calls : c.stage \in Stages
  BY DEF Calls
<1>2. Idle.stage = "idle" /\ "idle" \notin Stages
  BY DEF Idle, Stages
<1>. QED BY <1>1, <1>2

\* The call goes on, with the library as it is.
LEMMA ConvThread ==
  ASSUME ConvInv, conv # Idle, conv' \in Calls, CallInv',
         conv'.book = conv.book, conv'.target = conv.target, conv'.source = conv.source,
         conv'.stage # "done", conv.stage # "done", ~conv'.half, ~conv.half,
         UNCHANGED <<batch, library, target, plan, known, failures, interrupted, losses>>
  PROVE  ConvInv'
<1>1. conv' # Idle
  BY IdleIsNoCall
<1>2. ConversionTypeOK'
  BY DEF ConvInv, ConversionTypeOK, BookStatesDeclared
<1>3. BatchInv' /\ ConvertLoop' /\ InterruptedInv' /\ KnownInv' /\ ReadersInv'
  BY DEF ConvInv, BatchInv, Chosen, ConvertLoop, InterruptedInv, KnownInv, ReadersInv, ToCome, Convertible
<1>4. HandInv'
  BY <1>1 DEF ConvInv, HandInv
<1>. QED BY <1>2, <1>3, <1>4 DEF ConvInv

LEMMA ReturnIn ==
  ASSUME conv \in Calls, NEW verdict \in {"done", "no_source", "error"}, NEW half \in BOOLEAN, Return(verdict, half)
  PROVE  /\ conv' \in Calls /\ conv'.stage = verdict /\ conv'.half = half
         /\ conv'.book = conv.book /\ conv'.target = conv.target /\ conv'.source = conv.source
BY DEF Return, Calls, Stages

LEMMA ConvSteps ==
  ASSUME ConvInv, FindSource \/ EbookConvert \/ CheckOutput
  PROVE  ConvInv'
<1>1. conv.stage \in {"called", "converting", "exited"}
      /\ UNCHANGED <<batch, library, target, plan, known, failures, interrupted, losses>>
  BY DEF FindSource, EbookConvert, CheckOutput
<1>2. conv # Idle /\ conv \in Calls
  BY <1>1 DEF ConvInv, ConversionTypeOK, Idle
<1>3. ~conv.half /\ conv.book \in Book /\ conv.source \in Fmt \cup {NoFmt}
  BY <1>1, <1>2 DEF ConvInv, CallInv, Calls
<1>4. \A b : Convertible(b)' <=> Convertible(b)
  BY <1>1 DEF Convertible
<1>5. CASE FindSource
  <2>1. CASE conv.source = NoFmt /\ Return("no_source", FALSE)
    <3>1. /\ conv' \in Calls /\ conv'.stage = "no_source" /\ ~conv'.half
          /\ conv'.book = conv.book /\ conv'.target = conv.target /\ conv'.source = conv.source
      BY <1>2, <2>1, ReturnIn
    <3>2. CallInv'
      BY <2>1, <3>1 DEF CallInv
    <3>. QED BY <1>1, <1>2, <1>3, <3>1, <3>2, ConvThread
  <2>2. CASE conv.source # NoFmt /\ Return("error", FALSE)
    <3>1. /\ conv' \in Calls /\ conv'.stage = "error" /\ ~conv'.half
          /\ conv'.book = conv.book /\ conv'.target = conv.target /\ conv'.source = conv.source
      BY <1>2, <2>2, ReturnIn
    <3>2. CallInv'
      BY <1>2, <1>4, <2>2, <3>1 DEF CallInv, ConvInv
    <3>. QED BY <1>1, <1>2, <1>3, <3>1, <3>2, ConvThread
  <2>3. CASE conv.source \in files[conv.book] /\ conv' = [conv EXCEPT !.stage = "converting"]
    <3>1. /\ conv' \in Calls /\ conv'.stage = "converting" /\ ~conv'.half
          /\ conv'.book = conv.book /\ conv'.target = conv.target /\ conv'.source = conv.source
      BY <1>2, <1>3, <2>3 DEF Calls, Stages
    <3>2. conv.source # NoFmt
      BY <1>3, <2>3 DEF ConvInv, ConversionTypeOK, Fmt, NoFmt
    <3>3. CallInv'
      BY <1>2, <1>4, <3>1, <3>2 DEF CallInv, ConvInv
    <3>. QED BY <1>1, <1>2, <1>3, <3>1, <3>3, ConvThread
  <2>. QED BY <1>5, <2>1, <2>2, <2>3 DEF FindSource
<1>6. CASE EbookConvert
  <2>1. PICK exit \in {0, 1}, output \in {"none", "partial", "whole"} :
           /\ exit = 0 => output # "partial"
           /\ conv' = [conv EXCEPT !.stage = "exited", !.exit = exit, !.output = output]
    BY <1>6 DEF EbookConvert
  <2>2. /\ conv' \in Calls /\ conv'.stage = "exited" /\ ~conv'.half /\ conv'.exit = exit /\ conv'.output = output
        /\ conv'.book = conv.book /\ conv'.target = conv.target /\ conv'.source = conv.source
    BY <1>2, <1>3, <2>1 DEF Calls, Stages
  <2>3. conv.source # NoFmt
    BY <1>2, <1>6 DEF EbookConvert, ConvInv, CallInv
  <2>4. CallInv'
    BY <1>2, <1>4, <2>1, <2>2, <2>3 DEF CallInv, ConvInv
  <2>. QED BY <1>1, <1>2, <1>3, <2>2, <2>4, ConvThread
<1>7. CASE CheckOutput
  <2>1. conv.stage = "exited" /\ conv.source # NoFmt /\ (conv.exit = 0 => conv.output # "partial")
    BY <1>2, <1>7 DEF CheckOutput, ConvInv, CallInv
  <2>2. CASE Return("error", FALSE)
    <3>1. /\ conv' \in Calls /\ conv'.stage = "error" /\ ~conv'.half
          /\ conv'.book = conv.book /\ conv'.target = conv.target /\ conv'.source = conv.source
      BY <1>2, <2>2, ReturnIn
    <3>2. CallInv'
      BY <1>2, <1>4, <2>1, <3>1 DEF CallInv, ConvInv
    <3>. QED BY <1>1, <1>2, <1>3, <3>1, <3>2, ConvThread
  <2>3. CASE conv.exit = 0 /\ conv.output # "none" /\ conv' = [conv EXCEPT !.stage = "adding"]
    <3>1. /\ conv' \in Calls /\ conv'.stage = "adding" /\ ~conv'.half
          /\ conv'.book = conv.book /\ conv'.target = conv.target /\ conv'.source = conv.source
          /\ conv'.exit = conv.exit /\ conv'.output = conv.output
      BY <1>2, <1>3, <2>3 DEF Calls, Stages
    <3>2. conv.output = "whole"
      BY <1>2, <2>1, <2>3 DEF Calls
    <3>3. CallInv'
      BY <1>2, <1>4, <2>1, <2>3, <3>1, <3>2 DEF CallInv, ConvInv
    <3>. QED BY <1>1, <1>2, <1>3, <3>1, <3>3, ConvThread
  <2>. QED BY <1>7, <2>2, <2>3 DEF CheckOutput
<1>. QED BY <1>5, <1>6, <1>7

\* calibredb adds the output: the book was convertible before.
LEMMA GainStep ==
  ASSUME ConvInv, conv # Idle, conv.stage = "adding", Gain(conv.book, conv.target)
  PROVE  /\ formats' \in [Book -> SUBSET Fmt] /\ files' \in [Book -> SUBSET Fmt]
         /\ formats'[conv.book] = formats[conv.book] \cup {conv.target}
         /\ \A c \in Book : c # conv.book => formats'[c] = formats[c]
         /\ \A c \in Book : Convertible(c)' <=> Convertible(c)
         /\ \A c \in Book : formats'[c] # {} <=> formats[c] # {}
         /\ conv \in Calls /\ conv.book \in Book /\ conv.target \in Fmt /\ conv.source # NoFmt
<1>1. conv \in Calls /\ conv.book \in Book /\ conv.target \in Fmt
  BY DEF ConvInv, ConversionTypeOK, Calls, ConvertTargets, Fmt
<1>2. conv.source # NoFmt /\ Convertible(conv.book)
  BY DEF ConvInv, CallInv
<1>3. /\ formats' \in [Book -> SUBSET Fmt] /\ files' \in [Book -> SUBSET Fmt]
      /\ formats'[conv.book] = formats[conv.book] \cup {conv.target}
      /\ \A c \in Book : c # conv.book => formats'[c] = formats[c]
  BY <1>1 DEF Gain, ConvInv, ConversionTypeOK
<1>4. \A c \in Book : Convertible(c)' <=> Convertible(c)
  BY <1>2, <1>3 DEF Convertible
<1>5. \A c \in Book : formats'[c] # {} <=> formats[c] # {}
  BY <1>2, <1>3 DEF Convertible
<1>. QED BY <1>1, <1>2, <1>3, <1>4, <1>5

\* What the invariant says of the library holds on as a book gains a format.
LEMMA GainKeeps ==
  ASSUME ConvInv, conv # Idle, conv.stage = "adding", Gain(conv.book, conv.target),
         UNCHANGED <<batch, target, plan, known, failures, interrupted, losses>>, conv' \in Calls \cup {Idle}
  PROVE  /\ ConversionTypeOK' /\ BatchInv' /\ ConvertLoop' /\ InterruptedInv' /\ KnownInv' /\ ReadersInv'
<1>1. /\ formats' \in [Book -> SUBSET Fmt] /\ files' \in [Book -> SUBSET Fmt]
      /\ \A c \in Book : formats[c] \subseteq formats'[c]
      /\ \A c \in Book : Convertible(c)' <=> Convertible(c)
      /\ \A c \in Book : formats'[c] # {} <=> formats[c] # {}
  BY GainStep
<1>2. plan # <<>> => Head(todo) \in Book
  BY TodoTail DEF ConvInv, ConversionTypeOK
<1>3. ConversionTypeOK'
  BY <1>1, <1>2 DEF ConvInv, ConversionTypeOK, BookStatesDeclared
<1>4. BatchInv'
  BY DEF ConvInv, BatchInv, Chosen
<1>5. ConvertLoop'
  <2>1. \A i \in 1..Len(todo) : todo[i] \in Book
    BY DEF ConvInv, BatchInv
  <2>. QED BY <1>1, <2>1 DEF ConvInv, ConvertLoop
<1>6. InterruptedInv'
  BY <1>1 DEF ConvInv, InterruptedInv, ConversionTypeOK
<1>7. KnownInv'
  BY <1>1, <1>2 DEF ConvInv, KnownInv
<1>8. ReadersInv'
  BY <1>1 DEF ConvInv, ReadersInv, ToCome
<1>. QED BY <1>3, <1>4, <1>5, <1>6, <1>7, <1>8

LEMMA ConvAddFormat ==
  ASSUME ConvInv, AddFormat \/ AddFormatFails
  PROVE  ConvInv'
<1>1. conv.stage = "adding" /\ UNCHANGED <<batch, target, plan, known, failures, interrupted, losses>>
  BY DEF AddFormat, AddFormatFails
<1>2. conv # Idle /\ conv \in Calls /\ ~conv.half /\ conv.source # NoFmt /\ Convertible(conv.book)
  BY <1>1 DEF ConvInv, ConversionTypeOK, Idle, CallInv
<1>3. CASE UNCHANGED library /\ Return("error", FALSE)
  <2>1. /\ conv' \in Calls /\ conv'.stage = "error" /\ ~conv'.half
        /\ conv'.book = conv.book /\ conv'.target = conv.target /\ conv'.source = conv.source
    BY <1>2, <1>3, ReturnIn
  <2>2. CallInv'
    BY <1>2, <1>3, <2>1 DEF CallInv, Convertible
  <2>. QED BY <1>1, <1>2, <1>3, <2>1, <2>2, ConvThread
<1>4. ASSUME NEW verdict \in {"done", "error"}, NEW half \in BOOLEAN, half <=> verdict = "error",
             Gain(conv.book, conv.target), Return(verdict, half)
      PROVE  ConvInv'
  <2>1. /\ conv' \in Calls /\ conv'.stage = verdict /\ conv'.half = half
        /\ conv'.book = conv.book /\ conv'.target = conv.target /\ conv'.source = conv.source
    BY <1>2, <1>4, ReturnIn
  <2>2. conv' # Idle
    BY <2>1, IdleIsNoCall
  <2>3. /\ formats'[conv.book] = formats[conv.book] \cup {conv.target} /\ conv.book \in Book
        /\ \A c \in Book : Convertible(c)' <=> Convertible(c)
    BY <1>1, <1>2, <1>4, GainStep
  <2>4. CallInv'
    BY <1>2, <1>4, <2>1, <2>3 DEF CallInv
  <2>5. HandInv'
    BY <1>1, <1>2, <1>4, <2>1, <2>2, <2>3 DEF ConvInv, HandInv
  <2>6. ConversionTypeOK' /\ BatchInv' /\ ConvertLoop' /\ InterruptedInv' /\ KnownInv' /\ ReadersInv'
    BY <1>1, <1>2, <1>4, <2>1, GainKeeps
  <2>. QED BY <2>4, <2>5, <2>6 DEF ConvInv
<1>. QED BY <1>3, <1>4 DEF AddFormat, AddFormatFails

-----------------------------------------------------------------------------
(* The steps of the two loops. *)

\* In a job, only the book in hand shows as running.
LEMMA RunningHead ==
  ASSUME BatchInv, kind # "none", NEW b \in Book, progress[b] = "running"
  PROVE  todo # <<>> /\ b = Head(todo)
<1>1. PICK i \in 1..Len(todo) : todo[i] = b
  BY DEF BatchInv, Unsettled, Chosen
<1>2. i = 1
  BY <1>1 DEF BatchInv
<1>. QED BY <1>1, <1>2, EmptySeq DEF BatchInv

\* An upload's book has its formats, and a plan, only when it is done.
LEMMA HeadOfUpload ==
  ASSUME ConvInv, kind = "upload", todo # <<>>
  PROVE  /\ formats[Head(todo)] # {} <=> progress[Head(todo)] = "done"
         /\ progress[Head(todo)] # "done" => plan = <<>> /\ conv = Idle
<1>1. 1 \in 1..Len(todo) /\ todo[1] = Head(todo)
  BY HeadTailProperties, LenProperties DEF ConvInv, BatchInv
<1>2. formats[Head(todo)] # {} <=> progress[Head(todo)] = "done"
  BY <1>1 DEF ConvInv, ConvertLoop
<1>. QED BY <1>2 DEF ConvInv, ConversionTypeOK, HandInv

\* Once nothing is planned, a book has what it can have, and keeps it.
LEMMA ReadersKept ==
  ASSUME ConvInv, plan = <<>>, UNCHANGED failures, interrupted \subseteq interrupted',
         \A b \in Book : formats'[b] = formats[b] \/ b \in interrupted'
  PROVE  ReadersInv'
<1>1. \A b \in Book \ (failures \cup interrupted) : Convertible(b) => ReaderFormats \subseteq formats[b]
  BY DEF ConvInv, ReadersInv, ToCome
<1>. QED BY <1>1 DEF ReadersInv, Convertible

LEMMA ConvBegin ==
  ASSUME ConvInv, NEW books \in Selection,
         BeginUpload(books) \/ \E t \in ConvertTargets : BeginConvert(books, t)
  PROVE  ConvInv'
<1>1. PICK k \in {"upload", "convert"} : BeginBatch(k, books)
  BY DEF BeginUpload, BeginConvert
<1>2. BeginBatch(k, books)
  BY <1>1
<1>3. /\ BatchInv' /\ kind = "none" /\ kind' = k /\ todo' = books
      /\ \A b \in Book : progress'[b] \in {"pending", "none"}
  BY <1>2, BeginStep DEF BeginBatch
<1>4. /\ UNCHANGED <<library, plan, known, conv, failures, interrupted, losses>> /\ conv = Idle
      /\ target' \in ConvertTargets \cup {NoFmt} /\ (k = "convert" => target' \in ConvertTargets)
  BY <1>3 DEF BeginUpload, BeginConvert, BeginBatch, ConvInv, ConversionTypeOK
<1>5. plan = <<>>
  BY <1>3 DEF ConvInv, ConversionTypeOK
<1>6. ConversionTypeOK'
  BY <1>3, <1>4, <1>5 DEF ConvInv, ConversionTypeOK, BookStatesDeclared, BookState
<1>7. ConvertLoop'
  <2>1. \A i \in 1..Len(books) : books[i] \in Book
    BY <1>3 DEF BatchInv
  <2>2. k = "upload" => \A i \in 1..Len(books) : formats[books[i]] = {}
    BY <1>3, <2>1 DEF BeginUpload, BeginConvert, BeginBatch
  <2>. QED BY <1>3, <1>4, <2>1, <2>2 DEF ConvertLoop
<1>8. InterruptedInv' /\ CallInv' /\ HandInv' /\ KnownInv'
  BY <1>3, <1>4, <1>5 DEF ConvInv, InterruptedInv, CallInv, HandInv, KnownInv
<1>9. ReadersInv'
  BY <1>4, <1>5, ReadersKept
<1>. QED BY <1>3, <1>6, <1>7, <1>8, <1>9 DEF ConvInv

\* The book in hand is settled, and with it the conversion.
LEMMA ConvSettle ==
  ASSUME ConvInv, todo # <<>>, kind # "none", plan = <<>>, conv' = Idle, known' \subseteq Fmt,
         NEW s \in {"done", "skipped", "failed"}, Settle(s),
         UNCHANGED <<target, plan, failures, losses>>,
         formats' \in [Book -> SUBSET Fmt], files' \in [Book -> SUBSET Fmt],
         interrupted \subseteq interrupted', interrupted' \subseteq interrupted \cup {Head(todo)},
         s = "done" /\ kind = "upload" => Head(todo) \notin interrupted',
         \A c \in interrupted' : formats'[c] # {},
         \A c \in Book : formats'[c] = formats[c] \/ (c = Head(todo) /\ c \in interrupted')
  PROVE  ConvInv'
<1>1. BatchInv'
  BY SettleStep DEF ConvInv
<1>2. /\ todo' = Tail(todo) /\ kind' = kind /\ Head(todo) \in Book /\ progress'[Head(todo)] = s
      /\ \A b \in Book : b # Head(todo) => progress'[b] = progress[b]
  BY SettleFacts DEF ConvInv, Settle
<1>3. ConversionTypeOK'
  BY <1>1, <1>2 DEF ConvInv, ConversionTypeOK, BatchInv, BookStatesDeclared, BookState
<1>4. \A b \in Book : progress'[b] # "running"
  BY <1>2, RunningHead DEF ConvInv
<1>5. ConvertLoop'
  <2>1. /\ Len(Tail(todo)) = Len(todo) - 1 /\ Len(todo) \in Nat
        /\ \A i \in 1..Len(Tail(todo)) :
             Tail(todo)[i] = todo[i + 1] /\ Tail(todo)[i] # Head(todo) /\ Tail(todo)[i] \in Book
    BY TodoTail DEF ConvInv
  <2>2. ASSUME kind = "upload", NEW i \in 1..Len(Tail(todo))
        PROVE  formats'[Tail(todo)[i]] # {} <=> progress'[Tail(todo)[i]] = "done"
    <3>1. i + 1 \in 1..Len(todo) /\ Tail(todo)[i] = todo[i + 1]
      BY <2>1
    <3>2. formats[todo[i + 1]] # {} <=> progress[todo[i + 1]] = "done"
      BY <2>2, <3>1 DEF ConvInv, ConvertLoop
    <3>. QED BY <1>2, <2>1, <3>1, <3>2
  <2>. QED BY <1>2, <1>4, <2>2 DEF ConvInv, ConvertLoop
<1>6. InterruptedInv'
  BY <1>2 DEF ConvInv, InterruptedInv
<1>7. CallInv' /\ HandInv' /\ KnownInv'
  BY <1>4 DEF CallInv, HandInv, KnownInv
<1>8. ReadersInv'
  BY ReadersKept
<1>. QED BY <1>1, <1>3, <1>5, <1>6, <1>7, <1>8 DEF ConvInv

LEMMA ConvSettled ==
  ASSUME ConvInv, NEW b \in Book,
         RefuseBook(b) \/ (\E f \in Fmt : AddUnnoticed(b, f)) \/ NextUpload(b) \/ ConvertUnknown(b) \/ TakeConverted(b)
  PROVE  ConvInv'
<1>1. kind # "none" /\ todo # <<>> /\ b = Head(todo) /\ UNCHANGED <<target, plan, failures, losses>>
  BY DEF RefuseBook, AddUnnoticed, Adding, NextUpload, ConvertUnknown, TakeConverted, At
<1>2. formats \in [Book -> SUBSET Fmt] /\ files \in [Book -> SUBSET Fmt] /\ known \subseteq Fmt
  BY DEF ConvInv, ConversionTypeOK
<1>3. \A c \in interrupted : formats[c] # {}
  BY DEF ConvInv, InterruptedInv
<1>4. CASE RefuseBook(b)
  <2>1. /\ kind = "upload" /\ progress[b] = "running" /\ UNCHANGED <<library, known, conv, interrupted>>
        /\ plan = <<>> /\ conv = Idle
    BY <1>1, <1>4, HeadOfUpload DEF RefuseBook, Adding, At
  <2>2. PICK s \in {"skipped", "failed"} : Settle(s)
    BY <1>4 DEF RefuseBook
  <2>. QED BY <1>1, <1>2, <1>3, <2>1, <2>2, ConvSettle
<1>5. ASSUME NEW f \in Fmt, AddUnnoticed(b, f) PROVE ConvInv'
  <2>1. /\ kind = "upload" /\ progress[b] = "running" /\ UNCHANGED <<known, conv>>
        /\ plan = <<>> /\ conv = Idle /\ Settle("failed") /\ Added(b, f) /\ interrupted' = interrupted \cup {b}
    BY <1>1, <1>5, HeadOfUpload DEF AddUnnoticed, Adding, At
  <2>2. /\ formats' \in [Book -> SUBSET Fmt] /\ files' \in [Book -> SUBSET Fmt] /\ formats'[b] = {f}
        /\ \A c \in Book : c # b => formats'[c] = formats[c]
    BY <1>2, <2>1 DEF Added
  <2>3. \A c \in interrupted' : formats'[c] # {}
    BY <1>3, <2>1, <2>2 DEF ConvInv, ConversionTypeOK
  <2>. QED BY <1>1, <1>2, <2>1, <2>2, <2>3, ConvSettle
<1>6. CASE NextUpload(b)
  <2>1. /\ kind = "upload" /\ progress[b] = "done" /\ plan = <<>> /\ todo' = Tail(todo) /\ known' = {}
        /\ UNCHANGED <<kind, progress, outcome, library, conv, interrupted>>
    BY <1>6 DEF NextUpload, At
  <2>2. conv = Idle
    BY <1>1, <2>1 DEF ConvInv, HandInv
  <2>3. Settle("done")
    <3>1. progress' = [progress EXCEPT ![Head(todo)] = "done"]
      BY <1>1, <2>1 DEF ConvInv, BatchInv
    <3>. QED BY <2>1, <3>1 DEF Settle
  <2>4. b \notin interrupted
    BY <2>1 DEF ConvInv, InterruptedInv
  <2>. QED BY <1>1, <1>2, <1>3, <2>1, <2>2, <2>3, <2>4, ConvSettle
<1>7. CASE ConvertUnknown(b)
  <2>1. /\ kind = "convert" /\ UNCHANGED <<library, known, conv, interrupted>> /\ conv = Idle /\ Settle("failed")
    BY <1>7 DEF ConvertUnknown, At
  <2>2. plan = <<>>
    BY <2>1 DEF ConvInv, ConversionTypeOK
  <2>. QED BY <1>1, <1>2, <1>3, <2>1, <2>2, ConvSettle
<1>8. CASE TakeConverted(b)
  <2>1. /\ kind = "convert" /\ UNCHANGED <<library, interrupted>> /\ conv' = Idle /\ known' = {}
    BY <1>8 DEF TakeConverted, At
  <2>2. PICK s \in {"done", "skipped", "failed"} : Settle(s)
    BY <1>8 DEF TakeConverted
  <2>3. plan = <<>> /\ kind # "upload"
    BY <2>1 DEF ConvInv, ConversionTypeOK
  <2>. QED BY <1>1, <1>2, <1>3, <2>1, <2>2, <2>3, ConvSettle
<1>. QED BY <1>4, <1>5, <1>6, <1>7, <1>8

\* The book in hand is shown as running, with the call for it, or without.
LEMMA ConvMark ==
  ASSUME ConvInv, NEW b \in Book, TakeUpload(b) \/ ConvertBook(b)
  PROVE  ConvInv'
<1>1. /\ kind # "none" /\ todo # <<>> /\ b = Head(todo) /\ progress' = [progress EXCEPT ![Head(todo)] = "running"]
      /\ UNCHANGED <<kind, todo, outcome, library, target, plan, failures, interrupted, losses>>
  BY DEF TakeUpload, ConvertBook, At
<1>2. /\ BatchInv' /\ progress'[b] = "running"
      /\ \A c \in Book : c # b => progress'[c] = progress[c]
  BY <1>1, MarkStep DEF ConvInv
<1>3. \A c \in Book : progress'[c] = "running" => c = b
  BY <1>1, <1>2, RunningHead DEF ConvInv
<1>4. conv = Idle /\ plan = <<>>
  <2>1. CASE TakeUpload(b)
    BY <1>1, <2>1, HeadOfUpload DEF TakeUpload, At
  <2>2. CASE ConvertBook(b)
    BY <1>1, <2>2 DEF ConvertBook, At, ConvInv, ConversionTypeOK
  <2>. QED BY <2>1, <2>2
<1>5. InterruptedInv' /\ KnownInv' /\ ReadersInv'
  <2>1. InterruptedInv'
    BY <1>1, <1>2 DEF ConvInv, InterruptedInv
  <2>2. KnownInv'
    BY <1>1, <1>4 DEF KnownInv
  <2>. QED BY <1>1, <1>4, <2>1, <2>2, ReadersKept
<1>6. CASE TakeUpload(b)
  <2>1. kind = "upload" /\ formats[b] = {} /\ UNCHANGED <<known, conv>>
    BY <1>1, <1>6, HeadOfUpload DEF TakeUpload, At
  <2>2. ConversionTypeOK'
    BY <1>1, <1>2, <1>4, <2>1 DEF ConvInv, ConversionTypeOK, BookStatesDeclared, BatchInv
  <2>3. ConvertLoop'
    <3>1. \A i \in 1..Len(todo) : todo[i] \in Book
      BY DEF ConvInv, BatchInv
    <3>. QED BY <1>1, <1>2, <1>3, <2>1, <3>1 DEF ConvInv, ConvertLoop
  <2>4. CallInv' /\ HandInv'
    BY <1>1, <1>4, <2>1 DEF CallInv, HandInv
  <2>. QED BY <1>2, <1>5, <2>2, <2>3, <2>4 DEF ConvInv
<1>7. CASE ConvertBook(b)
  <2>1. kind = "convert" /\ known' = formats[b] /\ Call(b, target) /\ target \in ConvertTargets /\ formats[b] \in SUBSET Fmt
    BY <1>7 DEF ConvertBook, At, ConvInv, ConvertLoop, ConversionTypeOK
  <2>2. /\ conv' \in Calls /\ conv'.stage = "called" /\ conv'.book = b /\ conv'.target = target /\ ~conv'.half
        /\ conv'.source = PickSource(formats[b], target)
    BY <2>1, SourceIn DEF Call, Calls, Stages
  <2>3. conv' # Idle
    BY <2>2, IdleIsNoCall
  <2>4. ConversionTypeOK'
    BY <1>1, <1>2, <1>4, <2>1, <2>2 DEF ConvInv, ConversionTypeOK, BookStatesDeclared, BatchInv
  <2>5. ConvertLoop'
    BY <1>1, <1>3, <2>1 DEF ConvertLoop
  <2>6. CallInv'
    <3>1. conv'.source # NoFmt => Convertible(b)
      BY <2>1, <2>2, SourceIn DEF Convertible
    <3>2. Convertible(b)' <=> Convertible(b)
      BY <1>1 DEF Convertible
    <3>. QED BY <2>2, <3>1, <3>2 DEF CallInv
  <2>7. HandInv'
    BY <1>1, <1>2, <2>1, <2>2, <2>3 DEF HandInv
  <2>. QED BY <1>2, <1>5, <2>4, <2>5, <2>6, <2>7 DEF ConvInv
<1>. QED BY <1>6, <1>7

LEMMA ConvAddBook ==
  ASSUME ConvInv, NEW b \in Book, NEW f \in Fmt, AddBook(b, f)
  PROVE  ConvInv'
<1>1. /\ kind = "upload" /\ todo # <<>> /\ b = Head(todo) /\ formats[b] = {} /\ conv = Idle
      /\ formats' = [formats EXCEPT ![b] = {f}] /\ files' = [files EXCEPT ![b] = {f}]
      /\ progress' = [progress EXCEPT ![b] = "done"] /\ plan' = AutoconvertTargets /\ known' = {f}
      /\ UNCHANGED <<kind, todo, outcome, target, conv, failures, interrupted, losses>>
  <2>1. kind = "upload" /\ todo # <<>> /\ b = Head(todo) /\ progress[b] = "running"
    BY DEF AddBook, Adding, At
  <2>. QED BY <2>1, HeadOfUpload DEF AddBook, Added
<1>2. /\ Len(plan') = 3 /\ plan' # <<>> /\ plan' \in Seq(ConvertTargets)
      /\ \A t \in ReaderFormats : \E i \in 1..3 : plan'[i] = t
  <2>. USE DEF AutoconvertTargets, ConvertTargets
  <2>1. Len(plan') = 3 /\ plan' # <<>>
    BY <1>1
  <2>2. plan' \in Seq(ConvertTargets)
    BY <1>1
  <2>3. plan'[1] = "AZW3" /\ plan'[2] = "MOBI" /\ plan'[3] = "EPUB"
    BY <1>1
  <2>4. 1 \in 1..3 /\ 2 \in 1..3 /\ 3 \in 1..3
    OBVIOUS
  <2>. HIDE DEF AutoconvertTargets
  <2>. QED BY <2>1, <2>2, <2>3, <2>4 DEF ReaderFormats
<1>3. /\ BatchInv' /\ progress'[b] = "done"
      /\ \A c \in Book : c # b => progress'[c] = progress[c]
  BY <1>1, MarkStep DEF ConvInv
<1>4. /\ formats' \in [Book -> SUBSET Fmt] /\ files' \in [Book -> SUBSET Fmt] /\ formats'[b] = {f}
      /\ \A c \in Book : c # b => formats'[c] = formats[c]
  BY <1>1 DEF ConvInv, ConversionTypeOK
<1>5. ConversionTypeOK'
  BY <1>1, <1>2, <1>3, <1>4 DEF ConvInv, ConversionTypeOK, BatchInv, BookStatesDeclared
<1>6. ConvertLoop'
  <2>1. \A i \in 1..Len(todo) : todo[i] \in Book
    BY DEF ConvInv, BatchInv
  <2>2. \A c \in Book : progress'[c] = "running" => progress[c] = "running"
    BY <1>3
  <2>. QED BY <1>1, <1>3, <1>4, <2>1, <2>2 DEF ConvInv, ConvertLoop
<1>7. InterruptedInv'
  BY <1>1, <1>3, <1>4 DEF ConvInv, InterruptedInv, ConversionTypeOK
<1>8. CallInv' /\ HandInv' /\ KnownInv'
  BY <1>1, <1>4 DEF CallInv, HandInv, KnownInv, Convertible
<1>9. ReadersInv'
  <2>1. \A t \in ReaderFormats : ToCome(b, t)'
    BY <1>1, <1>2 DEF ToCome
  <2>2. \A c \in Book : c # b => \A t \in ReaderFormats : ~ToCome(c, t)
    BY <1>1 DEF ToCome
  <2>. QED BY <1>1, <1>4, <2>1, <2>2 DEF ConvInv, ReadersInv, Convertible
<1>. QED BY <1>3, <1>5, <1>6, <1>7, <1>8, <1>9 DEF ConvInv

\* An upload calls convert_book for the target that is due.
LEMMA ConvAutoconvert ==
  ASSUME ConvInv, NEW b \in Book, Autoconvert(b)
  PROVE  ConvInv'
<1>1. /\ kind = "upload" /\ todo # <<>> /\ b = Head(todo) /\ plan # <<>> /\ conv = Idle /\ Head(plan) \notin known
      /\ known' = known /\ Call(b, Head(plan))
      /\ UNCHANGED <<batch, library, target, plan, failures, interrupted, losses>>
  BY DEF Autoconvert, At
<1>2. Head(plan) \in ConvertTargets /\ known \in SUBSET Fmt
  BY <1>1, HeadTailProperties DEF ConvInv, ConversionTypeOK
<1>3. /\ conv' \in Calls /\ conv'.stage = "called" /\ conv'.book = b /\ conv'.target = Head(plan) /\ ~conv'.half
      /\ conv'.source = PickSource(known, Head(plan))
  BY <1>1, <1>2, SourceIn DEF Call, Calls, Stages
<1>4. ConversionTypeOK' /\ BatchInv' /\ ConvertLoop' /\ InterruptedInv' /\ KnownInv' /\ ReadersInv'
  BY <1>1, <1>3 DEF ConvInv, ConversionTypeOK, BookStatesDeclared, BatchInv, Chosen, ConvertLoop,
                    InterruptedInv, KnownInv, ReadersInv, ToCome, Convertible
<1>5. CallInv'
  <2>1. conv'.source # NoFmt => known \cap (ReaderFormats \cup {"PDF"}) # {}
    BY <1>2, <1>3, SourceIn
  <2>2. conv'.source # NoFmt => Convertible(b)
    BY <1>1, <2>1 DEF ConvInv, KnownInv, Convertible
  <2>3. Convertible(b)' <=> Convertible(b)
    BY <1>1 DEF Convertible
  <2>. QED BY <1>3, <2>2, <2>3 DEF CallInv
<1>6. HandInv'
  BY <1>1, <1>3 DEF HandInv
<1>. QED BY <1>4, <1>5, <1>6 DEF ConvInv

\* One target of the plan is dealt with: the book has it now, or could not get it.
LEMMA ConvPlan ==
  ASSUME ConvInv, NEW b \in Book, PassTarget(b) \/ TakeAutoconverted(b)
  PROVE  ConvInv'
<1> DEFINE t == Head(plan)
<1>1. /\ kind = "upload" /\ todo # <<>> /\ b = Head(todo) /\ plan # <<>>
      /\ plan' = Tail(plan) /\ conv' = Idle
      /\ UNCHANGED <<batch, library, target, interrupted, losses>>
  <2>1. CASE PassTarget(b)
    BY <2>1 DEF PassTarget, At
  <2>2. CASE TakeAutoconverted(b)
    <3>1. kind = "upload" /\ conv # Idle
      BY <2>2 DEF TakeAutoconverted, At, Idle
    <3>. QED BY <2>2, <3>1 DEF TakeAutoconverted, At, ConvInv, HandInv
  <2>. QED BY <2>1, <2>2
<1>2. /\ t \in ConvertTargets /\ t = plan[1] /\ plan' \in Seq(ConvertTargets)
      /\ Len(plan) \in Nat /\ Len(plan') = Len(plan) - 1
      /\ \A i \in 1..Len(plan') : plan'[i] = plan[i + 1]
  BY <1>1, HeadTailProperties DEF ConvInv, ConversionTypeOK
<1>3. known \subseteq formats[b] /\ known \in SUBSET Fmt /\ (Convertible(b) => known \cap (ReaderFormats \cup {"PDF"}) # {})
  BY <1>1 DEF ConvInv, KnownInv, ConversionTypeOK
<1>4. /\ known' \subseteq formats[b] /\ known \subseteq known'
      /\ failures \subseteq failures' /\ failures' \subseteq Book
      /\ Convertible(b) => t \in formats[b] \/ b \in failures'
  <2>1. CASE PassTarget(b)
    BY <1>3, <2>1 DEF PassTarget, ConvInv, ConversionTypeOK
  <2>2. CASE TakeAutoconverted(b)
    <3>1. conv.stage \in {"done", "no_source", "error"} /\ conv # Idle
      BY <2>2 DEF TakeAutoconverted, Idle
    <3>2. /\ conv.book = b /\ conv.target = t /\ t \notin known /\ conv.source = PickSource(known, t)
          /\ conv.stage = "done" => t \in formats[b]
      BY <1>1, <3>1 DEF ConvInv, HandInv
    <3>3. conv.stage = "no_source" => ~Convertible(b)
      <4>1. conv.stage = "no_source" => PickSource(known, t) = NoFmt
        BY <3>1, <3>2 DEF ConvInv, CallInv
      <4>2. known \ {t} = known
        BY <3>2
      <4>. QED BY <1>3, <4>1, <4>2, SourceIn
    <3>4. /\ known' = IF conv.stage = "done" THEN known \cup {t} ELSE known
          /\ failures' = IF conv.stage = "error" THEN failures \cup {b} ELSE failures
      BY <2>2, <3>2 DEF TakeAutoconverted
    <3>. QED BY <1>3, <3>1, <3>2, <3>3, <3>4 DEF ConvInv, ConversionTypeOK
  <2>. QED BY <2>1, <2>2
<1>. HIDE DEF t
<1>5. \A c : Convertible(c)' <=> Convertible(c)
  BY <1>1 DEF Convertible
<1>6. BatchInv'
  BY <1>1 DEF ConvInv, BatchInv, Chosen
<1>7. ConversionTypeOK'
  <2>1. known' \subseteq Fmt
    BY <1>1, <1>4 DEF ConvInv, ConversionTypeOK
  <2>. QED BY <1>1, <1>2, <1>4, <2>1 DEF ConvInv, ConversionTypeOK, BookStatesDeclared
<1>8. ConvertLoop' /\ InterruptedInv' /\ CallInv' /\ HandInv' /\ KnownInv'
  BY <1>1, <1>3, <1>4, <1>5 DEF ConvInv, ConvertLoop, InterruptedInv, CallInv, HandInv, KnownInv
<1>9. ReadersInv'
  <2>1. ASSUME NEW c \in Book \ (failures' \cup interrupted'), Convertible(c)', NEW r \in ReaderFormats
        PROVE  r \in formats'[c] \/ ToCome(c, r)'
    <3>1. c \notin failures \cup interrupted /\ Convertible(c)
      BY <1>1, <1>4, <1>5, <2>1
    <3>2. r \in formats[c] \/ ToCome(c, r)
      BY <2>1, <3>1 DEF ConvInv, ReadersInv
    <3>3. CASE r \in formats[c]
      BY <1>1, <3>3
    <3>4. CASE ToCome(c, r) /\ r # t
      <4>1. PICK i \in 1..Len(plan) : plan[i] = r
        BY <3>4 DEF ToCome
      <4>2. i - 1 \in 1..Len(plan') /\ plan'[i - 1] = r
        BY <1>2, <3>4, <4>1
      <4>. QED BY <1>1, <3>4, <4>2 DEF ToCome
    <3>5. CASE ToCome(c, r) /\ r = t
      BY <1>1, <1>4, <2>1, <3>1, <3>5 DEF ToCome
    <3>. QED BY <3>2, <3>3, <3>4, <3>5
  <2>. QED BY <2>1 DEF ReadersInv
<1>. QED BY <1>6, <1>7, <1>8, <1>9 DEF ConvInv

-----------------------------------------------------------------------------
(* The end of a job, and what ends it midway. *)

\* There is no job any more; what its thread may still do keeps to the invariant.
LEMMA ConvOver ==
  ASSUME ConvInv, BatchInv', kind' = "none", plan' = <<>>, known' \subseteq Fmt,
         target' \in ConvertTargets \cup {NoFmt}, conv' = Idle \/ UNCHANGED <<conv, library>>,
         UNCHANGED <<failures, losses>>,
         \A b, c \in Book : progress'[b] = "running" /\ progress'[c] = "running" => b = c,
         formats' \in [Book -> SUBSET Fmt], files' \in [Book -> SUBSET Fmt],
         \A c \in Book : formats[c] \subseteq formats'[c],
         interrupted \subseteq interrupted', interrupted' \subseteq Book,
         \A c \in interrupted' : formats'[c] # {},
         plan # <<>> => Head(todo) \in interrupted',
         \A c \in Book : c \in interrupted' \/ (Convertible(c)' => Convertible(c))
  PROVE  ConvInv'
<1>1. ConversionTypeOK'
  BY DEF ConvInv, ConversionTypeOK, BatchInv, BookStatesDeclared
<1>2. ConvertLoop' /\ InterruptedInv' /\ HandInv' /\ KnownInv'
  BY DEF ConvertLoop, InterruptedInv, HandInv, KnownInv
<1>3. CallInv'
  BY DEF ConvInv, CallInv, Convertible
<1>4. ReadersInv'
  BY DEF ConvInv, ReadersInv, ToCome
<1>. QED BY <1>1, <1>2, <1>3, <1>4 DEF ConvInv

\* What becomes of the states of a job that goes.
LEMMA JobOver ==
  ASSUME ConvInv,
         \/ kind # "none" /\ todo # <<>> /\ AbortBatch(progress[Head(todo)])
         \/ kind # "none" /\ todo # <<>> /\ AbortBatch("running")
         \/ BatchGone \/ EndBatch
  PROVE  /\ BatchInv' /\ kind' = "none"
         /\ \A b, c \in Book : progress'[b] = "running" /\ progress'[c] = "running" => b = c
<1>1. ASSUME kind # "none", todo # <<>>, NEW s \in {"pending", "running", "done"}, AbortBatch(s)
      PROVE  /\ BatchInv' /\ kind' = "none"
             /\ \A b, c \in Book : progress'[b] = "running" /\ progress'[c] = "running" => b = c
  <2>1. BatchInv' /\ kind' = "none"
    BY <1>1, AbortStep DEF ConvInv, AbortBatch
  <2>2. \A b \in Book : b # Head(todo) => progress'[b] # "running"
    BY <1>1, RunningHead DEF AbortBatch, ConvInv, BatchInv
  <2>. QED BY <2>1, <2>2
<1>2. todo # <<>> => progress[Head(todo)] \in {"pending", "running", "done"}
  <2>1. todo # <<>> => 1 \in 1..Len(todo) /\ todo[1] = Head(todo)
    BY HeadTailProperties, LenProperties DEF ConvInv, BatchInv
  <2>. QED BY <2>1 DEF ConvInv, BatchInv
<1>3. CASE BatchGone
  BY <1>3, GoneStep DEF BatchGone, ConvInv
<1>4. CASE EndBatch
  <2>1. /\ kind' = "none" /\ outcome' = "done" /\ UNCHANGED <<todo, progress>> /\ todo = <<>> /\ outcome = "running"
    BY <1>4 DEF EndBatch, ConvInv, BatchInv
  <2>2. \A b \in Book : progress[b] \notin Unsettled
    BY <2>1 DEF ConvInv, BatchInv, Chosen
  <2>3. BatchInv'
    BY <2>1, <2>2 DEF ConvInv, BatchInv
  <2>. QED BY <2>1, <2>2, <2>3 DEF Unsettled
<1>. QED BY <1>1, <1>2, <1>3, <1>4

\* What a job that goes leaves of its plan is marked.
LEMMA LeftOver ==
  ASSUME ConvInv, LeaveLoop
  PROVE  /\ plan' = <<>> /\ known' \subseteq Fmt /\ target' \in ConvertTargets \cup {NoFmt}
         /\ UNCHANGED <<failures, losses>>
         /\ interrupted \subseteq interrupted' /\ interrupted' \subseteq Book
         /\ \A c \in interrupted' : formats[c] # {}
         /\ plan # <<>> => Head(todo) \in interrupted'
<1>1. plan # <<>> => Head(todo) \in Book /\ formats[Head(todo)] # {}
  BY TodoTail DEF ConvInv, ConversionTypeOK
<1>. QED BY <1>1 DEF LeaveLoop, ConvInv, ConversionTypeOK, InterruptedInv

\* A book that is added unnoticed is marked too.
LEMMA AddedLate ==
  ASSUME ConvInv, NEW b \in Book, NEW f \in Fmt, Adding(b), Added(b, f), interrupted' = interrupted \cup {b}
  PROVE  /\ formats' \in [Book -> SUBSET Fmt] /\ files' \in [Book -> SUBSET Fmt]
         /\ \A c \in Book : formats[c] \subseteq formats'[c]
         /\ interrupted \subseteq interrupted' /\ interrupted' \subseteq Book
         /\ \A c \in interrupted' : formats'[c] # {}
         /\ \A c \in Book : c \in interrupted' \/ (Convertible(c)' => Convertible(c))
         /\ kind # "none" /\ todo # <<>> /\ b = Head(todo) /\ plan = <<>> /\ conv = Idle
<1>1. kind = "upload" /\ todo # <<>> /\ b = Head(todo) /\ progress[b] = "running"
  BY DEF Adding, At
<1>2. formats[b] = {} /\ plan = <<>> /\ conv = Idle
  BY <1>1, HeadOfUpload
<1>3. /\ formats' \in [Book -> SUBSET Fmt] /\ files' \in [Book -> SUBSET Fmt] /\ formats'[b] = {f}
      /\ \A c \in Book : c # b => formats'[c] = formats[c]
  BY DEF Added, ConvInv, ConversionTypeOK
<1>. QED BY <1>1, <1>2, <1>3 DEF Convertible, ConvInv, ConversionTypeOK, InterruptedInv

\* The library may gain what calibredb was adding, or nothing.
LEMMA CutOff ==
  ASSUME ConvInv, UNCHANGED library \/ (conv.stage = "adding" /\ Gain(conv.book, conv.target)), conv # Idle
  PROVE  /\ formats' \in [Book -> SUBSET Fmt] /\ files' \in [Book -> SUBSET Fmt]
         /\ \A c \in Book : formats[c] \subseteq formats'[c]
         /\ \A c \in Book : Convertible(c)' <=> Convertible(c)
         /\ \A c \in Book : formats'[c] # {} <=> formats[c] # {}
<1>1. CASE UNCHANGED library
  BY <1>1 DEF ConvInv, ConversionTypeOK, Convertible
<1>2. CASE conv.stage = "adding" /\ Gain(conv.book, conv.target)
  BY <1>2, GainStep
<1>. QED BY <1>1, <1>2

LEMMA ConvEnd ==
  ASSUME ConvInv, ConversionReturn \/ ReadRaises \/ (\E b \in Book : AddRaises(b)) \/ ConvertRaises \/ StopWorker \/ Kill
  PROVE  ConvInv'
<1>1. /\ formats \in [Book -> SUBSET Fmt] /\ files \in [Book -> SUBSET Fmt] /\ known \subseteq Fmt
      /\ target \in ConvertTargets \cup {NoFmt} /\ interrupted \subseteq Book
      /\ \A c \in interrupted : formats[c] # {}
      /\ todo = <<>> => plan = <<>>
      /\ kind = "none" => plan = <<>>
  BY DEF ConvInv, ConversionTypeOK, InterruptedInv
<1>2. ASSUME LeaveLoop, UNCHANGED library, conv' \in {conv, Idle}, BatchInv', kind' = "none",
             \A b, c \in Book : progress'[b] = "running" /\ progress'[c] = "running" => b = c
      PROVE  ConvInv'
  <2>1. \A c \in Book : Convertible(c)' <=> Convertible(c)
    BY <1>2 DEF Convertible
  <2>. QED BY <1>1, <1>2, <2>1, LeftOver, ConvOver
<1>3. ASSUME LeaveLoop, conv # Idle, conv.stage = "adding", Gain(conv.book, conv.target),
             conv' = Idle, BatchInv', kind' = "none",
             \A b, c \in Book : progress'[b] = "running" /\ progress'[c] = "running" => b = c
      PROVE  ConvInv'
  <2>1. /\ formats' \in [Book -> SUBSET Fmt] /\ files' \in [Book -> SUBSET Fmt]
        /\ \A c \in Book : formats[c] \subseteq formats'[c]
        /\ \A c \in Book : Convertible(c)' <=> Convertible(c)
        /\ \A c \in Book : formats'[c] # {} <=> formats[c] # {}
    BY <1>3, CutOff
  <2>2. interrupted' \subseteq Book /\ \A c \in interrupted' : formats'[c] # {}
    BY <1>3, <2>1, LeftOver
  <2>. QED BY <1>3, <2>1, <2>2, LeftOver, ConvOver
<1>4. ASSUME NEW b \in Book, NEW f \in Fmt, Adding(b), Added(b, f), interrupted' = interrupted \cup {b},
             UNCHANGED <<target, plan, known, failures, losses>>, conv' \in {conv, Idle}, BatchInv', kind' = "none",
             \A a, c \in Book : progress'[a] = "running" /\ progress'[c] = "running" => a = c
      PROVE  ConvInv'
  BY <1>1, <1>4, AddedLate, ConvOver
<1>5. CASE ConversionReturn
  <2>1. /\ EndBatch /\ target' = NoFmt /\ UNCHANGED <<library, plan, known, conv, failures, interrupted, losses>>
        /\ todo = <<>>
    BY <1>5 DEF ConversionReturn, EndBatch
  <2>2. \A c \in Book : Convertible(c)' <=> Convertible(c)
    BY <2>1 DEF Convertible
  <2>. QED BY <1>1, <2>1, <2>2, JobOver, ConvOver
<1>6. CASE ReadRaises
  BY <1>2, <1>6, JobOver DEF ReadRaises
<1>7. ASSUME NEW b \in Book, AddRaises(b) PROVE ConvInv'
  <2>1. kind # "none" /\ todo # <<>> /\ b = Head(todo) /\ AbortBatch("running") /\ Adding(b) /\ conv' = conv
    BY <1>7 DEF AddRaises, Adding, At
  <2>2. CASE LeaveLoop /\ UNCHANGED library
    BY <1>2, <2>1, <2>2, JobOver
  <2>3. CASE /\ \E f \in Fmt : Added(b, f)
             /\ interrupted' = interrupted \cup {b} /\ UNCHANGED <<target, plan, known, failures, losses>>
    BY <1>4, <2>1, <2>3, JobOver
  <2>. QED BY <1>7, <2>2, <2>3 DEF AddRaises
<1>8. CASE ConvertRaises
  <2>1. conv # Idle /\ conv' = Idle /\ (UNCHANGED library \/ (conv.stage = "adding" /\ Gain(conv.book, conv.target)))
    BY <1>8 DEF ConvertRaises
  <2>2. CASE kind # "none" /\ AbortBatch(progress[Head(todo)]) /\ LeaveLoop
    <3>1. todo # <<>>
      BY <2>1, <2>2 DEF ConvInv, HandInv
    <3>. QED BY <1>2, <1>3, <2>1, <2>2, <3>1, JobOver
  <2>3. CASE kind = "none" /\ UNCHANGED <<batch, target, plan, known, failures, interrupted, losses>>
    <3>1. BatchInv' /\ \A b, c \in Book : progress'[b] = "running" /\ progress'[c] = "running" => b = c
      BY <2>3 DEF ConvInv, BatchInv, ConvertLoop, Chosen
    <3>2. /\ formats' \in [Book -> SUBSET Fmt] /\ files' \in [Book -> SUBSET Fmt]
          /\ \A c \in Book : formats[c] \subseteq formats'[c]
          /\ \A c \in Book : Convertible(c)' <=> Convertible(c)
          /\ \A c \in Book : formats'[c] # {} <=> formats[c] # {}
      BY <2>1, CutOff
    <3>. QED BY <1>1, <2>1, <2>3, <3>1, <3>2, ConvOver
  <2>. QED BY <1>8, <2>2, <2>3 DEF ConvertRaises
<1>9. ASSUME BatchGone, LastWrite, conv' \in {conv, Idle} PROVE ConvInv'
  <2>1. CASE LeaveLoop /\ UNCHANGED library
    BY <1>2, <1>9, <2>1, JobOver
  <2>2. ASSUME NEW b \in Book, NEW f \in Fmt, Adding(b), Added(b, f), interrupted' = interrupted \cup {Head(todo)},
               UNCHANGED <<target, plan, known, failures, losses>>
        PROVE  ConvInv'
    BY <1>4, <1>9, <2>2, JobOver DEF Adding, At
  <2>. QED BY <1>9, <2>1, <2>2 DEF LastWrite
<1>10. CASE StopWorker
  BY <1>9, <1>10 DEF StopWorker
<1>11. CASE Kill
  <2>1. CASE conv.stage = "adding" /\ Gain(conv.book, conv.target) /\ LeaveLoop
    <3>1. conv # Idle
      BY <2>1 DEF Idle
    <3>. QED BY <1>3, <1>11, <2>1, <3>1, JobOver DEF Kill
  <2>. QED BY <1>9, <1>11, <2>1 DEF Kill
<1>. QED BY <1>5, <1>6, <1>7, <1>8, <1>10, <1>11

LEMMA ConvStep == ConvInv /\ [ConversionNext]_conversionVars => ConvInv'
<1> SUFFICES ASSUME ConvInv, [ConversionNext]_conversionVars PROVE ConvInv'
  OBVIOUS
<1>1. ASSUME UNCHANGED <<batch, formats, target, plan, known, conv, failures, interrupted>>,
             files' \in [Book -> SUBSET Fmt], losses' \in 0..MaxLosses
      PROVE  ConvInv'
  <2>1. UNCHANGED <<kind, todo, progress, outcome>>
    BY <1>1 DEF batch
  <2>2. ConversionTypeOK'
    BY <1>1, <2>1 DEF ConvInv, ConversionTypeOK, BookStatesDeclared
  <2>3. BatchInv'
    BY <2>1 DEF ConvInv, BatchInv, Chosen
  <2>4. ConvertLoop' /\ InterruptedInv'
    BY <1>1, <2>1 DEF ConvInv, ConvertLoop, InterruptedInv
  <2>5. CallInv' /\ HandInv' /\ KnownInv'
    BY <1>1, <2>1 DEF ConvInv, CallInv, HandInv, KnownInv, Convertible
  <2>6. ReadersInv'
    BY <1>1, <2>1 DEF ConvInv, ReadersInv, Convertible, ToCome
  <2>. QED BY <2>2, <2>3, <2>4, <2>5, <2>6 DEF ConvInv
<1>2. CASE UNCHANGED conversionVars
  BY <1>1, <1>2 DEF ConvInv, ConversionTypeOK
<1>3. ASSUME NEW b \in Book, NEW f \in Fmt, LibraryLosesFile(b, f) PROVE ConvInv'
  <2>1. losses' \in 0..MaxLosses /\ files' \in [Book -> SUBSET Fmt]
    BY <1>3, ConversionAssumption DEF LibraryLosesFile, ConvInv, ConversionTypeOK
  <2>. QED BY <1>1, <1>3, <2>1 DEF LibraryLosesFile
<1>. QED
  BY <1>2, <1>3, ConvBegin, ConvMark, ConvAddBook, ConvSettled, ConvAutoconvert, ConvPlan,
     ConvSteps, ConvAddFormat, ConvEnd DEF ConversionNext, ConvertBookThread

\* A convertible book ends with all the reader formats, unless a conversion failed or
\* its upload was broken off; a job that is done has settled each of its books, and
\* none shows two as running (handlers.py:55-58, 112-142, 149-232).
THEOREM ReadersAreComplete == ConversionSpec => []AutoconvertCompletes
<1>1. ASSUME ConvInv PROVE AutoconvertCompletes
  <2>1. DoneJobsAreSettled
    BY <1>1 DEF ConvInv, BatchInv, Chosen, DoneJobsAreSettled, Unsettled
  <2>2. ASSUME NEW b \in Book, Convertible(b), b \notin failures \cup interrupted, ~InHand(b)
        PROVE  ReaderFormats \subseteq formats[b]
    <3>1. ASSUME NEW t \in ReaderFormats, ToCome(b, t) PROVE FALSE
      <4>1. kind = "upload" /\ todo # <<>> /\ b = Head(todo) /\ formats[b] # {}
        BY <2>2, <3>1 DEF ToCome, Convertible
      <4>2. progress[b] = "done"
        BY <1>1, <4>1, HeadOfUpload
      <4>. QED BY <2>2, <4>1, <4>2 DEF InHand, At
    <3>. QED BY <1>1, <2>2, <3>1 DEF ConvInv, ReadersInv
  <2>. QED BY <1>1, <2>1, <2>2 DEF ConvInv, ConvertLoop, InterruptedInv, AutoconvertCompletes
<1>. QED BY <1>1, ConvInit, ConvStep, PTL DEF ConversionSpec

\* Only a whole output reaches calibredb, and what a convert job reports of a book is
\* what it did: nothing, or the target and no more (calibre_cli.py:479-508).
THEOREM FailuresLeaveBooks == ConversionSpec => FailureLeavesBook
<1> DEFINE Whole == conv'.stage = "adding" => conv'.exit = 0 /\ conv'.output = "whole"
           Told  == \A b \in Book : kind = "convert" /\ progress[b] = "running" /\ progress'[b] # "running" /\ kind' # "none" =>
                      \/ progress'[b] = "done" /\ formats'[b] = known \cup {target}
                      \/ progress'[b] \in {"failed", "skipped"} /\ (formats'[b] = known \/ conv.half)
<1>1. ConvInv /\ [ConversionNext]_conversionVars => [Whole /\ Told]_conversionVars
  <2>. SUFFICES ASSUME ConvInv, ConversionNext PROVE Whole /\ Told
    OBVIOUS
  <2>1. Whole
    <3>1. ConvInv'
      BY ConvStep
    <3>2. conv'.stage = "adding" => conv' # Idle
      BY DEF Idle
    <3>. QED BY <3>1, <3>2 DEF ConvInv, CallInv
  <2>2. ASSUME NEW b \in Book, kind = "convert", progress[b] = "running", progress'[b] # "running", kind' # "none"
        PROVE  \/ progress'[b] = "done" /\ formats'[b] = known \cup {target}
               \/ progress'[b] \in {"failed", "skipped"} /\ (formats'[b] = known \/ conv.half)
    <3>1. todo # <<>> /\ b = Head(todo) /\ conv # Idle
      BY <2>2, RunningHead DEF ConvInv, HandInv
    <3>2. \E c \in Book : TakeConverted(c)
      BY <2>2, <3>1
      DEF ConversionNext, ConvertBookThread, FindSource, EbookConvert, CheckOutput, AddFormat, AddFormatFails,
          BeginUpload, BeginConvert, BeginBatch, AddBook, AddUnnoticed, LibraryLosesFile, TakeUpload, RefuseBook,
          AddRaises, Adding, PassTarget, Autoconvert, TakeAutoconverted, NextUpload, ConvertUnknown, ConvertBook, At,
          ConversionReturn, EndBatch, ReadRaises, AbortBatch, ConvertRaises, StopWorker, Kill, BatchGone
    <3>3. TakeConverted(b)
      BY <3>1, <3>2 DEF TakeConverted, At
    <3>4. /\ \/ conv.stage = "done" /\ Settle("done")
             \/ conv.stage = "no_source" /\ Settle("skipped")
             \/ conv.stage = "error" /\ Settle("failed")
          /\ UNCHANGED library
      BY <3>3 DEF TakeConverted
    <3>5. /\ conv.target = target /\ conv.book = b /\ (conv.half => conv.stage = "error")
          /\ ~conv.half => formats[b] = IF conv.stage = "done" THEN known \cup {target} ELSE known
      BY <2>2, <3>1 DEF ConvInv, HandInv, CallInv
    <3>6. ASSUME NEW s \in {"done", "skipped", "failed"}, Settle(s) PROVE progress'[b] = s
      BY <2>2, <3>1, <3>6, SettleFacts DEF ConvInv
    <3>. QED BY <3>4, <3>5, <3>6
  <2>. QED BY <2>1, <2>2
<1>. QED BY <1>1, ConvInit, ConvStep, PTL DEF ConversionSpec, FailureLeavesBook
-----------------------------------------------------------------------------
(***************************************************************************)
(* The refresh of metadata, for every set of books and fields.             *)
(***************************************************************************)
USE DEF job, call, refreshVars

\* While a book is at hand: what show_metadata showed is what it has, or nothing; and
\* once a match is found, it has been searched for by what was shown.
ShownInv ==
  /\ todo \in Seq(Book) /\ (kind = "none" => todo = <<>>)
  /\ progress \in [Book -> BookState \cup {"none", "no_match", "error"}]
  /\ step # "show" => seen \in {Present(Head(todo)), {}}
  /\ step \in {"cover", "set"} => seen # {}
  /\ step \in {"show", "fetch"} => ~image

RefInv == RefreshTypeOK /\ ShownInv

LEMMA RefInit == RefreshInit => RefInv
<1> SUFFICES ASSUME RefreshInit PROVE RefInv
  OBVIOUS
<1> USE DEF RefreshInit, BatchInit
<1>1. meta \in [Book -> [Field -> Source]] /\ cover \in [Book -> Source]
  BY DEF Source
<1>2. /\ progress \in [Book -> BookState \cup {"none", "no_match", "error"}]
      /\ todo = <<>> /\ todo \in Seq(Book) /\ mode = "fill_blanks" /\ step = "show"
  OBVIOUS
<1>3. covers = FALSE /\ image = FALSE /\ applied = FALSE /\ seen = {} /\ found = {}
  OBVIOUS
<1> HIDE DEF RefreshInit
<1>4. covers \in BOOLEAN /\ image \in BOOLEAN /\ applied \in BOOLEAN /\ ~image /\ ~applied
  BY <1>3
<1>5. RefreshTypeOK
  BY <1>1, <1>2, <1>3, <1>4 DEF RefreshTypeOK
<1>. QED BY <1>2, <1>4, <1>5 DEF RefInv, ShownInv

\* The head of the loop is a book, and what is left of it are books.
LEMMA RefHead ==
  ASSUME RefInv, NEW b \in Book, At("refresh", b)
  PROVE  /\ kind = "refresh" /\ todo # <<>> /\ b = Head(todo) /\ Tail(todo) \in Seq(Book)
BY HeadTailProperties DEF RefInv, ShownInv, At

\* A book is finished.
LEMMA RefFinish ==
  ASSUME RefInv, NEW b \in Book, At("refresh", b),
         NEW s \in {"done", "no_match", "error"}, Finish(s),
         meta' \in [Book -> [Field -> Source]], UNCHANGED <<cover, mode, covers>>
  PROVE  RefInv'
<1>1. /\ progress' = [progress EXCEPT ![b] = s] /\ todo' = Tail(todo) /\ UNCHANGED <<kind, outcome>>
      /\ step' = "show" /\ seen' = {} /\ found' = {} /\ image' = FALSE /\ applied' = FALSE
  BY RefHead DEF Finish, Settle
<1>2. progress' \in [Book -> BookState \cup {"none", "no_match", "error"}]
  BY <1>1 DEF RefInv, ShownInv, BookState
<1>3. RefreshTypeOK'
  BY <1>1, <1>2 DEF RefInv, RefreshTypeOK
<1>. QED BY <1>1, <1>2, <1>3, RefHead DEF RefInv, ShownInv

LEMMA RefShow ==
  ASSUME RefInv, NEW b \in Book, Show(b)
  PROVE  RefInv'
<1>1. /\ kind = "refresh" /\ todo # <<>> /\ b = Head(todo) /\ step = "show" /\ step' = "fetch"
      /\ seen' \in {Present(b), {}} /\ UNCHANGED <<batch, meta, cover, mode, covers, found, image, applied>>
  BY DEF Show, At
<1>2. Present(Head(todo))' = Present(b)
  BY <1>1 DEF Present
<1>. QED BY <1>1, <1>2 DEF RefInv, RefreshTypeOK, ShownInv, Present

LEMMA RefFetchFinds ==
  ASSUME RefInv, NEW b \in Book, FetchFinds(b)
  PROVE  RefInv'
<1>1. /\ todo # <<>> /\ step = "fetch" /\ step' = "cover" /\ seen # {} /\ seen' = seen
      /\ found' \in SUBSET Field /\ image' \in {FALSE, covers}
      /\ UNCHANGED <<batch, meta, cover, mode, covers, applied>>
  BY DEF FetchFinds, At
<1>2. ~applied
  BY <1>1 DEF RefInv, RefreshTypeOK
<1>3. image' \in BOOLEAN /\ (image' => covers)
  <2>1. covers \in BOOLEAN /\ (image' = FALSE \/ image' = covers)
    BY <1>1 DEF RefInv, RefreshTypeOK
  <2>2. CASE image' = FALSE
    BY <2>2
  <2>3. CASE image' = covers
    BY <2>1, <2>3
  <2>. QED BY <2>1, <2>2, <2>3
<1>4. RefreshTypeOK'
  BY <1>1, <1>2, <1>3 DEF RefInv, RefreshTypeOK, ShownInv
<1>. QED BY <1>1, <1>4 DEF RefInv, ShownInv, Present

LEMMA RefSetCover ==
  ASSUME RefInv, NEW b \in Book, SetCover(b)
  PROVE  RefInv'
<1>1. /\ todo # <<>> /\ step = "cover" /\ step' = "set"
      /\ UNCHANGED <<batch, meta, mode, covers, seen, found, image>>
  BY DEF SetCover, At
<1>2. /\ cover' \in [Book -> Source]
      /\ applied' \in BOOLEAN /\ (applied' => image)
  <2>1. CASE image /\ cover' = [cover EXCEPT ![b] = "fetched"] /\ applied' = TRUE
    BY <2>1 DEF RefInv, RefreshTypeOK, Source
  <2>2. CASE UNCHANGED <<cover, applied>>
    BY <2>2 DEF RefInv, RefreshTypeOK
  <2>. QED BY <2>1, <2>2 DEF SetCover
<1>. QED BY <1>1, <1>2 DEF RefInv, RefreshTypeOK, ShownInv, Present

\* What set_metadata writes.
LEMMA FieldsSet ==
  ASSUME RefInv, NEW b \in Book, SetFields(b)
  PROVE  /\ meta' \in [Book -> [Field -> Source]]
         /\ \A c \in Book : c # b => meta'[c] = meta[c]
         /\ \A f \in Field : meta'[b][f] = IF f \in ToApply THEN "fetched" ELSE meta[b][f]
<1> DEFINE new == [f \in Field |-> IF f \in ToApply THEN "fetched" ELSE meta[b][f]]
<1>1. meta' = [meta EXCEPT ![b] = new]
  BY DEF SetFields, RefInv, RefreshTypeOK
<1>2. new \in [Field -> Source]
  BY DEF RefInv, RefreshTypeOK, Source
<1>3. \A f \in Field : new[f] = IF f \in ToApply THEN "fetched" ELSE meta[b][f]
  OBVIOUS
<1>. HIDE DEF new
<1>. QED BY <1>1, <1>2, <1>3 DEF RefInv, RefreshTypeOK

LEMMA RefBegin ==
  ASSUME RefInv, NEW books \in Selection, NEW m \in {"fill_blanks", "overwrite"}, NEW c \in BOOLEAN,
         BeginRefresh(books, m, c)
  PROVE  RefInv'
<1>1. /\ kind = "none" /\ kind' = "refresh" /\ todo' = books /\ mode' = m /\ covers' = c
      /\ progress' = [b \in Book |-> IF Chosen(books, b) THEN "pending" ELSE "none"]
      /\ UNCHANGED <<meta, cover, step, seen, found, image, applied>>
  BY DEF BeginRefresh, BeginBatch
<1>2. books \in Seq(Book)
  BY SelectionOfBooks
<1>3. step = "show"
  BY <1>1 DEF RefInv, RefreshTypeOK, ShownInv
<1>4. progress' \in [Book -> BookState \cup {"none", "no_match", "error"}]
  BY <1>1 DEF BookState
<1>5. ~image /\ ~applied
  BY <1>3 DEF RefInv, RefreshTypeOK, ShownInv
<1>. QED BY <1>1, <1>2, <1>3, <1>4, <1>5 DEF RefInv, RefreshTypeOK, ShownInv

LEMMA RefEnd ==
  ASSUME RefInv, RefreshSnapshotFails \/ RefreshReturn
  PROVE  RefInv'
<1>1. step = "show" /\ kind' = "none" /\ todo' = <<>> /\ UNCHANGED <<meta, cover, mode, covers, step, seen, found, image, applied>>
  BY DEF RefreshSnapshotFails, RefreshReturn, AbortBatch, EndBatch, RefInv, RefreshTypeOK
<1>2. progress' \in [Book -> BookState \cup {"none", "no_match", "error"}]
  <2>1. CASE RefreshSnapshotFails
    <3>1. Head(todo) \in Book /\ progress' = [progress EXCEPT ![Head(todo)] = "pending"]
      BY <2>1, HeadTailProperties DEF RefreshSnapshotFails, AbortBatch, RefInv, ShownInv
    <3>. QED BY <3>1 DEF RefInv, ShownInv, BookState
  <2>2. CASE RefreshReturn
    BY <2>2 DEF RefreshReturn, EndBatch, RefInv, ShownInv
  <2>. QED BY <2>1, <2>2
<1>. QED BY <1>1, <1>2 DEF RefInv, RefreshTypeOK, ShownInv

LEMMA RefStep == RefInv /\ [RefreshNext]_refreshVars => RefInv'
<1> SUFFICES ASSUME RefInv, [RefreshNext]_refreshVars PROVE RefInv'
  OBVIOUS
<1>1. CASE UNCHANGED refreshVars
  BY <1>1 DEF RefInv, RefreshTypeOK, ShownInv, Present
<1>2. ASSUME NEW b \in Book, FetchFails(b) PROVE RefInv'
  <2>1. PICK s \in {"no_match", "error"} : Finish(s)
    BY <1>2 DEF FetchFails
  <2>2. At("refresh", b) /\ UNCHANGED <<meta, cover, mode, covers>>
    BY <1>2 DEF FetchFails
  <2>. QED BY <2>1, <2>2, RefFinish DEF RefInv, RefreshTypeOK
<1>3. ASSUME NEW b \in Book, SetFields(b) PROVE RefInv'
  <2>1. At("refresh", b) /\ Finish("done") /\ UNCHANGED <<cover, mode, covers>>
    BY <1>3 DEF SetFields
  <2>. QED BY <1>3, <2>1, FieldsSet, RefFinish
<1>4. ASSUME NEW b \in Book, SetFieldsFails(b) PROVE RefInv'
  <2>1. At("refresh", b) /\ Finish("error") /\ UNCHANGED <<meta, cover, mode, covers>>
    BY <1>4 DEF SetFieldsFails
  <2>. QED BY <2>1, RefFinish DEF RefInv, RefreshTypeOK
<1>. QED
  BY <1>1, <1>2, <1>3, <1>4, RefShow, RefFetchFinds, RefSetCover, RefBegin, RefEnd DEF RefreshNext

\* The variables of Refresh keep their types, a book's state among them.
THEOREM RefreshTypes == RefreshSpec => []RefreshTypeOK
<1>1. RefInv => RefreshTypeOK
  BY DEF RefInv
<1>. QED BY <1>1, RefInit, RefStep, PTL DEF RefreshSpec

\* Filling blanks replaces no field and no cover that a book has
\* (calibre_cli.py:174-182, 282-296).
THEOREM BlanksAreFilled == RefreshSpec => FillBlanksKeeps
<1> DEFINE Keeps == mode = "fill_blanks" =>
             \A b \in Book : /\ \A f \in Present(b) : meta'[b][f] = meta[b][f]
                             /\ cover[b] # "blank" => cover'[b] = cover[b]
<1>1. RefInv /\ [RefreshNext]_refreshVars => [Keeps]_refreshVars
  <2>. SUFFICES ASSUME RefInv, RefreshNext, mode = "fill_blanks"
                PROVE  \A b \in Book : /\ \A f \in Present(b) : meta'[b][f] = meta[b][f]
                                       /\ cover[b] # "blank" => cover'[b] = cover[b]
    OBVIOUS
  <2>1. CASE UNCHANGED <<meta, cover>>
    BY <2>1
  <2>2. ASSUME NEW b \in Book, SetFields(b)
        PROVE  \A c \in Book : \A f \in Present(c) : meta'[c][f] = meta[c][f]
    <3>1. b = Head(todo) /\ seen = Present(b)
      BY <2>2 DEF SetFields, At, RefInv, ShownInv
    <3>2. \A f \in Present(b) : f \in Field /\ f \notin ToApply
      BY <3>1 DEF ToApply, Present
    <3>. QED BY <2>2, <3>2, FieldsSet
  <2>3. ASSUME NEW b \in Book, SetFields(b) PROVE UNCHANGED cover
    BY <2>3 DEF SetFields
  <2>4. ASSUME NEW b \in Book, SetCover(b)
        PROVE  UNCHANGED meta /\ \A c \in Book : cover[c] # "blank" => cover'[c] = cover[c]
    BY <2>4 DEF SetCover, RefInv, RefreshTypeOK
  <2>5. ASSUME NEW b \in Book,
               Show(b) \/ FetchFinds(b) \/ FetchFails(b) \/ SetFieldsFails(b)
        PROVE  UNCHANGED <<meta, cover>>
    BY <2>5 DEF Show, FetchFinds, FetchFails, SetFieldsFails
  <2>6. ASSUME \/ \E books \in Selection, m \in {"fill_blanks", "overwrite"}, c \in BOOLEAN :
                    BeginRefresh(books, m, c)
               \/ RefreshSnapshotFails \/ RefreshReturn
        PROVE  UNCHANGED <<meta, cover>>
    BY <2>6 DEF BeginRefresh, RefreshSnapshotFails, RefreshReturn
  <2>. QED BY <2>1, <2>2, <2>3, <2>4, <2>5, <2>6 DEF RefreshNext
<1>. QED BY <1>1, RefInit, RefStep, PTL DEF RefreshSpec, FillBlanksKeeps

\* What is reported of a book tells what became of it (calibre_cli.py:252-254, 282-321).
THEOREM OutcomesAreTrue == RefreshSpec => OutcomeTellsFields
<1> DEFINE Tells == \A b \in Book :
             /\ meta'[b] # meta[b] => progress'[b] = "done"
             /\ At("refresh", b) /\ progress'[b] # progress[b] =>
                  /\ progress'[b] = "done" => \A f \in found : meta'[b][f] # "blank"
                  /\ progress'[b] = "no_match" => ~applied
<1>1. RefInv /\ [RefreshNext]_refreshVars => [Tells]_refreshVars
  <2>. SUFFICES ASSUME RefInv, RefreshNext PROVE Tells
    OBVIOUS
  <2>1. ASSUME UNCHANGED <<meta, progress>> PROVE Tells
    BY <2>1
  <2>2. ASSUME NEW b \in Book, SetFields(b) PROVE Tells
    <3>1. b = Head(todo) /\ seen \in {Present(b), {}} /\ found \subseteq Field
      BY <2>2 DEF SetFields, At, RefInv, ShownInv, RefreshTypeOK
    <3>2. progress' = [progress EXCEPT ![b] = "done"]
      BY <2>2, <3>1 DEF SetFields, Finish, Settle
    <3>3. progress'[b] = "done" /\ \A c \in Book : c # b => progress'[c] = progress[c]
      BY <3>2 DEF RefInv, ShownInv
    <3>4. \A f \in found : meta'[b][f] # "blank"
      <4>1. ASSUME NEW f \in found, f \notin ToApply PROVE meta[b][f] # "blank"
        BY <3>1, <4>1 DEF ToApply, Present
      <4>. QED BY <2>2, <3>1, <4>1, FieldsSet
    <3>. QED BY <2>2, <3>1, <3>3, <3>4, FieldsSet DEF At
  <2>3. ASSUME NEW b \in Book, FetchFails(b) PROVE Tells
    <3>1. ~applied /\ UNCHANGED meta
      BY <2>3 DEF FetchFails, RefInv, RefreshTypeOK
    <3>2. PICK s \in {"no_match", "error"} : progress' = [progress EXCEPT ![Head(todo)] = s]
      BY <2>3 DEF FetchFails, Finish, Settle
    <3>. QED BY <3>1, <3>2 DEF RefInv, ShownInv, At
  <2>4. ASSUME NEW b \in Book, SetFieldsFails(b) PROVE Tells
    <3>1. UNCHANGED meta /\ progress' = [progress EXCEPT ![Head(todo)] = "error"]
      BY <2>4 DEF SetFieldsFails, Finish, Settle
    <3>. QED BY <3>1 DEF RefInv, ShownInv, At
  <2>5. ASSUME NEW books \in Selection, NEW m \in {"fill_blanks", "overwrite"}, NEW c \in BOOLEAN,
               BeginRefresh(books, m, c)
        PROVE  Tells
    BY <2>5 DEF BeginRefresh, BeginBatch, At
  <2>6. CASE RefreshSnapshotFails
    <3>1. UNCHANGED meta /\ progress' = [progress EXCEPT ![Head(todo)] = "pending"]
      BY <2>6 DEF RefreshSnapshotFails, AbortBatch
    <3>. QED BY <3>1 DEF RefInv, ShownInv, At
  <2>7. ASSUME NEW b \in Book, Show(b) \/ FetchFinds(b) \/ SetCover(b) PROVE Tells
    BY <2>1, <2>7 DEF Show, FetchFinds, SetCover
  <2>8. CASE RefreshReturn
    BY <2>1, <2>8 DEF RefreshReturn, EndBatch
  <2>. HIDE DEF Tells
  <2>. QED BY <2>2, <2>3, <2>4, <2>5, <2>6, <2>7, <2>8 DEF RefreshNext
<1>. QED BY <1>1, RefInit, RefStep, PTL DEF RefreshSpec, OutcomeTellsFields
=============================================================================
