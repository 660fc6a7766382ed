-------------------------- MODULE DeviceSyncProofs --------------------------
(***************************************************************************)
(* Theorems about DeviceSync for every set of file names, every length of  *)
(* the backoff table and any number of sessions and raising ticks: who     *)
(* holds and awaits the lock, that listings never overlap and end for good *)
(* after the last attempt, and that the badges agree with the device.      *)
(***************************************************************************)
EXTENDS DeviceSync, SequenceTheorems, TLAPS

USE DEF world, sessionVars, pollVars, syncVars, vars

\* The lock, spelled out: the two tasks that take it leave only five queues.
Syncing == sync \in {"waiting", "listed", "broken"}

LockShape ==
  /\ ~Syncing /\ op = NoOp => lock = <<>>
  /\ Syncing /\ op = NoOp  => lock = <<"sync">>
  /\ ~Syncing /\ op # NoOp => lock = <<"op">>
  /\ Syncing /\ op # NoOp  => lock \in {<<"sync", "op">>, <<"op", "sync">>}
  /\ sync \in {"listed", "broken"} => lock \in {<<"sync">>, <<"sync", "op">>}
  /\ op.phase \in {"ok", "error"}  => lock \in {<<"op">>, <<"op", "sync">>}

\* What made a listing due stays true while it is alive.
StillDue == sync # "none" => ~filesSynced /\ ~backoff

\* The inductive invariant of the tasks and of the session's attempts.
TaskInv == TypeOK /\ OneListing /\ LockShape /\ StillDue /\ GiveUpIsTerminal

-----------------------------------------------------------------------------
\* A second caller joins the queue of the lock behind the first.
LEMMA JoinOne ==
  ASSUME NEW S, NEW first \in S, NEW second \in S
  PROVE  Append(<<first>>, second) = <<first, second>>
<1> DEFINE s == Append(<<first>>, second)
           t == <<first, second>>
<1>1. <<first>> \in Seq(S) /\ t \in Seq(S) /\ Len(t) = 2 /\ t[1] = first /\ t[2] = second
  OBVIOUS
<1>2. s \in Seq(S) /\ Len(s) = 2 /\ s[1] = first /\ s[2] = second
  BY <1>1
<1>3. \A i \in 1..Len(s) : i = 1 \/ i = 2
  BY <1>2
<1> HIDE DEF s, t
<1>4. \A i \in 1..Len(s) : s[i] = t[i]
  BY <1>1, <1>2, <1>3
<1>5. s = t
  BY <1>1, <1>2, <1>4, SeqEqual
<1>. QED BY <1>5 DEF s, t

\* What each caller's coming and going makes of the queue.
LEMMA QueueSteps ==
  /\ Append(<<>>, "sync") = <<"sync">> /\ Append(<<"op">>, "sync") = <<"op", "sync">>
  /\ Append(<<>>, "op") = <<"op">>     /\ Append(<<"sync">>, "op") = <<"sync", "op">>
  /\ Tail(<<"sync">>) = <<>>           /\ Tail(<<"sync", "op">>) = <<"op">>
  /\ Tail(<<"op">>) = <<>>             /\ Tail(<<"op", "sync">>) = <<"sync">>
<1> DEFINE S == {"sync", "op"}
<1>1. "sync" \in S /\ "op" \in S
  OBVIOUS
<1>2. Append(<<"op">>, "sync") = <<"op", "sync">> /\ Append(<<"sync">>, "op") = <<"sync", "op">>
  <2> HIDE DEF S
  <2>. QED BY <1>1, JoinOne
<1>3. Append(<<>>, "sync") = <<"sync">> /\ Append(<<>>, "op") = <<"op">>
  OBVIOUS
<1>4. /\ Tail(<<"sync">>) = <<>> /\ Tail(<<"sync", "op">>) = <<"op">>
      /\ Tail(<<"op">>) = <<>>   /\ Tail(<<"op", "sync">>) = <<"sync">>
  OBVIOUS
<1>. QED BY <1>2, <1>3, <1>4

\* The queues of LockShape are queues of the two tasks.
Queues == {<<>>, <<"sync">>, <<"op">>, <<"sync", "op">>, <<"op", "sync">>}

LEMMA QueueTypes == Queues \subseteq Seq({"sync", "op"})
BY DEF Queues

\* A step that leaves the tasks and the lock alone leaves their part of the
\* invariant alone.
LEMMA TasksIdle ==
  ASSUME TaskInv, UNCHANGED <<sync, inProgress, op, lock>>
  PROVE  Tasks' /\ OneListing' /\ LockShape'
BY DEF TaskInv, TypeOK, Tasks, OneListing, LockShape, Syncing

\* Initially nobody holds the lock and nothing is listed.
LEMMA TaskInvInit == Init => TaskInv
<1> SUFFICES ASSUME Init PROVE TaskInv
  OBVIOUS
<1>1. Flags
  BY DEF Init, Flags
<1>2. FileSets /\ Tasks
  BY DEF Init, FileSets, Tasks
<1>3. Counters
  BY AttemptsAssumption, BoundsAssumption DEF Init, Counters
<1>4. OneListing /\ LockShape
  BY DEF Init, OneListing, LockShape, Syncing, NoOp
<1>5. StillDue /\ GiveUpIsTerminal
  BY AttemptsAssumption DEF Init, StillDue, GiveUpIsTerminal
<1>. QED BY <1>1, <1>2, <1>3, <1>4, <1>5 DEF TaskInv, TypeOK

\* The device's own comings and goings touch none of it.
LEMMA TaskInvDevice ==
  ASSUME TaskInv, Plug \/ Unplug
  PROVE  TaskInv'
<1>1. Flags'
  BY DEF TaskInv, TypeOK, Flags, Plug, Unplug, CleanSlate
<1>2. FileSets'
  BY BoundsAssumption DEF TaskInv, TypeOK, FileSets, Plug, Unplug
<1>3. Counters'
  BY BoundsAssumption DEF TaskInv, TypeOK, Counters, Plug, Unplug
<1>4. Tasks' /\ OneListing' /\ LockShape'
  BY TasksIdle DEF Plug, Unplug
<1>5. StillDue' /\ GiveUpIsTerminal'
  BY DEF TaskInv, Plug, Unplug, StillDue, GiveUpIsTerminal
<1>. QED BY <1>1, <1>2, <1>3, <1>4, <1>5 DEF TaskInv, TypeOK

\* A tick, or the passing of time: a tick starts a listing only when none is
\* alive, and the backoff that a tick waits for lies between two attempts.
LEMMA TaskInvPoll ==
  ASSUME TaskInv, Poll \/ PollError \/ BackoffElapses
  PROVE  TaskInv'
<1> USE DEF Poll, PollAbsent, PollPresent, PollError, ResetSyncState, BackoffElapses
<1>1. Flags'
  BY DEF TaskInv, TypeOK, Flags
<1>2. FileSets'
  BY DEF TaskInv, TypeOK, FileSets
<1>3. Counters'
  BY AttemptsAssumption, BoundsAssumption DEF TaskInv, TypeOK, Counters
<1>4. Tasks' /\ OneListing' /\ LockShape'
  <2>1. CASE PollPresent /\ ListingDue
    <3>1. sync = "none" /\ sync' = "created" /\ inProgress' /\ op' = op /\ lock' = lock
      BY <2>1 DEF ListingDue, TaskInv, OneListing
    <3>. QED BY <3>1 DEF TaskInv, TypeOK, Tasks, OneListing, LockShape, Syncing
  <2>2. CASE ~(PollPresent /\ ListingDue)
    BY <2>2, TasksIdle
  <2>. QED BY <2>1, <2>2
<1>5. StillDue' /\ GiveUpIsTerminal'
  BY AttemptsAssumption DEF TaskInv, ListingDue, OneListing, StillDue, GiveUpIsTerminal
<1>. QED BY <1>1, <1>2, <1>3, <1>4, <1>5 DEF TaskInv, TypeOK

\* The listing task: it joins the queue, works at its head, and leaves it.
LEMMA TaskInvSync ==
  ASSUME TaskInv, SyncTask
  PROVE  TaskInv'
<1>1. CASE SyncBegin
  <2>1. /\ op = NoOp => lock' = <<"sync">>
        /\ op # NoOp => lock' = <<"op", "sync">>
    BY <1>1, QueueSteps DEF SyncBegin, AwaitLock, TaskInv, LockShape, Syncing
  <2>2. LockShape'
    BY <1>1, <2>1 DEF SyncBegin, TaskInv, LockShape, Syncing, NoOp
  <2>3. Tasks' /\ OneListing'
    <3>1. lock' \in Seq({"sync", "op"})
      <4>1. lock' \in Queues BY <2>2 DEF LockShape, Queues
      <4>. QED BY <4>1, QueueTypes
    <3>. QED BY <1>1, <3>1 DEF SyncBegin, TaskInv, TypeOK, Tasks, OneListing
  <2>. QED
    BY <1>1, <2>2, <2>3
    DEF SyncBegin, TaskInv, TypeOK, Flags, FileSets, Counters, StillDue, GiveUpIsTerminal
<1>2. CASE SyncList
  <2>1. lock \in {<<"sync">>, <<"sync", "op">>}
    BY <1>2 DEF SyncList, HoldsLock, TaskInv, LockShape, Syncing
  <2>2. Tasks' /\ OneListing' /\ LockShape'
    BY <1>2, <2>1 DEF SyncList, TaskInv, TypeOK, Tasks, OneListing, LockShape, Syncing
  <2>3. Flags' /\ FileSets'
    BY <1>2 DEF SyncList, TaskInv, TypeOK, Flags, FileSets, onDevice
  <2>. QED
    BY <1>2, <2>2, <2>3 DEF SyncList, TaskInv, TypeOK, Counters, StillDue, GiveUpIsTerminal
<1>3. CASE SyncSucceed \/ SyncFail
  <2>1. lock \in {<<"sync">>, <<"sync", "op">>} /\ op.phase \notin {"ok", "error"}
    BY <1>3 DEF SyncSucceed, SyncFail, TaskInv, LockShape, Syncing
  <2>2. /\ op = NoOp => lock' = <<>>
        /\ op # NoOp => lock' = <<"op">>
    BY <1>3, <2>1, QueueSteps DEF SyncSucceed, SyncFail, ReleaseLock, TaskInv, LockShape, Syncing
  <2>3. LockShape'
    BY <1>3, <2>1, <2>2 DEF SyncSucceed, SyncFail, TaskInv, LockShape, Syncing
  <2>6. Tasks' /\ OneListing'
    <3>1. lock' \in Seq({"sync", "op"})
      <4>1. lock' \in Queues BY <2>3 DEF LockShape, Queues
      <4>. QED BY <4>1, QueueTypes
    <3>. QED BY <1>3, <3>1 DEF SyncSucceed, SyncFail, TaskInv, TypeOK, Tasks, OneListing
  <2>4. Flags' /\ FileSets'
    BY <1>3 DEF SyncSucceed, SyncFail, TaskInv, TypeOK, Flags, FileSets
  <2>5. Counters' /\ StillDue' /\ GiveUpIsTerminal'
    <3>1. CASE SyncSucceed
      BY <3>1, AttemptsAssumption
      DEF SyncSucceed, TaskInv, TypeOK, Counters, StillDue, GiveUpIsTerminal
    <3>2. CASE SyncFail
      BY <3>2, AttemptsAssumption
      DEF SyncFail, TaskInv, TypeOK, Counters, StillDue, GiveUpIsTerminal, OneListing
    <3>. QED BY <1>3, <3>1, <3>2
  <2>. QED BY <2>3, <2>4, <2>5, <2>6 DEF TaskInv, TypeOK
<1>. QED BY <1>1, <1>2, <1>3 DEF SyncTask

\* What a transfer that can be carried out makes of the folder's names: a send has
\* its name there, a removal takes it away unless it leaves another file of it.
LEMMA TransferEffect ==
  ASSUME FileSets, op \in Op, Feasible
  PROVE  /\ Transferred \in [Name -> Nat]
         /\ \A name \in Name \ {op.name} : Transferred[name] = copies[name]
         /\ op.kind = "send" => Transferred[op.name] > 0
<1>1. op.name \in Name /\ op.kind \in {"send", "remove"}
  BY DEF Op
<1>2. op.kind = "remove" => copies[op.name] > 0
  BY <1>1 DEF Feasible, onDevice
<1>3. copies \in [Name -> Nat]
  BY DEF FileSets
<1>. QED BY <1>1, <1>2, <1>3 DEF Transferred

\* The transfers of the running job, likewise.
LEMMA TaskInvOp ==
  ASSUME TaskInv,
         OpStep \/ \E kind \in {"send", "remove"}, name \in Name : OpBegin(kind, name)
  PROVE  TaskInv'
<1>1. ASSUME NEW kind \in {"send", "remove"}, NEW name \in Name, OpBegin(kind, name)
      PROVE  TaskInv'
  <2>1. op' \in Op /\ op' # NoOp /\ op'.phase = "waiting"
    BY <1>1 DEF OpBegin, Op, NoOp
  <2>2. /\ ~Syncing => lock' = <<"op">>
        /\ Syncing => lock' = <<"sync", "op">>
    BY <1>1, QueueSteps DEF OpBegin, AwaitLock, TaskInv, LockShape, Syncing
  <2>3. Tasks' /\ OneListing' /\ LockShape'
    <3>1. LockShape'
      BY <1>1, <2>1, <2>2 DEF OpBegin, TaskInv, LockShape, Syncing
    <3>2. lock' \in Seq({"sync", "op"})
      <4>1. lock' \in Queues BY <3>1 DEF LockShape, Queues
      <4>. QED BY <4>1, QueueTypes
    <3>. QED BY <1>1, <2>1, <3>1, <3>2 DEF OpBegin, TaskInv, TypeOK, Tasks, OneListing
  <2>. QED
    BY <1>1, <2>3
    DEF OpBegin, TaskInv, TypeOK, Flags, FileSets, Counters, StillDue, GiveUpIsTerminal
<1>2. CASE OpSucceeds \/ OpFails
  <2>1. op \in Op /\ lock \in {<<"op">>, <<"op", "sync">>}
    BY <1>2 DEF OpSucceeds, OpFails, HoldsLock, TaskInv, TypeOK, Tasks, LockShape, Syncing, NoOp
  <2>2. op' \in Op /\ op' # NoOp /\ op'.phase \in {"ok", "error"}
    BY <1>2, <2>1 DEF OpSucceeds, OpFails, Op, NoOp
  <2>3. op # NoOp
    BY <2>1 DEF Op, NoOp
  <2>4. Tasks' /\ OneListing' /\ LockShape'
    BY <1>2, <2>1, <2>2, <2>3
    DEF OpSucceeds, OpFails, TaskInv, TypeOK, Tasks, OneListing, LockShape, Syncing
  <2>5. FileSets'
    <3>1. Feasible => Transferred \in [Name -> Nat]
      BY <2>1, TransferEffect DEF TaskInv, TypeOK
    <3>. QED BY <1>2, <2>1, <3>1 DEF OpSucceeds, OpFails, TaskInv, TypeOK, FileSets, Op
  <2>. QED
    BY <1>2, <2>4, <2>5
    DEF OpSucceeds, OpFails, TaskInv, TypeOK, Flags, Counters, StillDue, GiveUpIsTerminal
<1>3. CASE OpEnd
  <2>1. op \in Op /\ lock \in {<<"op">>, <<"op", "sync">>}
    BY <1>3 DEF OpEnd, TaskInv, TypeOK, Tasks, LockShape, NoOp
  <2>2. op # NoOp
    BY <2>1 DEF Op, NoOp
  <2>3. /\ ~Syncing => lock' = <<>>
        /\ Syncing => lock' = <<"sync">>
    BY <1>3, <2>1, <2>2, QueueSteps DEF OpEnd, ReleaseLock, TaskInv, LockShape, Syncing
  <2>4. Tasks' /\ OneListing' /\ LockShape'
    <3>1. LockShape'
      BY <1>3, <2>1, <2>2, <2>3 DEF OpEnd, TaskInv, LockShape, Syncing, NoOp
    <3>2. lock' \in Seq({"sync", "op"})
      <4>1. lock' \in Queues BY <3>1 DEF LockShape, Queues
      <4>. QED BY <4>1, QueueTypes
    <3>. QED BY <1>3, <3>1, <3>2 DEF OpEnd, TaskInv, TypeOK, Tasks, OneListing
  <2>5. FileSets'
    BY <1>3, <2>1 DEF OpEnd, TaskInv, TypeOK, FileSets, Op
  <2>. QED
    BY <1>3, <2>4, <2>5 DEF OpEnd, TaskInv, TypeOK, Flags, Counters, StillDue, GiveUpIsTerminal
<1>. QED BY <1>1, <1>2, <1>3 DEF OpStep

LEMMA TaskInvStep == TaskInv /\ [Next]_vars => TaskInv'
<1> SUFFICES ASSUME TaskInv, [Next]_vars PROVE TaskInv'
  OBVIOUS
<1>1. CASE UNCHANGED vars
  BY <1>1 DEF TaskInv, TypeOK, Flags, FileSets, Counters, Tasks,
              OneListing, LockShape, Syncing, StillDue, GiveUpIsTerminal
<1>. QED
  BY <1>1, TaskInvDevice, TaskInvPoll, TaskInvSync, TaskInvOp DEF Next

\* The five queues are what LockMatchesTasks says of the lock.
LEMMA ShapeMatches == TaskInv => LockMatchesTasks
<1> SUFFICES ASSUME TaskInv PROVE LockMatchesTasks
  OBVIOUS
<1>1. CASE lock = <<>>
  BY <1>1 DEF TaskInv, LockShape, Syncing, LockMatchesTasks
<1>2. CASE lock = <<"sync">>
  BY <1>2 DEF TaskInv, LockShape, Syncing, LockMatchesTasks, HoldsLock
<1>3. CASE lock = <<"op">>
  BY <1>3 DEF TaskInv, LockShape, Syncing, LockMatchesTasks, HoldsLock
<1>4. CASE lock = <<"sync", "op">>
  BY <1>4 DEF TaskInv, LockShape, Syncing, LockMatchesTasks, HoldsLock
<1>5. CASE lock = <<"op", "sync">>
  BY <1>5 DEF TaskInv, LockShape, Syncing, LockMatchesTasks, HoldsLock
<1>. QED BY <1>1, <1>2, <1>3, <1>4, <1>5 DEF TaskInv, LockShape

\* The poller, the listing task and the lock agree on who is doing what, the
\* backoff lies between two attempts, and the last failure ends them
\* (device.py:106-133, 164-170, mtp_helper.py:592-612).
THEOREM SyncCorrect == Spec => []SyncInv
<1>1. TaskInv => SyncInv
  BY ShapeMatches DEF TaskInv, SyncInv
<1>. QED
  BY <1>1, TaskInvInit, TaskInvStep, PTL DEF Spec

\* A tick starts a listing only when none is alive: sync_in_progress, set in the
\* step that creates the task, keeps two from running at once, across any
\* resets between them (device.py:125-133, 164-170).
THEOREM ListingsNeverOverlap == Spec => [][ListingDue /\ PollPresent => sync = "none"]_vars
<1>1. TaskInv /\ [Next]_vars => [ListingDue /\ PollPresent => sync = "none"]_vars
  BY DEF TaskInv, OneListing, ListingDue
<1>. QED
  BY <1>1, TaskInvInit, TaskInvStep, PTL DEF Spec

-----------------------------------------------------------------------------
\* What the transfer under way has done to the documents folder and its handler
\* not yet to the cache.
Pending(kind) == IF op.phase = "ok" /\ op.kind = kind THEN {op.name} ELSE {}

\* Within a session that began with a clean slate: the thread's listing is the
\* folder or a part of it, for as long as the lock is held; no badge lacks its
\* file, and after a full listing no file its badge, but for the files of failed
\* transfers, those a removal has left and the one under way.
CacheInv ==
  plugged /\ ~hasty =>
    /\ sync = "listed" => listing \subseteq onDevice /\ (~short => listing = onDevice)
    /\ Pending("send") \subseteq onDevice /\ Pending("remove") \cap onDevice \subseteq leftover
    /\ cache \ onDevice \subseteq doubtful \cup Pending("remove")
    /\ filesSynced /\ attempts = 0 /\ ~short
         => onDevice \ cache \subseteq doubtful \cup leftover \cup Pending("send")

\* The session begins with no badges, none pending and nothing listed.
LEMMA CacheInvDevice ==
  ASSUME TaskInv, CacheInv, Plug \/ Unplug
  PROVE  CacheInv'
<1>1. CASE Unplug
  BY <1>1 DEF Unplug, CacheInv
<1>2. CASE Plug
  <2>1. CASE CleanSlate
    BY <1>2, <2>1 DEF Plug, CleanSlate, CacheInv, Pending, NoOp
  <2>2. CASE ~CleanSlate
    BY <1>2, <2>2 DEF Plug, CacheInv
  <2>. QED BY <2>1, <2>2
<1>. QED BY <1>1, <1>2

\* A tick either does nothing to the cache or empties it and forgets the listing.
LEMMA CacheInvPoll ==
  ASSUME TaskInv, CacheInv, Poll \/ PollError \/ BackoffElapses
  PROVE  CacheInv'
<1>1. CASE PollAbsent
  BY <1>1 DEF PollAbsent, CacheInv
<1>2. CASE PollPresent \/ BackoffElapses
  BY <1>2 DEF PollPresent, BackoffElapses, CacheInv, Pending, onDevice
<1>3. CASE PollError
  BY <1>3 DEF PollError, ResetSyncState, CacheInv, Pending, onDevice
<1>. QED BY <1>1, <1>2, <1>3 DEF Poll

\* While the listing holds the lock no transfer is at work, so what it has read
\* is what is there when it is merged.
LEMMA CacheInvSync ==
  ASSUME TaskInv, CacheInv, SyncTask
  PROVE  CacheInv'
<1>1. CASE SyncBegin
  BY <1>1 DEF SyncBegin, CacheInv, Pending, onDevice
<1>2. CASE SyncList
  <2>1. ~filesSynced
    BY <1>2 DEF SyncList, TaskInv, StillDue
  <2>2. plugged /\ sync' = "listed" =>
          listing' \subseteq onDevice /\ (~short' => listing' = onDevice)
    BY <1>2 DEF SyncList
  <2>. QED BY <1>2, <2>1, <2>2 DEF SyncList, CacheInv, Pending, onDevice
<1>3. CASE SyncSucceed
  <2>1. Pending("remove") = {} /\ Pending("send") = {}
    BY <1>3 DEF SyncSucceed, TaskInv, LockShape, Pending
  <2>. QED BY <1>3, <2>1 DEF SyncSucceed, CacheInv, Pending, onDevice
<1>4. CASE SyncFail
  <2>1. filesSynced' => attempts' # 0
    BY <1>4, AttemptsAssumption DEF SyncFail, TaskInv, TypeOK, Counters, StillDue
  <2>. QED BY <1>4, <2>1 DEF SyncFail, CacheInv, Pending, onDevice
<1>. QED BY <1>1, <1>2, <1>3, <1>4 DEF SyncTask

\* While a transfer holds the lock no listing is in hand, and what it does to the
\* folder its handler does to the cache; a failed one leaves its file in doubt.
LEMMA CacheInvOp ==
  ASSUME TaskInv, CacheInv,
         OpStep \/ \E kind \in {"send", "remove"}, name \in Name : OpBegin(kind, name)
  PROVE  CacheInv'
<1>1. ASSUME NEW kind \in {"send", "remove"}, NEW name \in Name, OpBegin(kind, name)
      PROVE  CacheInv'
  BY <1>1 DEF OpBegin, CacheInv, Pending, NoOp, onDevice
<1>2. CASE OpSucceeds \/ OpFails
  <2>1. sync # "listed" /\ op \in Op
    BY <1>2 DEF OpSucceeds, OpFails, HoldsLock, TaskInv, TypeOK, Tasks, LockShape, NoOp
  <2>2. op'.kind = op.kind /\ op'.name = op.name /\ op.kind \in {"send", "remove"}
    BY <1>2, <2>1 DEF OpSucceeds, OpFails, Op
  <2>3. Pending("send") = {} /\ Pending("remove") = {}
    BY <1>2 DEF OpSucceeds, OpFails, Pending
  <2>4. Feasible /\ copies' = Transferred
          => /\ \A name \in Name \ {op.name} : name \in onDevice' <=> name \in onDevice
             /\ op.kind = "send" => op.name \in onDevice'
             /\ op.name \in onDevice' <=> copies'[op.name] > 0
             /\ op.name \in Name /\ onDevice \subseteq Name /\ onDevice' \subseteq Name
    BY <2>1, TransferEffect DEF TaskInv, TypeOK, onDevice, Op
  <2>5. CASE OpSucceeds
    <3>1. op'.phase = "ok" /\ doubtful' = doubtful \ {op.name}
      BY <2>1, <2>5 DEF OpSucceeds, Op
    <3>2. CASE op.kind = "send"
      <4>1. leftover' = leftover \ {op.name}
        BY <2>5, <3>2 DEF OpSucceeds
      <4>2. Pending("send")' = {op.name} /\ Pending("remove")' = {}
        BY <2>2, <3>1, <3>2 DEF Pending
      <4>3. onDevice' = onDevice \cup {op.name}
        BY <2>4, <2>5, <3>2 DEF OpSucceeds
      <4>. QED
        BY <2>1, <2>3, <2>5, <3>1, <4>1, <4>2, <4>3 DEF OpSucceeds, CacheInv
    <3>3. CASE op.kind = "remove"
      <4>1. Pending("remove")' = {op.name} /\ Pending("send")' = {}
        BY <2>2, <3>1, <3>3 DEF Pending
      <4>2. /\ op.name \in onDevice' => leftover' = leftover \cup {op.name}
            /\ op.name \notin onDevice' => leftover' = leftover \ {op.name}
        BY <2>4, <2>5, <3>3 DEF OpSucceeds
      <4>. QED
        BY <2>1, <2>3, <2>4, <2>5, <3>1, <4>1, <4>2 DEF OpSucceeds, CacheInv
    <3>. QED BY <2>2, <3>2, <3>3
  <2>6. CASE OpFails
    <3>1. Pending("send")' = {} /\ Pending("remove")' = {}
      BY <2>1, <2>6 DEF OpFails, Op, Pending
    <3>2. CASE UNCHANGED <<copies, doubtful>>
      BY <2>1, <2>3, <2>6, <3>1, <3>2 DEF OpFails, CacheInv, onDevice
    <3>3. CASE Feasible /\ copies' = Transferred /\ doubtful' = doubtful \cup {op.name}
      BY <2>1, <2>3, <2>4, <2>6, <3>1, <3>3 DEF OpFails, CacheInv
    <3>. QED BY <2>6, <3>2, <3>3 DEF OpFails
  <2>. QED BY <1>2, <2>5, <2>6
<1>3. CASE OpEnd
  <2>1. sync # "listed" /\ op \in Op
    BY <1>3 DEF OpEnd, TaskInv, TypeOK, Tasks, LockShape, NoOp
  <2>2. Pending("send")' = {} /\ Pending("remove")' = {} /\ onDevice' = onDevice
    BY <1>3 DEF OpEnd, Pending, NoOp, onDevice
  <2>3. CASE op.phase = "error"
    <3>1. cache' = cache /\ Pending("remove") = {} /\ Pending("send") = {}
      BY <1>3, <2>3 DEF OpEnd, Pending
    <3>. QED BY <1>3, <2>1, <2>2, <3>1 DEF OpEnd, CacheInv
  <2>4. CASE op.phase = "ok" /\ op.kind = "send"
    <3>1. cache' = cache \cup {op.name} /\ Pending("send") = {op.name} /\ Pending("remove") = {}
      BY <1>3, <2>4 DEF OpEnd, Pending
    <3>. QED BY <1>3, <2>1, <2>2, <3>1 DEF OpEnd, CacheInv
  <2>5. CASE op.phase = "ok" /\ op.kind = "remove"
    <3>1. cache' = cache \ {op.name} /\ Pending("remove") = {op.name} /\ Pending("send") = {}
      BY <1>3, <2>5 DEF OpEnd, Pending
    <3>. QED BY <1>3, <2>1, <2>2, <3>1 DEF OpEnd, CacheInv
  <2>. QED BY <1>3, <2>1, <2>3, <2>4, <2>5 DEF OpEnd, Op
<1>. QED BY <1>1, <1>2, <1>3 DEF OpStep

LEMMA CacheInvStep == TaskInv /\ CacheInv /\ [Next]_vars => CacheInv'
<1> SUFFICES ASSUME TaskInv, CacheInv, [Next]_vars PROVE CacheInv'
  OBVIOUS
<1>1. CASE UNCHANGED vars
  BY <1>1 DEF CacheInv, Pending, onDevice
<1>. QED
  BY <1>1, CacheInvDevice, CacheInvPoll, CacheInvSync, CacheInvOp DEF Next

\* However listings, transfers, ticks and raising ticks overlap, after a full
\* listing the folder's files have their badges, those of failed transfers and those
\* a removal has left of a name held twice apart, and at no time is there a badge
\* without its file, unless the device came back before its last session was over
\* (device.py:97-102, 128-133, 156-162, handlers.py:272-277, 322-323,
\* mtp_helper.py:495-520).
THEOREM CacheCorrect == Spec => []CacheExact
<1>1. Init => CacheInv
  BY DEF Init, CacheInv
<1>2. CacheInv => CacheExact
  BY DEF CacheInv, CacheExact, Pending, NoOp
<1>. QED
  BY <1>1, <1>2, TaskInvInit, TaskInvStep, CacheInvStep, PTL DEF Spec

=============================================================================
