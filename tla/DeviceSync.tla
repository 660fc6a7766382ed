----------------------------- MODULE DeviceSync -----------------------------
(***************************************************************************)
(* The on-device file cache: app/state.py's DeviceState, the poller and    *)
(* the listing task of app/services/device.py, and the cache updates of    *)
(* handle_send and handle_remove in app/handlers.py, beside a device that  *)
(* comes and goes on the USB bus.                                          *)
(*                                                                         *)
(* A poll tick has no await, so it is one step.  The listing task and a    *)
(* handler's transfer each wait for the lock of app/services/mtp_helper.py *)
(* (first come, first served), work in a thread, and act on the result in  *)
(* the step of the event loop that also releases the lock.  The worker     *)
(* runs one job at a time, so at most one transfer is under way.  Time is  *)
(* abstract: a backoff is pending or has elapsed.                          *)
(***************************************************************************)
EXTENDS Integers, FiniteSets, Sequences

CONSTANTS Name,         \* file names in the device's documents folder
          Folders,      \* bound: how many files of each name that folder has room for
          MaxAttempts,  \* _SYNC_MAX_ATTEMPTS
          MaxPlugs,     \* bound: how often the device is plugged in
          MaxFaults     \* bound: how many poll ticks raise

ASSUME AttemptsAssumption == MaxAttempts \in Nat \ {0}
ASSUME BoundsAssumption   == Folders \subseteq [Name -> Nat] /\ MaxPlugs \in Nat /\ MaxFaults \in Nat

VARIABLES
  plugged,      \* the device is on the USB bus
  copies,       \* how many files of each name its documents folder holds
  leftover,     \* history: names of which a removal has left another file
  doubtful,     \* files of a transfer that failed, done or not on the device
  plugs,        \* how often it has been plugged in
  faults,       \* how many ticks have raised
  hasty,        \* history: it returned before its last session was cleaned up
  detected,     \* state.detect is not None
  cache,        \* state.on_device_filenames
  filesSynced,  \* state.files_synced
  attempts,     \* state.sync_attempts
  backoff,      \* state.next_sync_at lies in the future
  inProgress,   \* state.sync_in_progress
  lastError,    \* state.last_detect_error is not None
  hasPolled,    \* state.has_polled
  sync,         \* where the listing task stands
  listing,      \* the names it has read
  short,        \* history: those are not all there were
  op,           \* the transfer of the running job
  lock          \* owner and waiters of mtp_helper._lock, owner first

world       == <<plugged, copies, leftover, doubtful, plugs, faults, hasty>>
sessionVars == <<cache, filesSynced, attempts, backoff>>
pollVars    == <<detected, lastError, hasPolled>>
syncVars    == <<sync, listing, short, inProgress>>
vars        == <<world, sessionVars, pollVars, syncVars, op, lock>>

NoOp == [kind |-> "none", name |-> "none", phase |-> "none"]
Op   == [kind : {"send", "remove"}, name : Name, phase : {"waiting", "ok", "error"}]

\* The names in the documents folder.
onDevice == {name \in Name : copies[name] > 0}

Flags ==
  /\ plugged \in BOOLEAN /\ hasty \in BOOLEAN
  /\ filesSynced \in BOOLEAN /\ backoff \in BOOLEAN
  /\ detected \in BOOLEAN /\ lastError \in BOOLEAN /\ hasPolled \in BOOLEAN
  /\ short \in BOOLEAN /\ inProgress \in BOOLEAN

FileSets ==
  /\ copies \in [Name -> Nat]
  /\ leftover \subseteq Name /\ doubtful \subseteq Name
  /\ cache \subseteq Name /\ listing \subseteq Name

Counters == plugs \in 0..MaxPlugs /\ faults \in 0..MaxFaults /\ attempts \in 0..MaxAttempts

Tasks ==
  /\ sync \in {"none", "created", "waiting", "listed", "broken"}
  /\ op \in Op \cup {NoOp}
  /\ lock \in Seq({"sync", "op"})

TypeOK == Flags /\ FileSets /\ Counters /\ Tasks

Init ==
  /\ plugged = FALSE /\ copies = [name \in Name |-> 0] /\ leftover = {} /\ doubtful = {}
  /\ plugs = 0 /\ faults = 0
  /\ hasty = FALSE
  /\ cache = {} /\ filesSynced = FALSE /\ attempts = 0 /\ backoff = FALSE
  /\ detected = FALSE /\ lastError = FALSE /\ hasPolled = FALSE
  /\ sync = "none" /\ listing = {} /\ short = FALSE /\ inProgress = FALSE
  /\ op = NoOp
  /\ lock = <<>>

-----------------------------------------------------------------------------
(* The device. *)

\* Nothing of the last session is left in the application.
CleanSlate ==
  /\ ~detected /\ cache = {} /\ ~filesSynced /\ attempts = 0 /\ ~backoff
  /\ sync = "none" /\ op = NoOp

\* The device appears with whatever its owner has put on it; MTP tells files by
\* their numbers, and several may have one name.
Plug ==
  /\ ~plugged /\ plugs < MaxPlugs
  /\ hasty' = ~CleanSlate
  /\ plugged' = TRUE
  /\ plugs' = plugs + 1
  /\ copies' \in Folders
  /\ leftover' = {} /\ doubtful' = {}
  /\ UNCHANGED <<faults, sessionVars, pollVars, syncVars, op, lock>>

\* What the folder holds while it is out of reach is of no account: Plug says what
\* the device comes back with.
Unplug ==
  /\ plugged
  /\ plugged' = FALSE
  /\ copies' = [name \in Name |-> 0] /\ leftover' = {} /\ doubtful' = {}
  /\ UNCHANGED <<plugs, faults, hasty, sessionVars, pollVars, syncVars, op, lock>>

-----------------------------------------------------------------------------
(* The poller. *)

\* _reset_sync_state; it leaves sync_in_progress alone.
ResetSyncState ==
  /\ cache' = {}
  /\ filesSynced' = FALSE
  /\ attempts' = 0
  /\ backoff' = FALSE

\* Mutant: a tick cleans up only after a device it had detected.
PollAbsentOnce ==
  /\ ~plugged
  /\ detected' = FALSE
  /\ IF detected THEN ResetSyncState ELSE UNCHANGED sessionVars
  /\ lastError' = FALSE
  /\ hasPolled' = TRUE
  /\ UNCHANGED <<world, syncVars, op, lock>>

\* A tick that finds no device.
PollAbsent ==
  /\ ~plugged
  /\ detected' = FALSE
  /\ ResetSyncState
  /\ lastError' = FALSE
  /\ hasPolled' = TRUE
  /\ UNCHANGED <<world, syncVars, op, lock>>

\* The tick's test for starting a listing.
ListingDue == ~filesSynced /\ ~inProgress /\ ~backoff

\* A tick that finds the device, and starts a listing if one is due.
PollPresent ==
  /\ plugged
  /\ detected' = TRUE
  /\ hasPolled' = TRUE
  /\ IF ListingDue
       THEN inProgress' = TRUE /\ sync' = "created"
       ELSE UNCHANGED <<inProgress, sync>>
  /\ UNCHANGED <<world, sessionVars, lastError, listing, short, op, lock>>

\* A tick that raises.
PollError ==
  /\ faults < MaxFaults
  /\ faults' = faults + 1
  /\ detected' = FALSE
  /\ ResetSyncState
  /\ lastError' = TRUE
  /\ hasPolled' = TRUE
  /\ UNCHANGED <<plugged, copies, leftover, doubtful, plugs, hasty, syncVars, op, lock>>

\* time.monotonic() reaches next_sync_at.
BackoffElapses ==
  /\ backoff
  /\ backoff' = FALSE
  /\ UNCHANGED <<world, cache, filesSynced, attempts, pollVars, syncVars, op, lock>>

-----------------------------------------------------------------------------
(* The lock and the listing task _sync_filenames. *)

\* Mutant: the verbs do not take the lock.
NobodyWaits(caller) == TRUE

HoldsLock(caller) == lock # <<>> /\ Head(lock) = caller
AwaitLock(caller) == lock' = Append(lock, caller)
ReleaseLock       == lock' = Tail(lock)

SyncBegin ==
  /\ sync = "created"
  /\ sync' = "waiting"
  /\ AwaitLock("sync")
  /\ UNCHANGED <<world, sessionVars, pollVars, listing, short, inProgress, op>>

\* The thread lists the documents folder, or cannot.  A listing that breaks off
\* after the device has been opened arrives like a short one (MtpStore!Scan).
SyncList ==
  /\ sync = "waiting" /\ HoldsLock("sync")
  /\ \/ /\ sync' = "listed"
        /\ listing' \in IF plugged THEN SUBSET onDevice ELSE {{}}
        /\ short' = (listing' # onDevice)
     \/ sync' = "broken" /\ UNCHANGED <<listing, short>>
  /\ UNCHANGED <<world, sessionVars, pollVars, inProgress, op, lock>>

\* The listing arrives: its names are merged into the cache.
SyncSucceed ==
  /\ sync = "listed"
  /\ cache' = cache \cup listing
  /\ filesSynced' = TRUE
  /\ attempts' = 0
  /\ inProgress' = FALSE
  /\ sync' = "none"
  /\ listing' = {}
  /\ ReleaseLock
  /\ UNCHANGED <<world, backoff, pollVars, short, op>>

\* Mutant: the failure leaves sync_in_progress set.
SyncFailForGood ==
  /\ sync = "broken"
  /\ attempts' = attempts + 1
  /\ IF attempts' >= MaxAttempts
       THEN filesSynced' = TRUE /\ UNCHANGED backoff
       ELSE backoff' = TRUE /\ UNCHANGED filesSynced
  /\ sync' = "none"
  /\ ReleaseLock
  /\ UNCHANGED <<world, cache, pollVars, listing, short, inProgress, op>>

\* The listing has failed: try again after a backoff, or give up.
SyncFail ==
  /\ sync = "broken"
  /\ attempts' = attempts + 1
  /\ IF attempts' >= MaxAttempts
       THEN filesSynced' = TRUE /\ UNCHANGED backoff
       ELSE backoff' = TRUE /\ UNCHANGED filesSynced
  /\ inProgress' = FALSE
  /\ sync' = "none"
  /\ ReleaseLock
  /\ UNCHANGED <<world, cache, pollVars, listing, short, op>>

-----------------------------------------------------------------------------
(* The transfers of handle_send and handle_remove. *)

OpBegin(kind, name) ==
  /\ op = NoOp
  /\ op' = [kind |-> kind, name |-> name, phase |-> "waiting"]
  /\ AwaitLock("op")
  /\ UNCHANGED <<world, sessionVars, pollVars, syncVars>>

\* What the transfer makes of the documents folder: a send adds a file, whether or
\* not the name is there already; a removal deletes the first file of the name and
\* leaves any other.
Transferred == [copies EXCEPT ![op.name] = IF op.kind = "send" THEN @ + 1 ELSE @ - 1]

\* It can be carried out: what is sent has room, and _remove_blocking finds the name.
Feasible ==
  plugged /\ IF op.kind = "send" THEN Transferred \in Folders ELSE op.name \in onDevice

\* The thread transfers the file.
OpSucceeds ==
  /\ op.phase = "waiting" /\ HoldsLock("op")
  /\ Feasible
  /\ copies' = Transferred
  /\ leftover' = IF op.kind = "remove" /\ copies'[op.name] > 0
                    THEN leftover \cup {op.name}
                    ELSE leftover \ {op.name}
  /\ doubtful' = doubtful \ {op.name}
  /\ op' = [op EXCEPT !.phase = "ok"]
  /\ UNCHANGED <<plugged, plugs, faults, hasty, sessionVars, pollVars, syncVars, lock>>

\* The thread fails, for want of the device or in the middle of the transfer.
OpFails ==
  /\ op.phase = "waiting" /\ HoldsLock("op")
  /\ \/ UNCHANGED <<copies, doubtful>>
     \/ /\ Feasible
        /\ copies' = Transferred
        /\ doubtful' = doubtful \cup {op.name}
  /\ op' = [op EXCEPT !.phase = "error"]
  /\ UNCHANGED <<plugged, leftover, plugs, faults, hasty, sessionVars, pollVars, syncVars, lock>>

\* Mutant: an error passes the lock's release by.
OpEndHolding ==
  /\ op.phase \in {"ok", "error"}
  /\ cache' = CASE op.phase = "error"                    -> cache
                [] op.phase = "ok" /\ op.kind = "send"   -> cache \cup {op.name}
                [] op.phase = "ok" /\ op.kind = "remove" -> cache \ {op.name}
  /\ op' = NoOp
  /\ IF op.phase = "ok" THEN ReleaseLock ELSE UNCHANGED lock
  /\ UNCHANGED <<world, filesSynced, attempts, backoff, pollVars, syncVars>>

\* The handler resumes: after a success it updates the cache optimistically.
OpEnd ==
  /\ op.phase \in {"ok", "error"}
  /\ cache' = CASE op.phase = "error"                    -> cache
                [] op.phase = "ok" /\ op.kind = "send"   -> cache \cup {op.name}
                [] op.phase = "ok" /\ op.kind = "remove" -> cache \ {op.name}
  /\ op' = NoOp
  /\ ReleaseLock
  /\ UNCHANGED <<world, filesSynced, attempts, backoff, pollVars, syncVars>>

Poll     == PollAbsent \/ PollPresent
SyncTask == SyncBegin \/ SyncList \/ SyncSucceed \/ SyncFail
OpStep   == OpSucceeds \/ OpFails \/ OpEnd

Next == \/ Plug \/ Unplug
        \/ Poll \/ PollError \/ BackoffElapses
        \/ SyncTask
        \/ \E kind \in {"send", "remove"}, name \in Name : OpBegin(kind, name)
        \/ OpStep

Spec == Init /\ [][Next]_vars

(***************************************************************************)
(* Fairness: the loop ticks every five seconds and its ticks do not raise  *)
(* for ever, threads and tasks go on, time passes.  Nothing obliges the    *)
(* device to come or go, or a job to arrive.                               *)
(***************************************************************************)
FairSpec ==
  Spec /\ WF_vars(Poll) /\ WF_vars(BackoffElapses) /\ WF_vars(SyncTask) /\ WF_vars(OpStep)

-----------------------------------------------------------------------------
\* sync_in_progress is set exactly while a listing task is alive, through any
\* resets in between; with the tick's test of it, listings never overlap
\* (device.py:125, 128-132, 164-170).
OneListing == inProgress <=> sync # "none"

\* The lock is owned or awaited by exactly the tasks that are inside an
\* mtp_helper call, once each (mtp_helper.py:592-612).
LockMatchesTasks ==
  /\ \A i, k \in 1..Len(lock) : lock[i] = lock[k] => i = k
  /\ (\E i \in 1..Len(lock) : lock[i] = "sync") <=> sync \in {"waiting", "listed", "broken"}
  /\ (\E i \in 1..Len(lock) : lock[i] = "op") <=> op # NoOp
  /\ sync \in {"listed", "broken"} => HoldsLock("sync")
  /\ op.phase \in {"ok", "error"} => HoldsLock("op")

\* The last failure is terminal: the attempts never run past the backoff
\* table, and none is made after giving up (device.py:106-123, 164-168).
GiveUpIsTerminal ==
  /\ attempts = MaxAttempts => filesSynced
  /\ backoff => attempts \in 1..(MaxAttempts - 1)
  /\ filesSynced /\ attempts > 0 => attempts = MaxAttempts

\* The poller, the listing task and the lock agree on who is doing what, and the
\* session on how far its attempts have come.
SyncInv == TypeOK /\ OneListing /\ LockMatchesTasks /\ GiveUpIsTerminal

\* Once the session's listing has succeeded the badges are right: every file in
\* the documents folder has one, however listing, transfers and ticks overlap,
\* but for the files of failed transfers and for a name a removal has left another
\* file of (it deletes the first and clears the badge of all), unless the device
\* came back before the poller and the tasks had done with its last session.  A
\* listing that breaks off counts as a success, too, and then badges are missing
\* for the session.  At no time is a badge shown for a file that is not there,
\* names held twice included (device.py:97-102, 156-162, handlers.py:272-277,
\* 322-323, mtp_helper.py:317-333, 495-520).
CacheExact ==
  plugged /\ ~hasty /\ op = NoOp
    => /\ filesSynced /\ attempts = 0 /\ ~short
            => onDevice \ cache \subseteq doubtful \cup leftover
       /\ cache \ onDevice \subseteq doubtful

\* A plugged-in device is eventually listed or given up (device.py:135-179).
EventuallyListed == plugged ~> (filesSynced \/ ~plugged)

\* After an unplug the indicator and the badges clear (README.md:82), and with
\* them the error that /health shows (device.py:156-162).
EventuallyCleared ==
  ~plugged ~> ((~detected /\ cache = {} /\ ~lastError) \/ plugged)
=============================================================================
