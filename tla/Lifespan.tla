------------------------------ MODULE Lifespan ------------------------------
(***************************************************************************)
(* The tasks of the event loop from start to end: the worker's coroutine   *)
(* (app/services/worker.py), the poller and the listings that it spawns    *)
(* (app/services/device.py), their calls on the USB bus (MtpBus), and the  *)
(* shutdown: lifespan of app/main.py, then asyncio's own, which cancels    *)
(* the tasks that are left.  Job queue and cache are in Worker and         *)
(* DeviceSync; here the worker takes jobs and the poller wants listings    *)
(* whenever they may.                                                      *)
(***************************************************************************)
EXTENDS MtpBus

CONSTANTS Listing,  \* calls of list_files, each from a listing task of its own
          JobCall   \* calls that the worker's jobs make

ASSUME CallersAssumption ==
  /\ Listing \cup JobCall = Call
  /\ Listing \cap JobCall = {}

VARIABLES stage,    \* how far the shutdown has come
          poller,   \* the poller's task is alive
          worker,   \* "idle" in queue.get(), "busy" with a job, or "gone"
          spawned   \* the listing tasks created so far

tasks == <<stage, poller, worker, spawned>>
vars  == <<bus, tasks>>

TypeOK ==
  /\ BusTypeOK
  /\ stage \in {"serving", "stopping", "draining", "closing", "closed"}
  /\ poller \in BOOLEAN
  /\ worker \in {"idle", "busy", "gone"}
  /\ spawned \subseteq Listing
  /\ \A c \in Listing \ spawned : phase[c] = "idle"

Init ==
  /\ BusInit
  /\ stage = "serving" /\ poller = TRUE
  /\ worker = "idle"
  /\ spawned = {}

Ended   == {c \in Call : phase[c] \in {"returned", "aborted"}}
Pending == {c \in JobCall : phase[c] # "idle"} \ Ended

\* The calls whose task has been told to stop.
Cancelled == CASE stage \in {"closing", "closed"} -> Call
               [] stage = "draining"              -> JobCall
               [] OTHER                           -> {}

\* A tick wants a listing, and none is in progress.
Spawn(c) ==
  /\ stage = "serving"
  /\ c \in Listing \ spawned /\ spawned \subseteq Ended
  /\ spawned' = spawned \cup {c}
  /\ UNCHANGED <<bus, stage, poller, worker>>

TakeJob ==
  /\ worker = "idle" /\ stage \in {"serving", "stopping"}
  /\ worker' = "busy"
  /\ UNCHANGED <<bus, stage, poller, spawned>>

EndJob ==
  /\ worker = "busy" /\ Pending = {} /\ stage \in {"serving", "stopping"}
  /\ worker' = "idle"
  /\ UNCHANGED <<bus, stage, poller, spawned>>

Enter(c) == (EnterFree(c) \/ EnterWait(c)) /\ UNCHANGED tasks

\* The job makes its next call.
JobCalls(c) == c \in JobCall \ Cancelled /\ worker = "busy" /\ Pending = {} /\ Enter(c)

\* The listing task runs for the first time.
ListingStarts(c) == c \in spawned \ Cancelled /\ Enter(c)

\* It is cancelled before it does.
ListingNeverStarts(c) ==
  /\ c \in spawned \cap Cancelled /\ phase[c] = "idle"
  /\ phase' = [phase EXCEPT ![c] = "aborted"]
  /\ UNCHANGED <<locked, waiters, onBus, tasks>>

\* Mutant: the call waits for its thread even when it is cancelled.
ResumeShielded(c) ==
  /\ \/ Granted(c) \/ Withdraw(c)
     \/ c \notin Cancelled /\ Return(c)
     \/ c \in Cancelled \ onBus /\ AbortInside(c)
  /\ UNCHANGED tasks

\* The loop resumes the task in its call: with the lock, with the result, or
\* with its cancellation.
Resume(c) ==
  /\ \/ Granted(c) \/ Withdraw(c)
     \/ c \notin Cancelled /\ Return(c)
     \/ c \in Cancelled /\ AbortInside(c)
  /\ UNCHANGED tasks

Thread(c) == ThreadEnds(c) /\ UNCHANGED tasks

\* lifespan goes on after its yield, and cancels the poller.
StopPoller ==
  /\ stage = "serving"
  /\ stage' = "stopping"
  /\ UNCHANGED <<bus, poller, worker, spawned>>

\* The cancellation reaches the poller in its sleep, for a tick awaits nothing.
PollerEnds ==
  /\ stage = "stopping" /\ poller
  /\ poller' = FALSE
  /\ UNCHANGED <<bus, stage, worker, spawned>>

\* Worker.stop
StopWorker ==
  /\ stage = "stopping" /\ ~poller
  /\ stage' = "draining"
  /\ CancelWaiting(JobCall)
  /\ UNCHANGED <<locked, waiters, onBus, poller, worker, spawned>>

\* The cancellation ends _run: in queue.get(), or out of the job's handler.
WorkerEnds ==
  /\ stage = "draining" /\ worker # "gone" /\ Pending = {}
  /\ worker' = "gone"
  /\ UNCHANGED <<bus, stage, poller, spawned>>

\* The lifespan is over; asyncio.run cancels whatever tasks are left.
Close ==
  /\ stage = "draining" /\ worker = "gone"
  /\ stage' = "closing"
  /\ CancelWaiting(Listing)
  /\ UNCHANGED <<locked, waiters, onBus, poller, worker, spawned>>

Closed ==
  /\ stage = "closing" /\ spawned \subseteq Ended
  /\ stage' = "closed"
  /\ UNCHANGED <<bus, poller, worker, spawned>>

LoopStep ==
  \/ \E c \in Call : ListingStarts(c) \/ ListingNeverStarts(c) \/ Resume(c)
  \/ PollerEnds \/ StopWorker \/ WorkerEnds \/ Close \/ Closed

Next ==
  \/ \E c \in Call : Spawn(c) \/ JobCalls(c) \/ Thread(c)
  \/ TakeJob \/ EndJob \/ StopPoller \/ LoopStep

Spec == Init /\ [][Next]_vars

\* The loop runs what is ready.  It owes no more: a thread in libmtp may hang,
\* and nobody has to want a listing, a job or a shutdown.
FairSpec == Spec /\ WF_vars(LoopStep)

-----------------------------------------------------------------------------
\* The lock has one owner, and no hand-over of it is lost, whoever is cancelled
\* at what moment (mtp_helper.py:592-636).
LockInv == TypeOK /\ OneOwner /\ HandOver

\* "Two operations never share the USB bus" (mtp_helper.py:12-15), until the
\* shutdown abandons one: its call is aborted and its thread goes on.  Then at
\* most one other, the listing that waited behind it, joins it on the bus.
BusExclusive ==
  \A c, d \in onBus : c # d =>
     /\ stage \in {"draining", "closing", "closed"}
     /\ phase[c] = "aborted" \/ phase[d] = "aborted"
     /\ {c, d} = onBus

\* Calls enter the lock in the order in which they asked for it, those whose
\* task is cancelled meanwhile apart (mtp_helper.py:592-636).
FirstComeFirstServed == Line!LineSpec

\* As long as libmtp returns, every call that is made is served or given up,
\* and none starves in the line (mtp_helper.py:592-636).
CallsReturn ==
  (\A c \in Call : []<>(c \notin onBus))
    => \A c \in Call : phase[c] # "idle" ~> c \in Ended

\* A shutdown ends all the tasks, even when a call of libmtp never returns
\* (main.py:51-55, worker.py:136-144).
StopEnds == stage # "serving" ~> stage = "closed" /\ worker = "gone" /\ ~poller
=============================================================================
