------------------------------- MODULE MtpBus -------------------------------
(***************************************************************************)
(* Who is on the USB bus: the verbs of app/services/mtp_helper.py, each of *)
(* which takes the module's asyncio.Lock and works in a thread.  This      *)
(* module has the steps of one call; Lifespan has the tasks that make the  *)
(* calls and may be cancelled in them.  Cancelling a task does not stop    *)
(* the thread it awaits.  asyncio.Lock is modelled by the promises the     *)
(* verbs rely on, at the granularity of its futures: a released lock is    *)
(* free until the caller whose future it resolved has resumed.             *)
(***************************************************************************)
EXTENDS Integers, SequencesExt

CONSTANT Call   \* the calls of list_files, send, remove, ...

VARIABLES locked,   \* _lock is held
          waiters,  \* _lock's futures, in the order of the requests
          phase,    \* where each call stands
          onBus     \* the calls whose thread is talking to the device

bus == <<locked, waiters, phase, onBus>>

\* In the line a call is "waiting" for its future, "woken" by it, or cancelled:
\* with the future ("cancelled") or after it was resolved ("dropped").  "using"
\* and "finished" are inside the lock, before and after the thread's end.
InLine == {"waiting", "woken", "cancelled", "dropped"}
Phase  == InLine \cup {"idle", "using", "finished", "returned", "aborted"}

BusTypeOK ==
  /\ locked \in BOOLEAN
  /\ waiters \in Seq(Call)
  /\ phase \in [Call -> Phase]
  /\ onBus \subseteq Call
  /\ \A i \in 1..Len(waiters) : phase[waiters[i]] \in InLine

BusInit ==
  /\ locked = FALSE
  /\ waiters = <<>>
  /\ phase = [c \in Call |-> "idle"]
  /\ onBus = {}

\* The line once c has taken its future out.
Without(c) == RemoveAt(waiters, CHOOSE i \in 1..Len(waiters) : waiters[i] = c)

\* The phases once c is at p and the first future of the line is resolved.
PhasesAfter(c, p, line) ==
  LET moved == [phase EXCEPT ![c] = p]
  IN  IF line # <<>> /\ moved[Head(line)] = "waiting"
        THEN [moved EXCEPT ![Head(line)] = "woken"]
        ELSE moved

\* Mutant: the call does not look whether the lock is held.
EnterHeld(c) ==
  /\ phase[c] = "idle"
  /\ \A i \in 1..Len(waiters) : phase[waiters[i]] = "cancelled"
  /\ locked' = TRUE
  /\ phase' = [phase EXCEPT ![c] = "using"]
  /\ onBus' = onBus \cup {c}
  /\ UNCHANGED waiters

\* Mutant: the call overtakes those that wait for a lock just released.
EnterBarging(c) ==
  /\ phase[c] = "idle"
  /\ ~locked
  /\ locked' = TRUE
  /\ phase' = [phase EXCEPT ![c] = "using"]
  /\ onBus' = onBus \cup {c}
  /\ UNCHANGED waiters

\* The call finds the lock free with nobody waiting, and starts its thread.
EnterFree(c) ==
  /\ phase[c] = "idle"
  /\ ~locked
  /\ \A i \in 1..Len(waiters) : phase[waiters[i]] = "cancelled"
  /\ locked' = TRUE
  /\ phase' = [phase EXCEPT ![c] = "using"]
  /\ onBus' = onBus \cup {c}
  /\ UNCHANGED waiters

\* The call queues up for the lock.
EnterWait(c) ==
  /\ phase[c] = "idle"
  /\ locked \/ \E i \in 1..Len(waiters) : phase[waiters[i]] # "cancelled"
  /\ waiters' = Append(waiters, c)
  /\ phase' = [phase EXCEPT ![c] = "waiting"]
  /\ UNCHANGED <<locked, onBus>>

\* The woken call resumes with the lock, and starts its thread.
Granted(c) ==
  /\ phase[c] = "woken"
  /\ waiters' = Without(c)
  /\ locked' = TRUE
  /\ phase' = [phase EXCEPT ![c] = "using"]
  /\ onBus' = onBus \cup {c}

\* The thread is done with the device, whether or not its call still waits.
ThreadEnds(c) ==
  /\ c \in onBus
  /\ onBus' = onBus \ {c}
  /\ phase' = IF phase[c] = "using" THEN [phase EXCEPT ![c] = "finished"] ELSE phase
  /\ UNCHANGED <<locked, waiters>>

\* Mutant: the lock is released and nobody told.
ReturnSilently(c) ==
  /\ phase[c] = "finished"
  /\ locked' = FALSE
  /\ phase' = [phase EXCEPT ![c] = "returned"]
  /\ UNCHANGED <<waiters, onBus>>

\* The thread's result reaches the call, which releases the lock.
Return(c) ==
  /\ phase[c] = "finished"
  /\ locked' = FALSE
  /\ phase' = PhasesAfter(c, "returned", waiters)
  /\ UNCHANGED <<waiters, onBus>>

\* Cancelled inside the lock: the lock is released, the thread goes on.
AbortInside(c) ==
  /\ phase[c] \in {"using", "finished"}
  /\ locked' = FALSE
  /\ phase' = PhasesAfter(c, "aborted", waiters)
  /\ UNCHANGED <<waiters, onBus>>

\* The tasks of the calls in S are cancelled: those in the line have yet to
\* resume and take their futures out.
CancelWaiting(S) ==
  phase' = [c \in Call |-> IF c \in S /\ phase[c] \in {"waiting", "woken"}
                            THEN IF phase[c] = "woken" THEN "dropped" ELSE "cancelled"
                            ELSE phase[c]]

\* Mutant: a cancelled call does not hand the free lock on.
WithdrawSilently(c) ==
  /\ phase[c] \in {"cancelled", "dropped"}
  /\ waiters' = Without(c)
  /\ phase' = [phase EXCEPT ![c] = "aborted"]
  /\ UNCHANGED <<locked, onBus>>

\* The cancelled call resumes, and hands a free lock to the next one.
Withdraw(c) ==
  /\ phase[c] \in {"cancelled", "dropped"}
  /\ waiters' = Without(c)
  /\ phase' = IF locked THEN [phase EXCEPT ![c] = "aborted"]
                         ELSE PhasesAfter(c, "aborted", Without(c))
  /\ UNCHANGED <<locked, onBus>>

-----------------------------------------------------------------------------
Using == {c \in Call : phase[c] \in {"using", "finished"}}

\* The lock is held exactly while one call is inside it.
OneOwner == /\ \A c, d \in Using : c = d
            /\ locked <=> Using # {}

\* When the lock is free and calls wait, the first future is resolved or
\* cancelled, so that its task will move the line.
HandOver ==
  ~locked /\ waiters # <<>> => phase[Head(waiters)] \in {"woken", "cancelled", "dropped"}

\* The calls that wait and have not been cancelled, in the order of their futures.
Live == {c \in Call : phase[c] \in {"waiting", "woken"}}

Ahead(c, d) ==
  \E i, k \in 1..Len(waiters) : i <= k /\ waiters[i] = c /\ waiters[k] = d

Order == {p \in Live \X Live : Ahead(p[1], p[2])}

\* The lock is a first-come-first-served line.
Line == INSTANCE FifoLock WITH inside <- Using, before <- Order
=============================================================================
