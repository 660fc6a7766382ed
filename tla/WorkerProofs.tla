---------------------------- MODULE WorkerProofs ----------------------------
(***************************************************************************)
(* Theorems about Worker for every set of enqueue() calls, every split of  *)
(* them between threads and the event loop, every cap and any number of    *)
(* starts: type correctness, the queue's bookkeeping, serial execution,    *)
(* the safety of history rotation, and the implementation of JobLifecycle. *)
(***************************************************************************)
EXTENDS Worker, FiniteSetTheorems, SequenceTheorems, TLAPS

USE DEF historyVars, queueVars, callVars, taskVars, vars

LEMMA JobSubsetsFinite ==
  ASSUME NEW S \in SUBSET Job
  PROVE  IsFiniteSet(S) /\ Cardinality(S) \in Nat
BY JobAssumption, FS_Subset, FS_CardinalityType

-----------------------------------------------------------------------------
\* TypeOK is inductive together with: the coroutine has a job in hand exactly
\* from get() to the end of the finally clause.
JobInHand == task \in {"handling", "settling"} <=> current # NoJob

LEMMA TypeInit == Init => TypeOK /\ JobInHand
<1> SUFFICES ASSUME Init PROVE TypeOK /\ JobInHand
  OBVIOUS
<1>1. state \in [Job -> JobState] /\ call \in [Job -> CallState]
  BY DEF Init, JobState, CallState
<1>2. task \in TaskState
  BY DEF Init, TaskState
<1>3. starts \in 0..MaxStarts
  BY StartAssumption DEF Init
<1>4. born \in [Job -> Nat] /\ excess \in [Job -> Nat] /\ keys \in [Job -> SUBSET Job]
  BY DEF Init
<1>5. queue \in Seq(Job) /\ unfinished \in Nat
  BY DEF Init
<1>6. /\ kept \subseteq Job /\ finished \subseteq Job
      /\ current \in Job \cup {NoJob} /\ stopping \in BOOLEAN /\ closing \in BOOLEAN
  BY DEF Init
<1>. QED BY <1>1, <1>2, <1>3, <1>4, <1>5, <1>6 DEF TypeOK, JobInHand, Init

\* No step of an enqueue() call leaves the types.
LEMMA TypeEnqueue ==
  ASSUME TypeOK, JobInHand, NEW j \in Job, Enqueue(j)
  PROVE  TypeOK' /\ JobInHand'
<1> USE DEF TypeOK, JobInHand, JobState, CallState, MidCall, TaskState, Suspended
<1>1. CASE Insert(j)
  <2> DEFINE S == {k \in Job : born[k] > 0}
  <2>1. Cardinality(S) \in Nat
    <3>1. S \in SUBSET Job OBVIOUS
    <3>. QED BY <3>1, JobSubsetsFinite
  <2>2. born' \in [Job -> Nat]
    <3>1. born' = [born EXCEPT ![j] = Cardinality(S) + 1] BY <1>1 DEF Insert
    <3> HIDE DEF S
    <3>. QED BY <2>1, <3>1
  <2>. QED BY <1>1, <2>2 DEF Insert
<1>2. CASE Measure(j)
  <2>1. Cardinality(kept) \in Nat
    BY JobSubsetsFinite
  <2>2. Cardinality(kept) > Cap => Cardinality(kept) - Cap \in Nat
    BY <2>1, CapAssumption
  <2>. QED BY <1>2, <2>2 DEF Measure
<1>3. CASE ListKeys(j)
  BY <1>3 DEF ListKeys
<1>4. CASE Scan(j)
  <2>1. PICK k \in Job : Evict(j, k) \/ Spare(j, k) \/ RaiseKeyError(j, k)
    BY <1>4 DEF Scan
  <2>2. CASE Evict(j, k)
    BY <2>2 DEF Evict, Visits
  <2>3. CASE Spare(j, k)
    BY <2>3 DEF Spare
  <2>4. CASE RaiseKeyError(j, k)
    BY <2>4 DEF RaiseKeyError, Unwind
  <2>. QED BY <2>1, <2>2, <2>3, <2>4
<1>5. CASE EndScan(j)
  BY <1>5 DEF EndScan, Unwind
<1>6. CASE PutItem(j)
  BY <1>6 DEF PutItem
<1>7. CASE CountItem(j)
  BY <1>7 DEF CountItem
<1>8. CASE WakeGetter(j)
  BY <1>8 DEF WakeGetter
<1>. QED
  BY <1>1, <1>2, <1>3, <1>4, <1>5, <1>6, <1>7, <1>8 DEF Enqueue, Proceed

\* No step of the coroutine, of start() or of stop() leaves the types.
LEMMA TypeTask ==
  ASSUME TypeOK, JobInHand, RunTask \/ Start \/ StopRequest \/ StopDone
  PROVE  TypeOK' /\ JobInHand'
<1> USE DEF TypeOK, JobInHand, JobState, Terminal, TaskState, Suspended, OnLoop
<1>1. CASE BeginRun
  BY <1>1 DEF BeginRun
<1>2. CASE TakeJob
  <2>1. Head(queue) \in Job /\ Tail(queue) \in Seq(Job)
    BY <1>2, HeadTailProperties DEF TakeJob
  <2>2. current' # NoJob
    BY <1>2, <2>1, JobAssumption DEF TakeJob
  <2>. QED BY <1>2, <2>1, <2>2 DEF TakeJob
<1>3. CASE FindEmpty \/ RegisterGetter \/ Resume
  BY <1>3 DEF FindEmpty, RegisterGetter, Resume
<1>4. CASE Complete \/ Fail
  BY <1>4 DEF Complete, Fail, EndHandler
<1>5. CASE Settle
  <2>1. unfinished' \in Nat
    BY <1>5 DEF Settle, TaskDone
  <2>2. finished' \subseteq Job
    BY <1>5 DEF Settle
  <2>. QED BY <1>5, <2>1, <2>2 DEF Settle
<1>6. CASE Interrupt
  <2>1. unfinished' \in Nat
    BY <1>6 DEF Interrupt, TaskDone
  <2>2. finished' \subseteq Job
    BY <1>6 DEF Interrupt
  <2>. QED BY <1>6, <2>1, <2>2 DEF Interrupt
<1>7. CASE Start
  <2>1. starts' \in 0..MaxStarts
    BY <1>7, StartAssumption DEF Start
  <2>. QED BY <1>7, <2>1 DEF Start
<1>8. CASE StopRequest \/ StopDone
  BY <1>8 DEF StopRequest, StopDone
<1>. QED
  BY <1>1, <1>2, <1>3, <1>4, <1>5, <1>6, <1>7, <1>8 DEF RunTask

LEMMA TypeStep == TypeOK /\ JobInHand /\ [Next]_vars => (TypeOK /\ JobInHand)'
<1>1. TypeOK /\ JobInHand /\ UNCHANGED vars => (TypeOK /\ JobInHand)'
  BY DEF TypeOK, JobInHand
<1>. QED BY <1>1, TypeEnqueue, TypeTask DEF Next

\* The variables of Worker keep their types (worker.py, the whole class).
THEOREM TypeCorrect == Spec => []TypeOK
<1>. QED BY TypeInit, TypeStep, PTL DEF Spec

-----------------------------------------------------------------------------
(***************************************************************************)
(* The invariant of the queue.  AcceptedOnce says who is in the queue; it  *)
(* is kept by put_nowait because StatesFollowCalls makes a job that is     *)
(* about to be appended one that is not yet there, and by get() because    *)
(* the queue has no duplicates.  SerialExecution needs that the job taken  *)
(* has no finished_at, ActiveJobsListed that rotation tests the state.     *)
(***************************************************************************)
QueueInv == AcceptedOnce /\ SerialExecution /\ ActiveJobsListed /\ StatesFollowCalls

IInv == TypeOK /\ JobInHand /\ QueueInv

LEMMA QueueInvInit == Init => QueueInv
BY DEF Init, QueueInv, AcceptedOnce, InQueue, SerialExecution, ActiveJobsListed,
       StatesFollowCalls, Accepted, MidCall

\* The steps of enqueue() that touch neither the queue nor a job's state.
LEMMA QueueInvRotation ==
  ASSUME IInv, NEW j \in Job,
         Measure(j) \/ ListKeys(j) \/ Scan(j) \/ EndScan(j) \/ CountItem(j) \/ WakeGetter(j)
  PROVE  QueueInv'
<1> USE DEF IInv, TypeOK, QueueInv, Accepted
<1>1. UNCHANGED <<state, finished, queue, current>>
  BY DEF Measure, ListKeys, Scan, Evict, Spare, RaiseKeyError, EndScan, CountItem, WakeGetter
<1>2. \A k \in Job : /\ call[k] \in Accepted <=> call'[k] \in Accepted
                     /\ call[k] = "idle" <=> call'[k] = "idle"
  BY DEF Measure, ListKeys, Scan, Evict, Spare, RaiseKeyError, EndScan, CountItem,
         WakeGetter, Visits, CallState, MidCall
<1>3. \A t \in {"handling", "settling"} : task = t <=> task' = t
  BY DEF Measure, ListKeys, Scan, Evict, Spare, RaiseKeyError, EndScan, CountItem, WakeGetter
<1>4. AcceptedOnce'
  BY <1>1, <1>2 DEF AcceptedOnce, InQueue
<1>5. SerialExecution'
  BY <1>1, <1>3 DEF SerialExecution
<1>6. ActiveJobsListed'
  <2>1. \A k \in kept \ kept' : state[k] \in Terminal
    BY DEF Measure, ListKeys, Scan, Evict, Spare, RaiseKeyError, EndScan, CountItem, WakeGetter
  <2>. QED BY <1>1, <2>1 DEF ActiveJobsListed, Terminal
<1>7. StatesFollowCalls'
  BY <1>1, <1>2, <1>3 DEF StatesFollowCalls, Terminal
<1>. QED BY <1>4, <1>5, <1>6, <1>7

LEMMA QueueInvInsert ==
  ASSUME IInv, NEW j \in Job, Insert(j)
  PROVE  QueueInv'
<1> USE DEF IInv, TypeOK, QueueInv, Insert
<1>1. state[j] = "none"
  BY DEF StatesFollowCalls
<1>2. AcceptedOnce'
  BY <1>1 DEF AcceptedOnce, InQueue, Accepted
<1>3. SerialExecution'
  BY DEF SerialExecution
<1>4. ActiveJobsListed'
  BY DEF ActiveJobsListed
<1>5. StatesFollowCalls'
  <2>1. JobInHand /\ (task \in {"handling", "settling"} => current # j)
    BY <1>1 DEF StatesFollowCalls, Terminal
  <2>. QED BY <1>1, <2>1 DEF StatesFollowCalls, Accepted, JobInHand, Terminal
<1>. QED BY <1>2, <1>3, <1>4, <1>5

LEMMA QueueInvPutItem ==
  ASSUME IInv, NEW j \in Job, PutItem(j)
  PROVE  QueueInv'
<1> USE DEF IInv, TypeOK, QueueInv, PutItem
<1>1. state[j] = "queued" /\ ~InQueue(j)
  BY DEF StatesFollowCalls, AcceptedOnce, Accepted
<1>2. /\ Len(queue') = Len(queue) + 1
      /\ \A i \in 1..Len(queue) : queue'[i] = queue[i]
      /\ queue'[Len(queue) + 1] = j
  BY AppendProperties
<1>3. AcceptedOnce'
  <2>1. \A k \in Job : InQueue(k)' <=> InQueue(k) \/ k = j
    <3> DEFINE n == Len(queue)
    <3>1. n \in Nat /\ 1..Len(queue') = 1..n \cup {n + 1}
      BY <1>2, LenProperties
    <3>2. \A k \in Job : InQueue(k) => InQueue(k)'
      BY <1>2, <3>1 DEF InQueue
    <3>3. InQueue(j)'
      BY <1>2, <3>1 DEF InQueue
    <3>4. \A k \in Job : InQueue(k)' => InQueue(k) \/ k = j
      BY <1>2, <3>1 DEF InQueue
    <3>. QED BY <3>2, <3>3, <3>4
  <2>2. \A i, k \in 1..Len(queue') : queue'[i] = queue'[k] => i = k
    <3>. SUFFICES ASSUME NEW i \in 1..Len(queue'), NEW k \in 1..Len(queue'),
                         queue'[i] = queue'[k]
                  PROVE  i = k
      OBVIOUS
    <3>1. Len(queue) \in Nat /\ \A n \in 1..Len(queue) : queue'[n] # j
      BY <1>1, <1>2, LenProperties DEF InQueue
    <3>2. CASE i \in 1..Len(queue) /\ k \in 1..Len(queue)
      BY <1>2, <3>2 DEF AcceptedOnce
    <3>3. CASE i = Len(queue) + 1 \/ k = Len(queue) + 1
      BY <1>2, <3>1, <3>3
    <3>. QED BY <1>2, <3>1, <3>2, <3>3
  <2>. QED BY <1>1, <2>1, <2>2 DEF AcceptedOnce, Accepted
<1>4. SerialExecution' /\ ActiveJobsListed'
  BY DEF SerialExecution, ActiveJobsListed
<1>5. StatesFollowCalls'
  BY <1>1 DEF StatesFollowCalls, Accepted
<1>. QED BY <1>3, <1>4, <1>5

LEMMA QueueInvTakeJob ==
  ASSUME IInv, TakeJob
  PROVE  QueueInv'
<1> USE DEF IInv, TypeOK, QueueInv, TakeJob
<1> DEFINE h == Head(queue)
<1>1. /\ h \in Job /\ h = queue[1] /\ Len(queue) \in Nat /\ Len(queue) > 0
      /\ Len(queue') = Len(queue) - 1
      /\ \A i \in 1..Len(queue') : queue'[i] = queue[i + 1]
  BY HeadTailProperties, LenProperties
<1>2. InQueue(h)
  BY <1>1 DEF InQueue
<1>3. state[h] = "queued" /\ h \in kept /\ h \notin finished /\ call[h] \in Accepted
  BY <1>1, <1>2 DEF AcceptedOnce, ActiveJobsListed, StatesFollowCalls
<1>4. AcceptedOnce'
  <2>1. \A k \in Job : InQueue(k)' <=> InQueue(k) /\ k # h
    <3>1. ASSUME NEW k \in Job, InQueue(k)' PROVE InQueue(k) /\ k # h
      <4>1. PICK i \in 1..Len(queue') : queue'[i] = k
        BY <3>1 DEF InQueue
      <4>2. i + 1 \in 1..Len(queue) /\ queue[i + 1] = k
        BY <1>1, <4>1
      <4>. QED BY <1>1, <4>2 DEF InQueue, AcceptedOnce
    <3>2. ASSUME NEW k \in Job, InQueue(k), k # h PROVE InQueue(k)'
      <4>1. PICK i \in 1..Len(queue) : queue[i] = k
        BY <3>2 DEF InQueue
      <4>2. i - 1 \in 1..Len(queue') /\ queue'[i - 1] = k
        BY <1>1, <3>2, <4>1
      <4>. QED BY <4>2 DEF InQueue
    <3>. QED BY <3>1, <3>2
  <2>2. \A i, k \in 1..Len(queue') : queue'[i] = queue'[k] => i = k
    <3>. SUFFICES ASSUME NEW i \in 1..Len(queue'), NEW k \in 1..Len(queue'),
                         queue'[i] = queue'[k]
                  PROVE  i = k
      OBVIOUS
    <3>1. i + 1 \in 1..Len(queue) /\ k + 1 \in 1..Len(queue) /\ queue[i + 1] = queue[k + 1]
      BY <1>1
    <3>. QED BY <3>1 DEF AcceptedOnce
  <2>3. \A k \in Job : state'[k] = "queued" <=> state[k] = "queued" /\ k # h
    BY <1>1
  <2>. QED BY <2>1, <2>2, <2>3 DEF AcceptedOnce
<1>5. SerialExecution'
  BY <1>1 DEF SerialExecution
<1>6. ActiveJobsListed'
  BY <1>1, <1>3 DEF ActiveJobsListed
<1>7. StatesFollowCalls'
  BY <1>1, <1>3 DEF StatesFollowCalls, Accepted
<1>. QED BY <1>4, <1>5, <1>6, <1>7

LEMMA QueueInvEndHandler ==
  ASSUME IInv, Complete \/ Fail
  PROVE  QueueInv'
<1> USE DEF IInv, TypeOK, JobInHand, QueueInv, Complete, Fail, EndHandler
<1>1. PICK result \in Terminal : state' = [state EXCEPT ![current] = result]
  BY DEF Terminal
<1>2. current \in Job /\ state[current] = "running"
  BY DEF StatesFollowCalls
<1>3. \A k \in Job : state'[k] = IF k = current THEN result ELSE state[k]
  BY <1>1, <1>2
<1>4. AcceptedOnce'
  <2>1. queue' = queue /\ call' = call
    OBVIOUS
  <2>2. \A k \in Job : state'[k] = "queued" <=> state[k] = "queued"
    BY <1>2, <1>3 DEF Terminal
  <2>3. \A k \in Job : InQueue(k)' <=> InQueue(k)
    BY <2>1 DEF InQueue
  <2>. QED BY <2>1, <2>2, <2>3 DEF AcceptedOnce
<1>5. SerialExecution'
  BY <1>2, <1>3 DEF SerialExecution, Terminal
<1>6. ActiveJobsListed'
  BY <1>3 DEF ActiveJobsListed, Terminal
<1>7. StatesFollowCalls'
  BY <1>1, <1>2, <1>3 DEF StatesFollowCalls, Terminal
<1>. QED BY <1>4, <1>5, <1>6, <1>7

LEMMA QueueInvSettle ==
  ASSUME IInv, Settle \/ Interrupt
  PROVE  QueueInv'
<1> USE DEF IInv, TypeOK, JobInHand, QueueInv, Settle, Interrupt
<1>1. finished' = finished \cup ({current} \ {NoJob}) /\ task' \notin {"handling", "settling"}
  BY JobAssumption
<1>2. \A k \in Job : state[k] = "running" => k \in finished'
  BY <1>1 DEF SerialExecution
<1>3. current # NoJob => state[current] \notin {"none", "queued"}
  BY DEF StatesFollowCalls, JobInHand, Terminal
<1>. QED
  BY <1>1, <1>2, <1>3 DEF AcceptedOnce, InQueue, SerialExecution, ActiveJobsListed,
                          StatesFollowCalls

LEMMA QueueInvControl ==
  ASSUME IInv, BeginRun \/ FindEmpty \/ RegisterGetter \/ Resume
               \/ Start \/ StopRequest \/ StopDone
  PROVE  QueueInv'
<1>1. /\ UNCHANGED <<historyVars, queue, call, current>>
      /\ \A t \in {"handling", "settling"} : task = t <=> task' = t
  BY DEF BeginRun, FindEmpty, RegisterGetter, Resume, Start, StopRequest, StopDone
<1>. QED
  BY <1>1 DEF IInv, QueueInv, AcceptedOnce, InQueue, SerialExecution, ActiveJobsListed,
              StatesFollowCalls, Terminal

LEMMA IInvStep == IInv /\ [Next]_vars => IInv'
<1>. SUFFICES ASSUME IInv, [Next]_vars PROVE QueueInv'
  BY TypeStep DEF IInv
<1>1. CASE UNCHANGED vars
  BY <1>1 DEF IInv, QueueInv, AcceptedOnce, InQueue, SerialExecution, ActiveJobsListed,
              StatesFollowCalls
<1>2. ASSUME NEW j \in Job, Enqueue(j) PROVE QueueInv'
  BY <1>2, QueueInvInsert, QueueInvRotation, QueueInvPutItem DEF Enqueue, Proceed
<1>3. CASE RunTask \/ Start \/ StopRequest \/ StopDone
  BY <1>3, QueueInvTakeJob, QueueInvEndHandler, QueueInvSettle, QueueInvControl DEF RunTask
<1>. QED BY <1>1, <1>2, <1>3 DEF Next

LEMMA Invariance == Spec => []IInv
<1>1. Init => IInv
  BY TypeInit, QueueInvInit DEF IInv
<1>. QED BY <1>1, IInvStep, PTL DEF Spec

\* A job is in the queue exactly while it is queued and appended, and once:
\* the queue loses and repeats nothing, whatever the threads do.
THEOREM AcceptedOnceInvariant == Spec => []AcceptedOnce
<1>1. IInv => AcceptedOnce
  BY DEF IInv, QueueInv
<1>. QED BY <1>1, Invariance, PTL

\* At most one job runs, the one the live coroutine holds.
THEOREM SerialExecutionInvariant == Spec => []SerialExecution
<1>1. IInv => SerialExecution
  BY DEF IInv, QueueInv
<1>. QED BY <1>1, Invariance, PTL

\* History rotation never takes a queued or running job.
THEOREM ActiveJobsListedInvariant == Spec => []ActiveJobsListed
<1>1. IInv => ActiveJobsListed
  BY DEF IInv, QueueInv
<1>. QED BY <1>1, Invariance, PTL

\* A job's state agrees with the progress of its enqueue() and its execution.
THEOREM StatesFollowCallsInvariant == Spec => []StatesFollowCalls
<1>1. IInv => StatesFollowCalls
  BY DEF IInv, QueueInv
<1>. QED BY <1>1, Invariance, PTL

-----------------------------------------------------------------------------
(***************************************************************************)
(* Worker implements JobLifecycle: the append accepts, get() executes, the *)
(* end of the handler or its cancellation concludes; every other step      *)
(* leaves the abstract state as it is.                                     *)
(***************************************************************************)
AbstractExecuting == IF task = "handling" THEN current ELSE NoJob

LEMMA RefinementInit == Init => Lifecycle!LifecycleInit
BY DEF Init, Lifecycle!LifecycleInit, OutcomeOf

\* A step that keeps the queue, the job in execution and every outcome is a
\* stutter of JobLifecycle.
LEMMA RefinementStutter ==
  ASSUME queue' = queue, AbstractExecuting' = AbstractExecuting,
         \A k \in Job : OutcomeOf(k)' = OutcomeOf(k)
  PROVE  UNCHANGED Lifecycle!lifecycleVars
BY DEF AbstractExecuting, Lifecycle!lifecycleVars

LEMMA RefinementEnqueueStutter ==
  ASSUME IInv, NEW j \in Job, Enqueue(j), ~PutItem(j)
  PROVE  UNCHANGED Lifecycle!lifecycleVars
<1> USE DEF IInv, TypeOK, QueueInv
<1>1. queue' = queue
  BY DEF Enqueue, Proceed, Insert, Measure, ListKeys, Scan, Evict, Spare, RaiseKeyError,
         EndScan, CountItem, WakeGetter
<1>2. AbstractExecuting' = AbstractExecuting
  BY DEF Enqueue, Proceed, Insert, Measure, ListKeys, Scan, Evict, Spare, RaiseKeyError,
         EndScan, CountItem, WakeGetter, AbstractExecuting
<1>3. \A k \in Job : OutcomeOf(k)' = OutcomeOf(k)
  <2>1. CASE Insert(j)
    BY <2>1 DEF Insert, OutcomeOf, StatesFollowCalls, Accepted
  <2>2. CASE Proceed(j)
    <3>1. state' = state /\ finished' = finished
      BY <2>2 DEF Proceed, Measure, ListKeys, Scan, Evict, Spare, RaiseKeyError,
                  EndScan, PutItem, CountItem, WakeGetter
    <3>2. \A k \in Job : call[k] \in Accepted <=> call'[k] \in Accepted
      BY <2>2 DEF Proceed, Measure, ListKeys, Scan, Evict, Spare, RaiseKeyError,
                  EndScan, CountItem, WakeGetter, Visits, Accepted, CallState, MidCall
    <3>. QED BY <3>1, <3>2 DEF OutcomeOf
  <2>. QED BY <2>1, <2>2 DEF Enqueue
<1>. QED BY <1>1, <1>2, <1>3, RefinementStutter

LEMMA RefinementPutItem ==
  ASSUME IInv, NEW j \in Job, PutItem(j)
  PROVE  Lifecycle!Accept(j)
<1> USE DEF IInv, TypeOK, QueueInv, PutItem
<1>1. state[j] = "queued"
  BY DEF StatesFollowCalls, Accepted
<1>2. OutcomeOf(j) = "new"
  BY <1>1 DEF OutcomeOf, Accepted
<1>3. \A k \in Job : OutcomeOf(k)' = IF k = j THEN "accepted" ELSE OutcomeOf(k)
  BY <1>1 DEF OutcomeOf, Accepted
<1>. QED BY <1>2, <1>3 DEF Lifecycle!Accept

LEMMA RefinementTakeJob ==
  ASSUME IInv, TakeJob
  PROVE  Lifecycle!Execute
<1> USE DEF IInv, TypeOK, QueueInv, TakeJob
<1> DEFINE h == Head(queue)
<1>1. h \in Job /\ h = queue[1] /\ 1 \in 1..Len(queue)
  BY HeadTailProperties, LenProperties
<1>2. h \notin finished
  BY <1>1 DEF AcceptedOnce, InQueue, StatesFollowCalls
<1>3. \A k \in Job : OutcomeOf(k)' = IF k = h THEN "executing" ELSE OutcomeOf(k)
  BY <1>1, <1>2 DEF OutcomeOf
<1>. QED BY <1>1, <1>3 DEF Lifecycle!Execute

LEMMA RefinementEndHandler ==
  ASSUME IInv, Complete \/ Fail
  PROVE  Lifecycle!Conclude
<1> USE DEF IInv, TypeOK, JobInHand, QueueInv, Complete, Fail, EndHandler
<1>1. PICK result \in Terminal : state' = [state EXCEPT ![current] = result]
  BY DEF Terminal
<1>2. current \in Job /\ current # NoJob
  BY DEF JobInHand
<1>3. \A k \in Job : OutcomeOf(k)' = IF k = current THEN result ELSE OutcomeOf(k)
  BY <1>1, <1>2 DEF OutcomeOf, Terminal
<1>. QED BY <1>2, <1>3 DEF Lifecycle!Conclude, Terminal

LEMMA RefinementSettle ==
  ASSUME IInv, Settle
  PROVE  UNCHANGED Lifecycle!lifecycleVars
<1> USE DEF IInv, TypeOK, QueueInv, Settle
<1>1. \A k \in Job : OutcomeOf(k)' = OutcomeOf(k)
  BY DEF OutcomeOf, StatesFollowCalls, Terminal
<1>2. AbstractExecuting' = AbstractExecuting
  BY DEF AbstractExecuting
<1>. QED BY <1>1, <1>2, RefinementStutter

LEMMA RefinementInterrupt ==
  ASSUME IInv, Interrupt
  PROVE  Lifecycle!Conclude \/ UNCHANGED Lifecycle!lifecycleVars
<1> USE DEF IInv, TypeOK, JobInHand, QueueInv, Interrupt
<1>1. CASE task = "handling"
  <2>1. current \in Job /\ current # NoJob /\ state[current] = "running"
    BY <1>1 DEF StatesFollowCalls
  <2>2. \A k \in Job : OutcomeOf(k)' = IF k = current THEN "interrupted" ELSE OutcomeOf(k)
    BY <2>1 DEF OutcomeOf
  <2>. QED BY <1>1, <2>1, <2>2 DEF Lifecycle!Conclude
<1>2. CASE task # "handling"
  <2>1. current = NoJob
    BY <1>2 DEF Suspended
  <2>2. \A k \in Job : OutcomeOf(k)' = OutcomeOf(k)
    BY <2>1, JobAssumption DEF OutcomeOf
  <2>3. AbstractExecuting' = AbstractExecuting
    BY <1>2 DEF AbstractExecuting
  <2>. QED BY <2>2, <2>3, RefinementStutter
<1>. QED BY <1>1, <1>2

LEMMA RefinementControl ==
  ASSUME BeginRun \/ FindEmpty \/ RegisterGetter \/ Resume
         \/ Start \/ StopRequest \/ StopDone \/ UNCHANGED vars
  PROVE  UNCHANGED Lifecycle!lifecycleVars
<1>1. \A k \in Job : OutcomeOf(k)' = OutcomeOf(k)
  BY DEF BeginRun, FindEmpty, RegisterGetter, Resume, Start, StopRequest, StopDone, OutcomeOf
<1>2. queue' = queue /\ AbstractExecuting' = AbstractExecuting
  BY DEF BeginRun, FindEmpty, RegisterGetter, Resume, Start, StopRequest, StopDone,
         AbstractExecuting
<1>. QED BY <1>1, <1>2, RefinementStutter

\* The worker executes accepted jobs one at a time, in order, at most once.
THEOREM Refinement == Spec => ImplementsLifecycle
<1>1. IInv /\ [Next]_vars => [Lifecycle!LifecycleNext]_(Lifecycle!lifecycleVars)
  <2>. SUFFICES ASSUME IInv, [Next]_vars
                PROVE  Lifecycle!LifecycleNext \/ UNCHANGED Lifecycle!lifecycleVars
    OBVIOUS
  <2>1. ASSUME NEW j \in Job, Enqueue(j)
        PROVE  Lifecycle!LifecycleNext \/ UNCHANGED Lifecycle!lifecycleVars
    BY <2>1, RefinementPutItem, RefinementEnqueueStutter DEF Lifecycle!LifecycleNext
  <2>2. CASE RunTask \/ Start \/ StopRequest \/ StopDone \/ UNCHANGED vars
    BY <2>2, RefinementTakeJob, RefinementEndHandler, RefinementSettle, RefinementInterrupt,
       RefinementControl DEF RunTask, Lifecycle!LifecycleNext
  <2>. QED BY <2>1, <2>2 DEF Next
<1>. QED
  BY RefinementInit, <1>1, Invariance, PTL
  DEF Spec, ImplementsLifecycle, Lifecycle!LifecycleSpec
-----------------------------------------------------------------------------
(***************************************************************************)
(* When every job comes from the upload route, enqueue() and the coroutine *)
(* take turns on the loop's thread.  Then the queue's count is right and   *)
(* history rotation does what it says.  With a route that runs in a thread *)
(* neither holds: the worker may take and end a job that is not counted    *)
(* yet, and end jobs that a rotation has passed.                           *)
(***************************************************************************)
LoopInv ==
  /\ \A j, k \in Job : call[j] \in MidCall /\ call[k] \in MidCall => j = k
  /\ \A j \in Job : call[j] \in MidCall => task \notin OnLoop

InHand == IF current = NoJob THEN 0 ELSE 1

CountInv ==
  /\ \A j \in Job : call[j] = "count" => unfinished + 1 = Len(queue) + InHand
  /\ (\A j \in Job : call[j] # "count") => unfinished = Len(queue) + InHand
  /\ task # "dead"

\* A job's stamp tells its place among those that came.
Born == {k \in Job : born[k] > 0}

StampInv ==
  /\ \A j \in Job : born[j] > 0 <=> call[j] # "idle"
  /\ \A j \in Job : born[j] <= Cardinality(Born)
  /\ \A j, k \in Born : born[j] = born[k] => j = k
  /\ kept \subseteq Born

\* While a rotation runs, nothing else changes the history or ends a job: what it
\* has measured and listed stays true, and what it has passed is not finished.
RotationInv ==
  /\ \A j \in Job : call[j] # "raised"
  /\ \A j \in Job : call[j] = "list" => Cardinality(kept) > Cap
  /\ \A j \in Job : call[j] \in {"list", "scan"} => excess[j] = Cardinality(kept) - Cap
  /\ \A j \in Job : call[j] = "scan" =>
        keys[j] \subseteq kept /\ \A k \in kept \ keys[j] : state[k] \notin Terminal

UploadInv == IInv /\ LoopInv /\ CountInv /\ StampInv /\ RotationInv

LEMMA UploadInvInit == Init => LoopInv /\ CountInv /\ StampInv /\ RotationInv
<1>. SUFFICES ASSUME Init PROVE LoopInv /\ CountInv /\ StampInv /\ RotationInv
  OBVIOUS
<1>1. LoopInv
  BY DEF Init, LoopInv, MidCall
<1>2. CountInv
  BY DEF Init, CountInv, InHand
<1>3. Born = {}
  BY DEF Init, Born
<1>4. StampInv
  BY <1>3, FS_EmptySet DEF Init, StampInv
<1>5. RotationInv
  BY DEF Init, RotationInv
<1>. QED BY <1>1, <1>2, <1>4, <1>5

\* One enqueue() at a time is under way, and the coroutine waits for it.
LEMMA LoopStep ==
  ASSUME ThreadJobs = {}, IInv, LoopInv, [Next]_vars
  PROVE  LoopInv'
<1> USE DEF IInv, TypeOK, CallState, LoopInv, LoopFree, MidCall, OnLoop
<1>1. ASSUME NEW j \in Job, Insert(j) PROVE LoopInv'
  BY <1>1 DEF Insert
<1>2. ASSUME NEW j \in Job, Proceed(j) PROVE LoopInv'
  <2>1. call[j] \in MidCall /\ task' \in {task, "woken"}
    BY <1>2 DEF Proceed, Measure, ListKeys, Scan, Evict, Spare, RaiseKeyError, Visits, EndScan,
                PutItem, CountItem, WakeGetter
  <2>2. \A k \in Job : k # j => call'[k] = call[k]
    BY <1>2 DEF Proceed, Measure, ListKeys, Scan, Evict, Spare, RaiseKeyError, Visits, EndScan,
                PutItem, CountItem, WakeGetter
  <2>. QED BY <2>1, <2>2
<1>3. CASE RunTask
  <2>1. call' = call
    BY <1>3 DEF RunTask, BeginRun, TakeJob, FindEmpty, RegisterGetter, Resume, Complete, Fail,
                EndHandler, Settle, Interrupt
  <2>2. \A j \in Job : call[j] \notin MidCall
    BY <1>3 DEF RunTask, BeginRun, TakeJob, FindEmpty, RegisterGetter, Resume, Complete, Fail,
                EndHandler, Settle, Interrupt
  <2>. QED BY <2>1, <2>2
<1>4. CASE Start \/ StopRequest \/ StopDone
  BY <1>4 DEF Start, StopRequest, StopDone
<1>5. CASE UNCHANGED vars
  BY <1>5
<1>. QED BY <1>1, <1>2, <1>3, <1>4, <1>5 DEF Next, Enqueue

\* put_nowait's own gap is the only one, and no step of the coroutine falls in it.
LEMMA CountStep ==
  ASSUME ThreadJobs = {}, IInv, LoopInv, CountInv, [Next]_vars
  PROVE  CountInv'
<1> USE DEF IInv, TypeOK, CallState, CountInv, InHand
<1>0. Len(queue) \in Nat /\ unfinished \in Nat
  BY LenProperties
<1>1. ASSUME NEW j \in Job,
             Insert(j) \/ Measure(j) \/ ListKeys(j) \/ Scan(j) \/ EndScan(j) \/ WakeGetter(j)
      PROVE  CountInv'
  <2>1. UNCHANGED <<queue, unfinished, current>> /\ task' \in {task, "woken"}
    BY <1>1 DEF Insert, Measure, ListKeys, Scan, Evict, Spare, RaiseKeyError, EndScan, WakeGetter
  <2>2. \A k \in Job : call'[k] = "count" <=> call[k] = "count"
    BY <1>1 DEF Insert, Measure, ListKeys, Scan, Evict, Spare, RaiseKeyError, Visits, EndScan,
                WakeGetter
  <2>. QED BY <2>1, <2>2
<1>2. ASSUME NEW j \in Job, PutItem(j) PROVE CountInv'
  <2>1. \A k \in Job : call[k] # "count"
    BY <1>2 DEF PutItem, LoopInv, MidCall
  <2>2. Len(queue') = Len(queue) + 1
    BY <1>2, AppendProperties DEF PutItem
  <2>3. call'[j] = "count" /\ UNCHANGED <<unfinished, current, task>>
    BY <1>2 DEF PutItem
  <2>. QED BY <1>0, <2>1, <2>2, <2>3
<1>3. ASSUME NEW j \in Job, CountItem(j) PROVE CountInv'
  <2>1. \A k \in Job : call'[k] # "count"
    BY <1>3 DEF CountItem, LoopInv, MidCall
  <2>2. call[j] = "count" /\ unfinished' = unfinished + 1 /\ UNCHANGED <<queue, current, task>>
    BY <1>3 DEF CountItem
  <2>. QED BY <2>1, <2>2
<1>4. ASSUME LoopFree \/ task \in OnLoop, call' = call
      PROVE  unfinished = Len(queue) + InHand /\ \A k \in Job : call'[k] # "count"
  BY <1>4 DEF LoopFree, LoopInv, MidCall
<1>5. CASE TakeJob
  <2>1. Head(queue) \in Job /\ Len(queue') = Len(queue) - 1
    BY <1>5, HeadTailProperties DEF TakeJob
  <2>2. current = NoJob /\ current' # NoJob /\ task' # "dead" /\ UNCHANGED <<call, unfinished>>
    BY <1>5, <2>1, JobAssumption DEF TakeJob, JobInHand
  <2>3. task \in OnLoop
    BY <1>5 DEF TakeJob, OnLoop
  <2>. QED BY <1>0, <1>4, <2>1, <2>2, <2>3
<1>6. CASE Settle
  <2>1. current # NoJob /\ current' = NoJob /\ UNCHANGED <<call, queue>>
    BY <1>6 DEF Settle, JobInHand
  <2>2. task \in OnLoop
    BY <1>6 DEF Settle, OnLoop
  <2>3. unfinished = Len(queue) + 1
    BY <1>4, <2>1, <2>2
  <2>4. unfinished' = unfinished - 1 /\ task' # "dead"
    BY <1>0, <1>6, <2>3 DEF Settle, TaskDone
  <2>. QED BY <1>0, <1>4, <2>1, <2>2, <2>3, <2>4
<1>7. CASE Interrupt
  <2>1. LoopFree /\ current' = NoJob /\ UNCHANGED <<call, queue>> /\ task' # "dead"
    BY <1>7 DEF Interrupt
  <2>2. CASE task = "handling"
    <3>1. unfinished = Len(queue) + 1 /\ unfinished' = unfinished - 1
      BY <1>0, <1>4, <1>7, <2>1, <2>2 DEF Interrupt, TaskDone, JobInHand
    <3>. QED BY <1>0, <1>4, <2>1, <3>1
  <2>3. CASE task # "handling"
    <3>1. current = NoJob /\ unfinished' = unfinished
      BY <1>7, <2>3 DEF Interrupt, JobInHand, Suspended
    <3>. QED BY <1>4, <2>1, <3>1
  <2>. QED BY <2>2, <2>3
<1>8. CASE BeginRun \/ FindEmpty \/ RegisterGetter \/ Resume \/ Complete \/ Fail
           \/ Start \/ StopRequest \/ StopDone
  <2>1. UNCHANGED <<call, queue, unfinished, current>> /\ task' # "dead"
    BY <1>8 DEF BeginRun, FindEmpty, RegisterGetter, Resume, Complete, Fail, EndHandler,
                Start, StopRequest, StopDone
  <2>. QED BY <2>1
<1>9. CASE UNCHANGED vars
  BY <1>9
<1>. QED
  BY <1>1, <1>2, <1>3, <1>5, <1>6, <1>7, <1>8, <1>9 DEF Next, Enqueue, Proceed, RunTask

\* Stamps are given out in order; they are never changed.
LEMMA StampStep ==
  ASSUME IInv, StampInv, [Next]_vars
  PROVE  StampInv'
<1> USE DEF IInv, TypeOK, CallState, StampInv
<1>1. ASSUME NEW j \in Job, Insert(j) PROVE StampInv'
  <2>1. j \notin Born /\ Born \in SUBSET Job
    BY <1>1 DEF Insert, Born
  <2>2. IsFiniteSet(Born) /\ Cardinality(Born) \in Nat
    BY <2>1, JobSubsetsFinite
  <2>3. PICK n \in Nat : n = Cardinality(Born) + 1
    BY <2>2
  <2>4. born' = [born EXCEPT ![j] = n]
    BY <1>1, <2>3 DEF Insert, Born
  <2>9. n > 0 /\ \A k \in Job : born'[k] = IF k = j THEN n ELSE born[k]
    BY <2>2, <2>3, <2>4
  <2>5. Born' = Born \cup {j}
    <3>. HIDE DEF StampInv
    <3>. QED BY <2>9 DEF Born
  <2>6. Cardinality(Born') = n
    BY <2>1, <2>2, <2>3, <2>5, FS_AddElement
  <2>7. \A k \in Job : born[k] < n
    BY <2>2, <2>3
  <2>8. kept' = kept \cup {j} /\ \A k \in Job : call'[k] = IF k = j THEN "measure" ELSE call[k]
    BY <1>1 DEF Insert
  <2>10. \A k \in Job : born'[k] > 0 <=> call'[k] # "idle"
    BY <2>2, <2>3, <2>8, <2>9
  <2>11. \A k \in Job : born'[k] <= Cardinality(Born')
    <3>1. \A k \in Job : born[k] \in Nat
      OBVIOUS
    <3>. HIDE DEF StampInv, IInv
    <3>. QED BY <2>6, <2>7, <2>9, <3>1
  <2>12. \A k, m \in Born' : born'[k] = born'[m] => k = m
    BY <2>1, <2>5, <2>7, <2>9
  <2>. QED BY <2>5, <2>8, <2>10, <2>11, <2>12
<1>2. ASSUME born' = born, kept' \subseteq kept,
             \A j \in Job : call'[j] = "idle" <=> call[j] = "idle"
      PROVE  StampInv'
  <2>1. Born' = Born
    BY <1>2 DEF Born
  <2>. QED BY <1>2, <2>1
<1>3. ASSUME NEW j \in Job, Proceed(j) PROVE StampInv'
  BY <1>2, <1>3 DEF Proceed, Measure, ListKeys, Scan, Evict, Spare, RaiseKeyError, Visits, EndScan,
                    PutItem, CountItem, WakeGetter
<1>4. CASE RunTask
  BY <1>2, <1>4 DEF RunTask, BeginRun, TakeJob, FindEmpty, RegisterGetter, Resume, Complete, Fail,
                    EndHandler, Settle, Interrupt
<1>5. CASE Start \/ StopRequest \/ StopDone
  BY <1>2, <1>5 DEF Start, StopRequest, StopDone
<1>6. CASE UNCHANGED vars
  BY <1>2, <1>6
<1>. QED BY <1>1, <1>3, <1>4, <1>5, <1>6 DEF Next, Enqueue
\* What a rotation goes by stays true while it runs.
LEMMA RotationStep ==
  ASSUME ThreadJobs = {}, IInv, LoopInv, StampInv, RotationInv, [Next]_vars
  PROVE  RotationInv'
<1> USE DEF IInv, TypeOK, CallState
<1>0. /\ Cardinality(kept) \in Nat /\ Cap \in Nat
      /\ \A j \in Job : call[j] \in {"list", "scan"} => call[j] \in MidCall
  BY JobSubsetsFinite, CapAssumption DEF MidCall
<1>1. ASSUME NEW j \in Job, Insert(j) PROVE RotationInv'
  <2>1. \A k \in Job : call[k] \notin {"list", "scan"}
    BY <1>0, <1>1 DEF Insert, LoopFree
  <2>2. \A k \in Job : call'[k] = IF k = j THEN "measure" ELSE call[k]
    BY <1>1 DEF Insert
  <2>. QED BY <2>1, <2>2 DEF RotationInv
\* The calls of the others are not in a rotation.
<1>2. ASSUME NEW j \in Job, call[j] \in MidCall
      PROVE  \A k \in Job : k # j => call[k] \notin {"list", "scan"}
  BY <1>0, <1>2 DEF LoopInv
<1>3. ASSUME NEW j \in Job, Measure(j) PROVE RotationInv'
  <2>1. CASE Cardinality(kept) > Cap
    <3>1. Cardinality(kept) - Cap \in Nat
      BY <1>0, <2>1
    <3>2. /\ call' = [call EXCEPT ![j] = "list"] /\ UNCHANGED <<kept, state, keys>>
          /\ excess'[j] = Cardinality(kept) - Cap
      BY <1>3, <2>1, <3>1 DEF Measure
    <3>3. call[j] \in MidCall
      BY <1>3 DEF Measure, MidCall
    <3>. QED BY <1>2, <2>1, <3>2, <3>3 DEF RotationInv
  <2>2. CASE ~(Cardinality(kept) > Cap)
    <3>1. call' = [call EXCEPT ![j] = "put"] /\ UNCHANGED <<kept, state, keys, excess>>
      BY <1>3, <2>2 DEF Measure
    <3>. QED BY <3>1 DEF RotationInv
  <2>. QED BY <2>1, <2>2
<1>4. ASSUME NEW j \in Job, ListKeys(j) PROVE RotationInv'
  <2>1. /\ call[j] = "list" /\ call' = [call EXCEPT ![j] = "scan"]
        /\ keys' = [keys EXCEPT ![j] = kept] /\ UNCHANGED <<kept, state, excess>>
    BY <1>4 DEF ListKeys
  <2>2. call[j] \in MidCall
    BY <2>1 DEF MidCall
  <2>. QED BY <1>2, <2>1, <2>2 DEF RotationInv
<1>5. ASSUME NEW j \in Job, NEW k \in Job, Evict(j, k) PROVE RotationInv'
  <2>1. /\ call[j] = "scan" /\ k \in kept /\ k \in keys[j] /\ excess[j] > 0
        /\ kept' = kept \ {k} /\ UNCHANGED <<state, call>>
        /\ excess' = [excess EXCEPT ![j] = @ - 1] /\ keys' = [keys EXCEPT ![j] = @ \ {k}]
    BY <1>5 DEF Evict, Visits
  <2>2. call[j] \in MidCall
    BY <2>1 DEF MidCall
  <2>3. Cardinality(kept') = Cardinality(kept) - 1
    BY <2>1, JobSubsetsFinite, FS_RemoveElement
  <2>4. excess[j] = Cardinality(kept) - Cap /\ excess'[j] = excess[j] - 1
    BY <2>1 DEF RotationInv
  <2>5. excess'[j] = Cardinality(kept') - Cap
    BY <1>0, <2>3, <2>4
  <2>6. keys'[j] = keys[j] \ {k} /\ kept' \ keys'[j] = kept \ keys[j] /\ keys'[j] \subseteq kept'
    BY <2>1 DEF RotationInv
  <2>. QED BY <1>2, <2>1, <2>2, <2>5, <2>6 DEF RotationInv
<1>6. ASSUME NEW j \in Job, NEW k \in Job, Spare(j, k) PROVE RotationInv'
  <2>1. /\ call[j] = "scan" /\ state[k] \notin Terminal
        /\ keys' = [keys EXCEPT ![j] = @ \ {k}] /\ UNCHANGED <<kept, state, call, excess>>
    BY <1>6 DEF Spare, Visits
  <2>. QED BY <2>1 DEF RotationInv
<1>7. ASSUME NEW j \in Job, NEW k \in Job, RaiseKeyError(j, k) PROVE FALSE
  BY <1>7 DEF RaiseKeyError, Visits, RotationInv
<1>8. ASSUME NEW j \in Job, EndScan(j) PROVE RotationInv'
  <2>1. /\ call' = [call EXCEPT ![j] = "put"] /\ UNCHANGED <<kept, state>>
        /\ \A k \in Job : k # j => excess'[k] = excess[k] /\ keys'[k] = keys[k]
    BY <1>8 DEF EndScan, Unwind
  <2>2. call[j] \in MidCall
    BY <1>8 DEF EndScan, MidCall
  <2>. QED BY <1>2, <2>1, <2>2 DEF RotationInv
<1>9. ASSUME NEW j \in Job, PutItem(j) \/ CountItem(j) \/ WakeGetter(j) PROVE RotationInv'
  <2>1. PICK s \in {"count", "wake", "returned"} : call' = [call EXCEPT ![j] = s]
    BY <1>9 DEF PutItem, CountItem, WakeGetter
  <2>2. UNCHANGED <<kept, state, excess, keys>>
    BY <1>9 DEF PutItem, CountItem, WakeGetter
  <2>. QED BY <2>1, <2>2 DEF RotationInv
<1>10. CASE TakeJob \/ Complete \/ Fail \/ Settle \/ Interrupt
  <2>1. \A k \in Job : call[k] \notin MidCall
    BY <1>10 DEF TakeJob, Complete, Fail, EndHandler, Settle, Interrupt, LoopFree, LoopInv, OnLoop
  <2>2. call' = call
    BY <1>10 DEF TakeJob, Complete, Fail, EndHandler, Settle, Interrupt
  <2>. QED BY <1>0, <2>1, <2>2 DEF RotationInv
<1>11. CASE \/ BeginRun \/ FindEmpty \/ RegisterGetter \/ Resume
            \/ Start \/ StopRequest \/ StopDone \/ UNCHANGED vars
  <2>1. UNCHANGED <<kept, state, call, excess, keys>>
    BY <1>11 DEF BeginRun, FindEmpty, RegisterGetter, Resume, Start, StopRequest, StopDone
  <2>. QED BY <2>1 DEF RotationInv
<1>. QED
  BY <1>1, <1>3, <1>4, <1>5, <1>6, <1>7, <1>8, <1>9, <1>10, <1>11
     DEF Next, Enqueue, Proceed, Scan, RunTask

LEMMA UploadInvariance == ASSUME ThreadJobs = {} PROVE Spec => []UploadInv
<1>1. Init => UploadInv
  BY TypeInit, QueueInvInit, UploadInvInit DEF IInv, UploadInv
<1>2. UploadInv /\ [Next]_vars => UploadInv'
  BY IInvStep, LoopStep, CountStep, StampStep, RotationStep DEF UploadInv
<1>. QED BY <1>1, <1>2, PTL DEF Spec

\* While the jobs come from the upload route, the queue's count is what is queued
\* or in hand, put_nowait's own gap apart, and task_done() never raises
\* (worker.py:109-129).
THEOREM CountIsBalanced == ASSUME ThreadJobs = {} PROVE Spec => []BalancedCount
<1>1. ASSUME UploadInv PROVE BalancedCount
  <2> DEFINE counting == {j \in Job : call[j] = "count"}
             inHand == {current} \ {NoJob}
  <2>1. Cardinality(inHand) = InHand
    <3>1. current = NoJob => inHand = {}
      OBVIOUS
    <3>2. current # NoJob => inHand = {current}
      OBVIOUS
    <3>. QED BY <3>1, <3>2, FS_EmptySet, FS_Singleton DEF InHand
  <2>2. CASE \A j \in Job : call[j] # "count"
    <3>1. counting = {} /\ Cardinality({}) = 0
      BY <2>2, FS_EmptySet
    <3>2. unfinished \in Nat
      BY <1>1 DEF UploadInv, IInv, TypeOK
    <3>3. unfinished = Len(queue) + InHand /\ task # "dead"
      BY <1>1, <2>2 DEF UploadInv, CountInv
    <3>. HIDE DEF counting, inHand
    <3>4. unfinished + Cardinality(counting) = Len(queue) + Cardinality(inHand)
      BY <2>1, <3>1, <3>2, <3>3
    <3>. QED BY <3>3, <3>4 DEF BalancedCount, counting, inHand
  <2>3. ASSUME NEW j \in Job, call[j] = "count" PROVE BalancedCount
    <3>1. counting = {j}
      BY <1>1, <2>3 DEF UploadInv, LoopInv, MidCall
    <3>2. Cardinality(counting) = 1
      BY <3>1, FS_Singleton
    <3>3. unfinished + 1 = Len(queue) + InHand /\ task # "dead"
      BY <1>1, <2>3 DEF UploadInv, CountInv
    <3>. HIDE DEF counting, inHand
    <3>4. unfinished + Cardinality(counting) = Len(queue) + Cardinality(inHand)
      BY <2>1, <3>2, <3>3
    <3>. QED BY <3>3, <3>4 DEF BalancedCount, counting, inHand
  <2>. QED BY <2>2, <2>3
<1>. QED BY <1>1, UploadInvariance, PTL

\* While the jobs come from the upload route, rotation takes a job only while the
\* history exceeds its cap, and of the finished jobs the oldest; and what it leaves
\* over the cap is not finished (worker.py:80-95).
THEOREM RotationIsRight == ASSUME ThreadJobs = {} PROVE Spec => RotationTakesOldestExcess
<1> DEFINE Right ==
      /\ \A k \in kept \ kept' :
           /\ Cardinality(kept) > Cap
           /\ \A other \in kept' : state[other] \in Terminal => born[k] < born[other]
      /\ \A j \in Job : call[j] = "scan" /\ call'[j] = "put" /\ Cardinality(kept) > Cap
           => \A k \in kept : state[k] \notin Terminal
<1>1. ASSUME UploadInv, [Next]_vars PROVE [Right]_vars
  <2> USE <1>1 DEF UploadInv, IInv, TypeOK, CallState
  <2>0. Cardinality(kept) \in Nat /\ Cap \in Nat
    BY JobSubsetsFinite, CapAssumption
  <2>1. ASSUME NEW j \in Job, NEW k \in Job, Evict(j, k) PROVE Right
    <3>1. /\ call[j] = "scan" /\ k \in kept /\ k \in keys[j] /\ excess[j] > 0
          /\ kept' = kept \ {k} /\ call' = call
          /\ \A other \in keys[j] : born[k] <= born[other]
      BY <2>1 DEF Evict, Visits
    <3>2. Cardinality(kept) > Cap
      BY <2>0, <3>1 DEF RotationInv
    <3>3. ASSUME NEW other \in kept', state[other] \in Terminal
          PROVE  born[k] < born[other]
      <4>1. other \in keys[j] /\ other # k /\ other \in Born /\ k \in Born
        BY <3>1, <3>3 DEF RotationInv, StampInv
      <4>2. born[k] <= born[other] /\ born[k] # born[other]
        BY <3>1, <4>1 DEF StampInv
      <4>. QED BY <4>1, <4>2
    <3>. QED BY <3>1, <3>2, <3>3
  <2>2. ASSUME NEW j \in Job, EndScan(j) PROVE Right
    <3>1. /\ call[j] = "scan" /\ (excess[j] <= 0 \/ keys[j] = {})
          /\ kept' = kept /\ \A i \in Job : i # j => call'[i] = call[i]
      BY <2>2 DEF EndScan
    <3>2. ASSUME Cardinality(kept) > Cap PROVE \A k \in kept : state[k] \notin Terminal
      BY <2>0, <3>1, <3>2 DEF RotationInv
    <3>. QED BY <3>1, <3>2
  <2>3. ASSUME kept \subseteq kept', \A j \in Job : call[j] = "scan" => call'[j] # "put"
        PROVE  Right
    BY <2>3
  <2> HIDE DEF Right
  <2>4. ASSUME NEW j \in Job, Enqueue(j) PROVE Right
    <3>1. CASE Insert(j) BY <2>3, <3>1 DEF Insert
    <3>2. CASE Measure(j) BY <2>3, <3>2 DEF Measure
    <3>3. CASE ListKeys(j) BY <2>3, <3>3 DEF ListKeys
    <3>4. CASE Scan(j)
      <4>1. ASSUME NEW k \in Job, Spare(j, k) \/ RaiseKeyError(j, k) PROVE Right
        BY <2>3, <4>1 DEF Spare, RaiseKeyError
      <4>. QED BY <2>1, <3>4, <4>1 DEF Scan
    <3>5. CASE PutItem(j) \/ CountItem(j) \/ WakeGetter(j)
      BY <2>3, <3>5 DEF PutItem, CountItem, WakeGetter
    <3>. QED BY <2>2, <2>4, <3>1, <3>2, <3>3, <3>4, <3>5 DEF Enqueue, Proceed
  <2>5. CASE RunTask
    BY <2>3, <2>5 DEF RunTask, BeginRun, TakeJob, FindEmpty, RegisterGetter, Resume, Complete, Fail,
                      EndHandler, Settle, Interrupt
  <2>6. CASE Start \/ StopRequest \/ StopDone
    BY <2>3, <2>6 DEF Start, StopRequest, StopDone
  <2>. QED BY <1>1, <2>4, <2>5, <2>6 DEF Next
<1>. QED BY <1>1, UploadInvariance, PTL DEF Spec, RotationTakesOldestExcess
=============================================================================
