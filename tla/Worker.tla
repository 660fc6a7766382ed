------------------------------- MODULE Worker -------------------------------
(***************************************************************************)
(* The background job queue, app/services/worker.py: Worker.enqueue with   *)
(* its history rotation, the worker coroutine _run, start and stop.        *)
(*                                                                         *)
(* Granularity.  Job-creating routes declared `def` run in threads of the  *)
(* server's thread pool, so their enqueue() interleaves with the event     *)
(* loop and with each other; the upload route is `async def`, so its       *)
(* enqueue() runs on the loop thread, and no other code of the loop runs   *)
(* until it returns.  A step of this model is a stretch of byte code in    *)
(* which CPython cannot hand the interpreter lock to another thread (it    *)
(* may at calls and backward jumps).  One job stands for one call of       *)
(* enqueue().                                                              *)
(***************************************************************************)
EXTENDS Integers, FiniteSets, Sequences

CONSTANTS Job,         \* the calls of enqueue(), one job each
          ThreadJobs,  \* those made by thread-pool routes; the rest are uploads
          NoJob,       \* the worker has no job in hand
          Cap,         \* MAX_JOB_HISTORY
          MaxStarts    \* bound: how often the application starts the worker

ASSUME JobAssumption  == IsFiniteSet(Job) /\ ThreadJobs \subseteq Job /\ NoJob \notin Job
ASSUME CapAssumption  == Cap \in Nat
ASSUME StartAssumption == MaxStarts \in Nat

VARIABLES
  kept,        \* the keys of _jobs, an OrderedDict
  born,        \* insertion stamp of each job in _jobs, 0 before: its dict order
  state,       \* Job.state, "none" before the job object exists
  finished,    \* the jobs whose finished_at is set
  queue,       \* _queue's deque
  unfinished,  \* _queue._unfinished_tasks
  call,        \* where the enqueue() of each job stands
  excess,      \* its local `excess`
  keys,        \* its local list(self._jobs.keys()), what is left to visit
  task,        \* where the coroutine _run stands
  current,     \* its local `job`
  stopping,    \* _stopping
  closing,     \* stop() has cancelled the task and is awaiting it
  starts       \* how often start() has created a task

historyVars == <<kept, born, state, finished>>
queueVars   == <<queue, unfinished>>
callVars    == <<call, excess, keys>>
taskVars    == <<task, current, stopping, closing, starts>>
vars        == <<historyVars, queueVars, callVars, taskVars>>

Terminal  == {"done", "failed"}
JobState  == {"none", "queued", "running"} \cup Terminal
MidCall   == {"measure", "list", "scan", "put", "count", "wake"}
CallState == {"idle", "returned", "raised"} \cup MidCall
Suspended == {"created", "parked", "woken", "handling"}
OnLoop    == {"get", "park", "settling"}
TaskState == {"none", "exited", "dead"} \cup Suspended \cup OnLoop

TypeOK ==
  /\ kept \subseteq Job
  /\ born \in [Job -> Nat]
  /\ state \in [Job -> JobState]
  /\ finished \subseteq Job
  /\ queue \in Seq(Job)
  /\ unfinished \in Nat
  /\ call \in [Job -> CallState]
  /\ excess \in [Job -> Nat]
  /\ keys \in [Job -> SUBSET Job]
  /\ task \in TaskState
  /\ current \in Job \cup {NoJob}
  /\ stopping \in BOOLEAN
  /\ closing \in BOOLEAN
  /\ starts \in 0..MaxStarts

Init ==
  /\ kept = {}
  /\ born = [j \in Job |-> 0]
  /\ state = [j \in Job |-> "none"]
  /\ finished = {}
  /\ queue = <<>>
  /\ unfinished = 0
  /\ call = [j \in Job |-> "idle"]
  /\ excess = [j \in Job |-> 0]
  /\ keys = [j \in Job |-> {}]
  /\ task = "none"
  /\ current = NoJob
  /\ stopping = FALSE
  /\ closing = FALSE
  /\ starts = 0

-----------------------------------------------------------------------------
\* The loop thread is inside no coroutine and no upload's enqueue().
LoopFree ==
  /\ task \notin OnLoop
  /\ \A j \in Job \ ThreadJobs : call[j] \notin MidCall

\* self._jobs[job.id] = job
Insert(j) ==
  /\ call[j] = "idle"
  /\ j \in ThreadJobs \/ LoopFree
  /\ kept' = kept \cup {j}
  /\ born' = [born EXCEPT ![j] = Cardinality({k \in Job : born[k] > 0}) + 1]
  /\ state' = [state EXCEPT ![j] = "queued"]
  /\ call' = [call EXCEPT ![j] = "measure"]
  /\ UNCHANGED <<finished, queueVars, excess, keys, taskVars>>

\* Mutant: the comparison and the count are off by one.
MeasureOffByOne(j) ==
  /\ call[j] = "measure"
  /\ IF Cardinality(kept) >= Cap
       THEN /\ excess' = [excess EXCEPT ![j] = Cardinality(kept) - Cap + 1]
            /\ call' = [call EXCEPT ![j] = "list"]
       ELSE /\ call' = [call EXCEPT ![j] = "put"]
            /\ UNCHANGED excess
  /\ UNCHANGED <<historyVars, queueVars, keys, taskVars>>

\* excess = len(self._jobs) - MAX_JOB_HISTORY; return if there is none.
Measure(j) ==
  /\ call[j] = "measure"
  /\ IF Cardinality(kept) > Cap
       THEN /\ excess' = [excess EXCEPT ![j] = Cardinality(kept) - Cap]
            /\ call' = [call EXCEPT ![j] = "list"]
       ELSE /\ call' = [call EXCEPT ![j] = "put"]
            /\ UNCHANGED excess
  /\ UNCHANGED <<historyVars, queueVars, keys, taskVars>>

\* list(self._jobs.keys())
ListKeys(j) ==
  /\ call[j] = "list"
  /\ keys' = [keys EXCEPT ![j] = kept]
  /\ call' = [call EXCEPT ![j] = "scan"]
  /\ UNCHANGED <<historyVars, queueVars, excess, taskVars>>

\* The locals of _evict_terminal go with its frame.
Unwind(j) ==
  /\ excess' = [excess EXCEPT ![j] = 0]
  /\ keys' = [keys EXCEPT ![j] = {}]

\* Mutant: the loop does not break when the excess is used up.
VisitsAll(j, k) ==
  /\ call[j] = "scan"
  /\ k \in keys[j]
  /\ \A other \in keys[j] : born[k] <= born[other]

\* k is the key the for loop of j's call visits now.
Visits(j, k) ==
  /\ call[j] = "scan"
  /\ excess[j] > 0
  /\ k \in keys[j]
  /\ \A other \in keys[j] : born[k] <= born[other]

\* Mutant: the state of the visited job is not looked at.
EvictAny(j, k) ==
  /\ Visits(j, k)
  /\ k \in kept
  /\ kept' = kept \ {k}
  /\ excess' = [excess EXCEPT ![j] = @ - 1]
  /\ keys' = [keys EXCEPT ![j] = @ \ {k}]
  /\ UNCHANGED <<born, state, finished, queueVars, call, taskVars>>

\* The visited job is finished: del self._jobs[job_id].
Evict(j, k) ==
  /\ Visits(j, k)
  /\ k \in kept
  /\ state[k] \in Terminal
  /\ kept' = kept \ {k}
  /\ excess' = [excess EXCEPT ![j] = @ - 1]
  /\ keys' = [keys EXCEPT ![j] = @ \ {k}]
  /\ UNCHANGED <<born, state, finished, queueVars, call, taskVars>>

\* The visited job is queued or running: the loop goes on to the next key.
Spare(j, k) ==
  /\ Visits(j, k)
  /\ k \in kept
  /\ state[k] \notin Terminal
  /\ keys' = [keys EXCEPT ![j] = @ \ {k}]
  /\ UNCHANGED <<historyVars, queueVars, call, excess, taskVars>>

\* The visited key has gone: KeyError leaves _evict_terminal and enqueue.
RaiseKeyError(j, k) ==
  /\ Visits(j, k)
  /\ k \notin kept
  /\ call' = [call EXCEPT ![j] = "raised"]
  /\ Unwind(j)
  /\ UNCHANGED <<historyVars, queueVars, taskVars>>

\* The for loop ends, by `break` or at the end of the list.
EndScan(j) ==
  /\ call[j] = "scan"
  /\ excess[j] <= 0 \/ keys[j] = {}
  /\ call' = [call EXCEPT ![j] = "put"]
  /\ Unwind(j)
  /\ UNCHANGED <<historyVars, queueVars, taskVars>>

\* put_nowait, first part: the deque's append.
PutItem(j) ==
  /\ call[j] = "put"
  /\ queue' = Append(queue, j)
  /\ call' = [call EXCEPT ![j] = "count"]
  /\ UNCHANGED <<historyVars, unfinished, excess, keys, taskVars>>

\* put_nowait, second part: _unfinished_tasks += 1.
CountItem(j) ==
  /\ call[j] = "count"
  /\ unfinished' = unfinished + 1
  /\ call' = [call EXCEPT ![j] = "wake"]
  /\ UNCHANGED <<historyVars, queue, excess, keys, taskVars>>

\* Mutant: the put does not resolve the getter.
WakeNobody(j) ==
  /\ call[j] = "wake"
  /\ call' = [call EXCEPT ![j] = "returned"]
  /\ UNCHANGED <<historyVars, queueVars, excess, keys, taskVars>>

\* put_nowait, last part: resolve the registered getter, if there is one and
\* it has not been cancelled; then enqueue() returns the job.
WakeGetter(j) ==
  /\ call[j] = "wake"
  /\ task' = IF task = "parked" /\ ~closing THEN "woken" ELSE task
  /\ call' = [call EXCEPT ![j] = "returned"]
  /\ UNCHANGED <<historyVars, queueVars, excess, keys, current, stopping, closing, starts>>

Scan(j)    == \E k \in Job : Evict(j, k) \/ Spare(j, k) \/ RaiseKeyError(j, k)
Proceed(j) == \/ Measure(j) \/ ListKeys(j) \/ Scan(j) \/ EndScan(j)
              \/ PutItem(j) \/ CountItem(j) \/ WakeGetter(j)
Enqueue(j) == Insert(j) \/ Proceed(j)

-----------------------------------------------------------------------------
\* The new task runs for the first time, up to the queue's get().
BeginRun ==
  /\ task = "created" /\ ~closing /\ LoopFree
  /\ task' = IF stopping THEN "exited" ELSE "get"
  /\ UNCHANGED <<historyVars, queueVars, callVars, current, stopping, closing, starts>>

\* Mutant: the item is read and stays in the queue.
PeekJob ==
  /\ task = "get"
  /\ queue # <<>>
  /\ current' = Head(queue)
  /\ state' = [state EXCEPT ![Head(queue)] = "running"]
  /\ task' = "handling"
  /\ UNCHANGED <<kept, born, finished, queueVars, callVars, stopping, closing, starts>>

\* Mutant: the newest item is taken.
TakeNewest ==
  /\ task = "get"
  /\ queue # <<>>
  /\ queue' = SubSeq(queue, 1, Len(queue) - 1)
  /\ current' = queue[Len(queue)]
  /\ state' = [state EXCEPT ![queue[Len(queue)]] = "running"]
  /\ task' = "handling"
  /\ UNCHANGED <<kept, born, finished, unfinished, callVars, stopping, closing, starts>>

\* get() finds an item: the job is running, and its handler is called.
TakeJob ==
  /\ task = "get"
  /\ queue # <<>>
  /\ queue' = Tail(queue)
  /\ current' = Head(queue)
  /\ state' = [state EXCEPT ![Head(queue)] = "running"]
  /\ task' = "handling"
  /\ UNCHANGED <<kept, born, finished, unfinished, callVars, stopping, closing, starts>>

\* get() finds the queue empty: it is about to wait.
FindEmpty ==
  /\ task = "get"
  /\ queue = <<>>
  /\ task' = "park"
  /\ UNCHANGED <<historyVars, queueVars, callVars, current, stopping, closing, starts>>

\* get() registers its getter and suspends.
RegisterGetter ==
  /\ task = "park"
  /\ task' = "parked"
  /\ UNCHANGED <<historyVars, queueVars, callVars, current, stopping, closing, starts>>

\* The resolved getter resumes get(), which tests the queue again.
Resume ==
  /\ task = "woken" /\ ~closing /\ LoopFree
  /\ task' = "get"
  /\ UNCHANGED <<historyVars, queueVars, callVars, current, stopping, closing, starts>>

\* The handler returns, or it (or the lookup of a handler) raises.
EndHandler(result) ==
  /\ task = "handling" /\ ~closing /\ LoopFree
  /\ state' = [state EXCEPT ![current] = result]
  /\ task' = "settling"
  /\ UNCHANGED <<kept, born, finished, queueVars, callVars, current, stopping, closing, starts>>

Complete == EndHandler("done")
Fail     == EndHandler("failed")

\* Mutant: task_done() is not called.
NoTaskDone == UNCHANGED unfinished

\* task_done(): its ValueError, when nothing is counted, ends the coroutine.
TaskDone == unfinished' = IF unfinished > 0 THEN unfinished - 1 ELSE 0

\* The finally clause, then the test of the while loop.
Settle ==
  /\ task = "settling"
  /\ finished' = finished \cup {current}
  /\ TaskDone
  /\ task' = IF unfinished = 0 THEN "dead" ELSE IF stopping THEN "exited" ELSE "get"
  /\ current' = NoJob
  /\ UNCHANGED <<kept, born, state, queue, callVars, stopping, closing, starts>>

\* CancelledError reaches the suspended coroutine: in a handler it passes
\* `except Exception` and runs the finally clause, elsewhere the loop breaks.
Interrupt ==
  /\ closing /\ task \in Suspended /\ LoopFree
  /\ finished' = finished \cup ({current} \ {NoJob})
  /\ IF task = "handling" THEN TaskDone ELSE UNCHANGED unfinished
  /\ task' = "exited"
  /\ current' = NoJob
  /\ UNCHANGED <<kept, born, state, queue, callVars, stopping, closing, starts>>

\* Mutant: start() does not ask whether a task is alive.
StartAnyway ==
  /\ ~closing /\ LoopFree
  /\ starts < MaxStarts
  /\ starts' = starts + 1
  /\ stopping' = FALSE
  /\ task' = "created"
  /\ UNCHANGED <<historyVars, queueVars, callVars, current, closing>>

\* start(): nothing to do while a task is alive.
Start ==
  /\ task \in {"none", "exited", "dead"} /\ ~closing /\ LoopFree
  /\ starts < MaxStarts
  /\ starts' = starts + 1
  /\ stopping' = FALSE
  /\ task' = "created"
  /\ UNCHANGED <<historyVars, queueVars, callVars, current, closing>>

\* stop() up to its await of the cancelled task.
StopRequest ==
  /\ ~closing /\ ~stopping /\ LoopFree
  /\ stopping' = TRUE
  /\ closing' = (task # "none")
  /\ UNCHANGED <<historyVars, queueVars, callVars, task, current, starts>>

\* stop() resumes when the task has ended.
StopDone ==
  /\ closing /\ task \in {"exited", "dead"} /\ LoopFree
  /\ closing' = FALSE
  /\ task' = "none"
  /\ UNCHANGED <<historyVars, queueVars, callVars, current, stopping, starts>>

RunTask == \/ BeginRun \/ TakeJob \/ FindEmpty \/ RegisterGetter \/ Resume
           \/ Complete \/ Fail \/ Settle \/ Interrupt

Next == \/ \E j \in Job : Enqueue(j)
        \/ RunTask
        \/ Start \/ StopRequest \/ StopDone

Spec == Init /\ [][Next]_vars

(***************************************************************************)
(* Fairness.  The scheduler runs every thread and the loop runs every      *)
(* ready coroutine; that every handler ends is an assumption on calibredb  *)
(* and the device.  Nothing obliges a request to arrive or the server to   *)
(* start or stop.                                                          *)
(***************************************************************************)
FairSpec ==
  /\ Spec
  /\ WF_vars(RunTask)
  /\ WF_vars(StopDone)
  /\ \A j \in Job : WF_vars(Proceed(j))

-----------------------------------------------------------------------------
InQueue(j) == \E i \in 1..Len(queue) : queue[i] = j
Accepted   == {"count", "wake", "returned"}

\* A job waits in the queue exactly while it is queued and its enqueue() has
\* reached the append, and it waits there once: put_nowait and get() neither
\* lose nor repeat a job, whatever the threads do (worker.py:74-76, 112-116).
AcceptedOnce ==
  /\ \A j \in Job : InQueue(j) <=> state[j] = "queued" /\ call[j] \in Accepted
  /\ \A i, k \in 1..Len(queue) : queue[i] = queue[k] => i = k

\* At most one job runs, and it is the one the coroutine holds: start() never
\* makes a second task beside a live one (worker.py:109-134).
SerialExecution ==
  \A j \in Job : state[j] = "running" /\ j \notin finished =>
                    task = "handling" /\ current = j

\* Queued and running jobs stay visible to /jobs: history rotation never takes
\* one, even when several rotations and the worker overlap (worker.py:82-84).
ActiveJobsListed ==
  \A j \in Job : state[j] \in {"queued", "running"} => j \in kept

\* What a job shows agrees with how far its enqueue() and its execution have
\* come: an unaccepted job is untouched, finished_at is on no job that has not
\* run, and the job in hand is running (worker.py:62-77, 112-129).
StatesFollowCalls ==
  /\ \A j \in Job :
       /\ state[j] = "none" <=> call[j] = "idle"
       /\ call[j] \notin Accepted \cup {"idle"} => state[j] = "queued"
       /\ state[j] \in {"none", "queued"} => j \notin finished
  /\ task = "handling" => state[current] = "running" /\ current \notin finished
  /\ task = "settling" => state[current] \in Terminal

\* The queue's count is what is queued or in hand, put_nowait's own gap apart,
\* so that task_done() never raises and no failure ends the coroutine: _run
\* returns only when stop() asks for it (worker.py:109-129).
BalancedCount ==
  /\ unfinished + Cardinality({j \in Job : call[j] = "count"})
       = Len(queue) + Cardinality({current} \ {NoJob})
  /\ task # "dead"

\* Rotation takes a job only while the history exceeds its cap, and of the
\* finished jobs the oldest; and when it leaves the history over the cap,
\* "every entry is non-terminal" (worker.py:80-95).
RotationTakesOldestExcess ==
  [][/\ \A k \in kept \ kept' :
          /\ Cardinality(kept) > Cap
          /\ \A other \in kept' : state[other] \in Terminal => born[k] < born[other]
     /\ \A j \in Job : call[j] = "scan" /\ call'[j] = "put" /\ Cardinality(kept) > Cap
          => \A k \in kept : state[k] \notin Terminal]_vars

\* A job whose request has returned is executed to its end, unless the server
\* is not running or stops (worker.py:76, 109-129).
JobsFinish ==
  \A j \in Job : (call[j] = "returned" /\ starts > 0)
                    ~> (j \in finished \/ stopping)

(***************************************************************************)
(* Worker implements JobLifecycle: a job is accepted by the append to the  *)
(* queue's deque, executes from get() to the end of its handler, and is    *)
(* interrupted when the cancellation of stop() reaches the handler.        *)
(***************************************************************************)
OutcomeOf(j) ==
  CASE state[j] = "none" -> "new"
    [] state[j] = "queued" -> IF call[j] \in Accepted THEN "accepted" ELSE "new"
    [] state[j] = "running" -> IF j \in finished THEN "interrupted" ELSE "executing"
    [] OTHER -> state[j]

Lifecycle == INSTANCE JobLifecycle WITH
  waiting   <- queue,
  executing <- IF task = "handling" THEN current ELSE NoJob,
  outcome   <- [j \in Job |-> OutcomeOf(j)]

\* Jobs are executed one at a time, in the order of acceptance, each at most
\* once (worker.py:62-129).
ImplementsLifecycle == Lifecycle!LifecycleSpec
=============================================================================
