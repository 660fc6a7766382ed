---------------------------- MODULE JobLifecycle ----------------------------
(***************************************************************************)
(* What the background worker of app/services/worker.py promises, without *)
(* the asyncio queue, the job dictionary or the threads: accepted jobs are *)
(* executed one at a time, in the order of acceptance, each at most once.  *)
(* Worker.tla implements this specification.                               *)
(***************************************************************************)
EXTENDS Sequences

CONSTANTS Job,    \* the jobs that are ever submitted
          NoJob   \* the worker is executing nothing

VARIABLES waiting,    \* accepted jobs, oldest first
          executing,  \* the job being executed, or NoJob
          outcome     \* what has become of each job

lifecycleVars == <<waiting, executing, outcome>>

Outcome == {"new", "accepted", "executing", "done", "failed", "interrupted"}

LifecycleTypeOK ==
  /\ waiting \in Seq(Job)
  /\ executing \in Job \cup {NoJob}
  /\ outcome \in [Job -> Outcome]

LifecycleInit ==
  /\ waiting = <<>>
  /\ executing = NoJob
  /\ outcome = [j \in Job |-> "new"]

\* A request hands a new job to the worker.
Accept(j) ==
  /\ outcome[j] = "new"
  /\ outcome' = [outcome EXCEPT ![j] = "accepted"]
  /\ waiting' = Append(waiting, j)
  /\ UNCHANGED executing

\* The idle worker takes the oldest accepted job.
Execute ==
  /\ executing = NoJob
  /\ waiting # <<>>
  /\ executing' = Head(waiting)
  /\ waiting' = Tail(waiting)
  /\ outcome' = [outcome EXCEPT ![Head(waiting)] = "executing"]

\* The job ends: by its handler's return, by its exception, or by shutdown.
Conclude ==
  /\ executing # NoJob
  /\ \E result \in {"done", "failed", "interrupted"} :
        outcome' = [outcome EXCEPT ![executing] = result]
  /\ executing' = NoJob
  /\ UNCHANGED waiting

LifecycleNext == (\E j \in Job : Accept(j)) \/ Execute \/ Conclude

LifecycleSpec == LifecycleInit /\ [][LifecycleNext]_lifecycleVars
=============================================================================
