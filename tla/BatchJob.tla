------------------------------ MODULE BatchJob ------------------------------
(***************************************************************************)
(* One job of the worker as its handler sees it: the loop over             *)
(* job.progress that every handler of app/handlers.py is, and how it ends  *)
(* (app/services/worker.py).  The handlers' own steps are in the modules   *)
(* that extend this one.                                                   *)
(***************************************************************************)
EXTENDS Integers, Sequences

CONSTANTS Book,     \* the books (of an upload: the files) that jobs name
          MaxBatch  \* bound: the books of one job

ASSUME BatchAssumption == MaxBatch \in Nat

VARIABLES kind,      \* Job.kind of the running job, "none" between jobs
          todo,      \* the entries of job.progress its loop has yet to finish
          progress,  \* BookProgress.state, "none" for a book not in the job
          outcome    \* Job.state of the running or the last job

batch == <<kind, todo, progress, outcome>>

BookState == {"pending", "running", "done", "skipped", "failed"}
Unsettled == {"pending", "running"}

BatchInit ==
  /\ kind = "none"
  /\ todo = <<>>
  /\ progress = [b \in Book |-> "none"]
  /\ outcome = "none"

\* The routes drop repeated ids and demand at least one (_book_ids).
Selection ==
  {books \in UNION {[1..n -> Book] : n \in 1..MaxBatch} :
     \A i, j \in 1..Len(books) : books[i] = books[j] => i = j}

Chosen(books, b) == \E i \in 1..Len(books) : books[i] = b

\* The worker takes a job and calls its handler.
BeginBatch(k, books) ==
  /\ kind = "none"
  /\ kind' = k
  /\ todo' = books
  /\ progress' = [b \in Book |-> IF Chosen(books, b) THEN "pending" ELSE "none"]
  /\ outcome' = "running"

\* The handler's loop stands at book b.
At(k, b) == kind = k /\ todo # <<>> /\ b = Head(todo)

\* The book ends in state s, and the loop goes on.
Settle(s) ==
  /\ progress' = [progress EXCEPT ![Head(todo)] = s]
  /\ todo' = Tail(todo)
  /\ UNCHANGED <<kind, outcome>>

\* The loop is over: the handler returns.
EndBatch ==
  /\ kind # "none" /\ todo = <<>>
  /\ kind' = "none"
  /\ outcome' = "done"
  /\ UNCHANGED <<todo, progress>>

\* An exception leaves the handler, with the book's state at s.
AbortBatch(s) ==
  /\ progress' = [progress EXCEPT ![Head(todo)] = s]
  /\ kind' = "none"
  /\ todo' = <<>>
  /\ outcome' = "failed"

\* The job goes with its worker or its process: nothing shows it any more.
BatchGone ==
  /\ kind' = "none"
  /\ todo' = <<>>
  /\ progress' = [b \in Book |-> "none"]
  /\ outcome' = "none"

-----------------------------------------------------------------------------
\* A job that is done has settled every one of its books.
DoneJobsAreSettled == outcome = "done" => \A b \in Book : progress[b] \notin Unsettled

\* The states a book ends in are those BookState declares (worker.py:17).
BookStatesDeclared == \A b \in Book : progress[b] \in BookState \cup {"none"}
=============================================================================
