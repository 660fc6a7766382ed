SPECIFICATION Spec
CONSTANTS
  t1 = t1  t2 = t2  u1 = u1  u2 = u2  u3 = u3
  NoJob = NoJob
  Job <- TwoAndUpload
  ThreadJobs <- TwoThreads
  Cap = 1
  MaxStarts = 2
INVARIANTS TypeOK AcceptedOnce SerialExecution ActiveJobsListed
PROPERTY ImplementsLifecycle
CHECK_DEADLOCK FALSE
