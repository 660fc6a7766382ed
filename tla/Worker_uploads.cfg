SPECIFICATION FairSpec
CONSTANTS
  t1 = t1  t2 = t2  u1 = u1  u2 = u2  u3 = u3
  NoJob = NoJob
  Job <- Uploads
  ThreadJobs <- Nobody
  Cap = 2
  MaxStarts = 2
INVARIANTS BalancedCount
PROPERTIES RotationTakesOldestExcess JobsFinish
CHECK_DEADLOCK FALSE
