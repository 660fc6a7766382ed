SPECIFICATION FairSpec
CONSTANTS
  t1 = t1  t2 = t2  u1 = u1  u2 = u2  u3 = u3
  NoJob = NoJob
  Job <- OneThread
  ThreadJobs <- OneThread
  Cap = 1
  MaxStarts = 1
PROPERTY JobsFinish
CHECK_DEADLOCK FALSE
