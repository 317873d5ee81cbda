SPECIFICATION FairSpec
CONSTANTS
  t1 = t1
  t2 = t2
  c1 = c1
  a1 = a1
  m1 = m1
  w1 = w1
  NoRun = NoRun
  Threads = {t1, t2}
  Runs <- TwoThreadRuns
  ThreadOf <- TwoThreadOf
  KindOf <- TwoThreadKindOf
  LargeConfig = {w1}
  MaxConcurrent = 1
  MaxCrashes = 0
  DbFails = FALSE
PROPERTIES
  ThreadUsableAgain
  WorkflowRunEnds
CHECK_DEADLOCK FALSE
