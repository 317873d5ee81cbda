SPECIFICATION Spec
CONSTANTS
  t1 = t1
  t2 = t2
  c1 = c1
  a1 = a1
  m1 = m1
  w1 = w1
  NoRun = NoRun
  Threads = {t1}
  Runs <- OneThreadRuns
  ThreadOf <- OneThreadOf
  KindOf <- OneThreadKindOf
  LargeConfig = {a1, w1}
  MaxConcurrent = 1
  MaxCrashes = 1
  DbFails = FALSE
INVARIANTS
  LiveRunReachable
  CancelFlagHasLiveRun
  ConfigIsOwn
  WaiterHasRun
  WorkflowRunSettled
CHECK_DEADLOCK FALSE
