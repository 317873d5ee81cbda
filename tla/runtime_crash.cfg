SPECIFICATION Spec
CONSTANTS
  t1 = t1
  t2 = t2
  c1 = c1
  a1 = a1
  m1 = m1
  w1 = w1
  NoRun = NoRun
  Threads = {t1}
  Runs <- BegunRuns
  ThreadOf <- BegunOf
  KindOf <- BegunKindOf
  LargeConfig = {a1, w1}
  MaxConcurrent = 1
  MaxCrashes = 1
  DbFails = TRUE
INVARIANTS
  OneRuntimePerThread
PROPERTIES
  ImplementsTurnSlots
CHECK_DEADLOCK FALSE
