SPECIFICATION FairSpec
CONSTANTS
  t1 = t1
  w1 = w1
  q1 = q1
  q2 = q2
  f1 = f1
  NoTrigger = NoTrigger
  Triggers = {t1, w1}
  OfWorkflow = {w1}
  Requests = {q1, q2}
  Fires = {f1}
  MaxFailures = 2
  MaxBusy = 2
  MaxRestarts = 1
CONSTRAINT Small
CHECK_DEADLOCK FALSE
INVARIANTS
  OneTask
  JobsMatchRows
PROPERTY OrphanStops
