SPECIFICATION FairSpec
CONSTANTS
  Graphs <- MCGraphs
  LastNode = 5
  Tests <- MCTests
  MaxIterations = 2
  MaxRetries = 1
  MaxFailures = 1
INVARIANTS
  AncestorsSettled
  NothingLeftBehind
  InsideItsLoop
  EveryNodeAccounted
  FreshResult
PROPERTIES
  RunEnds
CHECK_DEADLOCK FALSE
