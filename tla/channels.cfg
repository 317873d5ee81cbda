SPECIFICATION Spec
CONSTANTS
  p1 = p1
  p2 = p2
  NoPoller = NoPoller
  Starts = {p1, p2}
  MaxUpdates = 3
  Limit = 2
  MaxFaults = 1
  MaxRestarts = 1
  MaxConns = 3
  MaxInvalid = 2
INVARIANTS
  HandledInOrder
  OneConnection
PROPERTIES
  EveryUpdateHandled
  ZombieClosed
CHECK_DEADLOCK FALSE
