SPECIFICATION DelegationFairSpec
CONSTANTS
  r1 = r1
  r2 = r2
  s1 = s1
  Nobody = Nobody
  Callers = {r1, r2}
  Stops = {s1}
INVARIANTS
  AnswerIsItsOwn
  FailedUnread
PROPERTIES
  AskReturns
CHECK_DEADLOCK FALSE
