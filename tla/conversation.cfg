SPECIFICATION FairSpec
CONSTANTS
  m1 = m1
  m2 = m2
  m3 = m3
  q1 = q1
  q2 = q2
  s1 = s1
  None = None
  Callers = {m1, m2, m3}
  Prompts = {q1, q2}
  Stops = {s1}
INVARIANTS
  RunningHasTurn
  PromptAnswerable
  SubscribersHaveTurn
PROPERTIES
  ThreadOpensAgain
CHECK_DEADLOCK FALSE
