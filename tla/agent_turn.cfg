SPECIFICATION Spec
CONSTANTS
  k1 = k1
  k2 = k2
  MaxTurns = 2
  MaxCalls = 3
  PerReply = 2
  ToolCap = 1
  Compactions = {k1, k2}
INVARIANTS
  CompletedAnswers
  SummaryCovers
PROPERTIES
  OvertakenOnly
SYMMETRY Alike
CHECK_DEADLOCK FALSE
