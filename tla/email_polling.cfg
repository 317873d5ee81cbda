SPECIFICATION FairSpec
CONSTANTS
  p1 = p1
  p2 = p2
  e1 = e1
  e2 = e2
  NoCursor = NoCursor
  LastMail = 4
  Second <- MCSecond
  Undated = {}
  Deletable = {2}
  Polls = {p1,p2}
  Edits = {e1,e2}
  MaxPerPoll = 2
  MaxListIds = 3
  MaxFailures = 1
  MaxFaults = 1
  MaxRestarts = 1
  EditsMayFail = FALSE
CONSTRAINT InTurn
INVARIANTS
  NeverTwice
PROPERTIES
  NothingSkipped
  EveryMailFires
CHECK_DEADLOCK FALSE
