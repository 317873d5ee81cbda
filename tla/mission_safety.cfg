SPECIFICATION Spec
CONSTANTS
  m1 = m1
  m2 = m2
  s1 = s1
  s2 = s2
  o1 = o1
  x1 = x1
  x2 = x2
  NoMission = NoMission
  Missions = {m1}
  Sweeps = {s1}
  Owners = {o1}
  Turns = {x1}
  WakeBatch = 1
  MaxFailures = 2
  MaxTurnsPerDay = 1
  MaxCostTotal = 1
  OwnerAsks = {"active", "paused"}
  AgentAsks = {"schedule", "complete"}
  MaxFaults = 1
INVARIANTS
  NeverStranded
  InFlightAccounted
  StreakPauses
CHECK_DEADLOCK FALSE
