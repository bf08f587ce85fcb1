SPECIFICATION Spec
CONSTANTS
  a1 = a1
  r1 = r1
  r2 = r2
  Runs = {r1, r2}
  AgentOf <- TwoRuns
  NoRun = NoRun
  Cancels = {c1}
  DirectPlanner = TRUE
  Fallback = {TRUE, FALSE}
  MaxFaults = 1
CHECK_DEADLOCK FALSE
SYMMETRY Interchangeable
INVARIANTS
  TypeOK
  ContainersHaveRuns
  ApprovedFirst
  DecisionStands
  RefusedNeverRan
  ActiveIsSpawning
PROPERTIES
  CutShortNeverResolves
  KeepsContract
