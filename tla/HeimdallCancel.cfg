SPECIFICATION Spec
CONSTANTS
  a1 = a1
  r1 = r1
  r2 = r2
  Runs = {r1}
  AgentOf <- OneRun
  NoRun = NoRun
  Cancels = {c1}
  DirectPlanner = TRUE
  Fallback = {FALSE}
  MaxFaults = 0
CHECK_DEADLOCK FALSE
PROPERTY
  CancelTearsDown
