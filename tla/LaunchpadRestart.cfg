SPECIFICATION Spec
CONSTANTS
  a1 = a1
  r1 = r1
  r2 = r2
  r3 = r3
  Agents = {a1}
  NoRun = NoRun
  Runs = {r1, r2}
  AgentOf <- TwoRuns
  Requests = {h1}
  Offered = {"create", "send", "start"}
  Watchdog = FALSE
  SeedsBeforeLoad = TRUE
  MaxFaults = 1
PROPERTY
  InterruptedRunsCancelled
