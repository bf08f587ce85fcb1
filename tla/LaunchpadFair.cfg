SPECIFICATION BothFair
CONSTANTS
  a1 = a1
  r1 = r1
  r2 = r2
  r3 = r3
  h1 = h1
  h2 = h2
  NoRun = NoRun
  Agents = {a1}
  Runs = {r1, r2, r3}
  AgentOf <- ThreeRuns
  Requests = {h1, h2}
  Offered = {"create", "send", "retry", "update", "start", "cancel"}
  Watchdog = FALSE
  SeedsBeforeLoad = FALSE
  MaxFaults = 1
INVARIANT
  OneActiveRun
PROPERTIES
  CancelledRunIsClosed
  EveryRequestReturns
  WatchedRunsClose
CHECK_DEADLOCK FALSE
