SPECIFICATION Spec
CONSTANTS
  a1 = a1
  r1 = r1
  r2 = r2
  r3 = r3
  Agents = {a1}
  Runs = {r1, r2}
  AgentOf <- TwoRuns
  Requests = {h1, h2}
  NoRun = NoRun
  Offered = {"create", "send", "start", "stop", "delete", "cancel", "retry", "update"}
  Watchdog = TRUE
  SeedsBeforeLoad = FALSE
  MaxFaults = 1
SYMMETRY Interchangeable
INVARIANTS
  TypeOK
  BusyHasActiveRun
  AnsweredOnce
  NoOrphanRuns
  NoStaleError
  FlagsHaveOwners
PROPERTIES
  ClosedRunStaysClosed
