SPECIFICATION Spec
CONSTANTS
  Runs = {"r1", "r2"}
  NoRun = "-"
  Order <- mcOrder
  Watchers = {"w"}
  Scenarios <- mcScenarios
  MaxBuffered = 3
  MaxTracked = 1
INVARIANTS
  ToldWhatIsKept
  StreamsAreFaithful
  CancelMeansStopped
PROPERTIES
  RevocationHolds
  SeesTheOutcome
CHECK_DEADLOCK FALSE
