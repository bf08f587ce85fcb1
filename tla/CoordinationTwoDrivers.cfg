SPECIFICATION FairSpec
CONSTANTS
  a = a
  b = b
  Participants <- Repeating
  From = 3
  To = 1
  Drivers = {d1, d2}
  NoTurn = NoTurn
  NoNumber = NoNumber
CHECK_DEADLOCK FALSE
INVARIANTS
  TypeOK
  TurnIsCurrent
  RoundRobin
  TurnHasDriver
  TurnsOnRecord
  LeftOverOrSpent
PROPERTIES
  CountsDown
  DriversLeave
