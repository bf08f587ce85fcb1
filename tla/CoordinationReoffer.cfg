SPECIFICATION Spec
CONSTANTS
  a = a
  b = b
  Participants <- Alternating
  From = 3
  To = 1
  Drivers = {d1}
  NoTurn = NoTurn
  NoNumber = NoNumber
CHECK_DEADLOCK FALSE
PROPERTY
  FailedTurnMovesOn
