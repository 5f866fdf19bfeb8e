SPECIFICATION Spec
CONSTANTS
  Items = {i1}
  NWorkers = 2
  OtherErrors = TRUE
  MaxRound = 1
  MaxQueue = 2
  MaxSends = 1
INVARIANTS
  TypeOK
  OperationsMatch
  FreeSlotIsClean
  ClosingSlotHasOperation
  SendsBelongToConnection
PROPERTIES
  ImplementsConnections
\* StopService ends the engine, and the bounds stop accepting.
CHECK_DEADLOCK FALSE
