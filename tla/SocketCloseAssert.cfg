SPECIFICATION Spec
CONSTANTS
  Items = {i1}
  NWorkers = 1
  OtherErrors = FALSE
  MaxRound = 1
  MaxQueue = 1
  MaxSends = 1
PROPERTIES
  CloseCompletesOnce
\* StopService ends the engine, and the bounds stop accepting.
CHECK_DEADLOCK FALSE
