SPECIFICATION FairSpec
CONSTANTS
  Items = {i1}
  NWorkers = 2
  OtherErrors = TRUE
  MaxRound = 1
  MaxQueue = 1
  MaxSends = 1
PROPERTIES
  ClosedSlotIsFreed
  StopServiceReturns
\* StopService ends the engine, and the bounds stop accepting.
CHECK_DEADLOCK FALSE
