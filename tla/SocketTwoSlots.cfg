SPECIFICATION TwoSlotSpec
CONSTANTS
  Items = {i1, i2}
  NWorkers = 2
  OtherErrors = FALSE
  MaxRound = 0
  MaxQueue = 1
  MaxSends = 1
SYMMETRY Symmetry
INVARIANTS
  SlotOwnership
PROPERTIES
  NoLeakInService
\* StopService ends the engine, and the bounds stop accepting.
CHECK_DEADLOCK FALSE
