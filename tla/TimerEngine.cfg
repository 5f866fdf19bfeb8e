SPECIFICATION FairSpec
CONSTANTS
  Ids = {t1, t2, t3}
  Elapses = {20, 45}
  Repeats = {0, 2, 255}
  DwordSize = 256
INVARIANTS
  TypeOK
  CountdownIsEarliest
PROPERTIES
  ImplementsEngine
  CountsEachTimer
  TimersKeepFiring
