SPECIFICATION Spec
CONSTANTS
  Ids = {t1, t2}
  Elapses = {0, 50}
  Repeats = {1}
  DwordSize = 256
INVARIANT
  CountdownAtLeastOneSpace
