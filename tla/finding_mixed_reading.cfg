SPECIFICATION Spec
CONSTANTS
  None = None
  Proc = {p1, p2, p3}
  Ino = {i1, i2}
  MaxTries = 1
  MaxCrashes = 0
  SlowMakers = FALSE
  Reuse = TRUE
INVARIANTS HolderKeepsLock
CHECK_DEADLOCK FALSE
