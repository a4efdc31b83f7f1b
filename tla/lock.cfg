SPECIFICATION MCSpec
CONSTANTS
  None = None
  Proc = {p1, p2, p3}
  Ino = {i1, i2, i3}
  MaxTries = 1
  MaxCrashes = 1
  SlowMakers = FALSE
  Reuse = FALSE
INVARIANTS HolderKeepsLock
PROPERTIES DeadLockIsReclaimed
CHECK_DEADLOCK FALSE
