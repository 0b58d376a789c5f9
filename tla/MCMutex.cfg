SPECIFICATION MutexSpec
CONSTANTS
  Callers = {t1, t2, t3}
  NOBODY = NOBODY
  MaxDepth = 6
INVARIANTS MutualExclusion DestroyedIsFree
CHECK_DEADLOCK FALSE
