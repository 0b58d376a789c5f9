SPECIFICATION MutexSpec
CONSTANTS
  Callers = {t1, t2}
  NOBODY = NOBODY
  MaxDepth = 2
PROPERTIES ContentionWaits
CHECK_DEADLOCK FALSE
