SPECIFICATION FairSpec
CONSTANTS
  Threads = {t1, t2}
  Timeouts = {0, 3}
  Scale = 4
  Rate = 2
  WORD = 14
  MaxTicks = 6
  MaxSignals = 2
INVARIANTS SignalsKept TimeoutNotEarly
PROPERTIES WaitReturns
CHECK_DEADLOCK FALSE
