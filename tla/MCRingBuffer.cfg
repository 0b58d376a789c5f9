SPECIFICATION RingSpec
CONSTANTS
  Bytes = {a, b}
  Capacity = 3
  MaxLen = 3
  Readers = {r1, r2}
INVARIANTS OneByteFree
PROPERTIES ImplementsFifo
CHECK_DEADLOCK FALSE
