SPECIFICATION Spec
CONSTANTS
  MAX_HEAPS = 3
  HeapBytes = 7
  HDR = 1
  MaxSize = 3
  MaxMoving = 1
  Data = {d1, d2}
INVARIANTS HeapsIntact
PROPERTIES NullOnlyIfFull Allocates
