SPECIFICATION Spec
CONSTANTS
  W = 4
  Words = 7
  KThreads = {k1, k2}
  Users = {u1}
  KERNEL = kernel
  MaxRegions = 7
  Reserved = 4
  KBASE = 24
  KSIZE = 2
  TEMP = 34
  STACK = 2
  HEAP = 4
  DMA = 2
  Limit = 24
  LFB = 4
  TOP = 40
  PAGE = 2
  Images <- MCImages
INVARIANTS FindIsFirstFit AddressSpaces FramesKept OverlapPanicCause
PROPERTIES LeakCause
CHECK_DEADLOCK FALSE
SYMMETRY Symmetry
CONSTRAINT Followed
