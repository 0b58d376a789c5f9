SPECIFICATION Spec
CONSTANTS
  Streams = {s1, s2}
  Paths <- MCPaths
  Blocks <- MCBlocks
  Modes = {"rw"}
  Bytes = {"x", "y", "z"}
  MaxNodes = 3
  MaxFile = 6
  JUNK = "junk"
INVARIANTS StreamsAndNodes PathsResolve CrossingIsLive
PROPERTIES FilesKeepData
SYMMETRY Symmetry
CHECK_DEADLOCK FALSE
