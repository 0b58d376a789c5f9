SPECIFICATION Spec
CONSTANTS
  SectorCount = 2
  PerCylinder = 1
  Data = {0, 1}
  RETRIES = 1
  UNKNOWN = 255
  MaxCalls = 2
INVARIANTS TransfersSafe PanicOnlyAfterTimeout
PROPERTIES CallEnds IsBlockDevice
CHECK_DEADLOCK FALSE
