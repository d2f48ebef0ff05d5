SPECIFICATION LiveSyncSpec
CONSTANTS
  MaxEpoch = 2
  MaxVersion = 3
  MaxWire = 2
  DiskFails = TRUE
INVARIANTS
  FlowsForward
PROPERTIES
  CatchesUp
CHECK_DEADLOCK FALSE
