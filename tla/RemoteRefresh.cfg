SPECIFICATION Spec
CONSTANTS
  Devices = {"pi"}
  Self = "pi"
  Kinds = {"refresh", "brightness"}
  MaxIssued = 2
  MaxPending = 2
  MaxResults = 1
  MaxRecords = 2
  MaxOutbox = 2
  MaxEpoch = 1
  MaxVersion = 1
  MaxWire = 1
  Faults = {"snap_write"}
INVARIANTS
  NeverOutOfOrder
PROPERTIES
  RefreshSeesNewer
CHECK_DEADLOCK FALSE
