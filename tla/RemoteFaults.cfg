SPECIFICATION Spec
CONSTANTS
  Devices = {"pi"}
  Self = "pi"
  Kinds = {"page"}
  MaxIssued = 2
  MaxPending = 1
  MaxResults = 1
  MaxRecords = 1
  MaxOutbox = 2
  MaxEpoch = 2
  MaxVersion = 0
  MaxWire = 1
  Faults = {"ledger_write", "bus_write"}
INVARIANTS
  DisplayTypeOK
  AppliedOnceInOrder
  WithinLimit
PROPERTIES
  IsALifecycle
CHECK_DEADLOCK FALSE
