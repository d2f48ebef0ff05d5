SPECIFICATION LiveSpec
CONSTANTS
  Devices = {"pi"}
  Self = "pi"
  Kinds = {"page"}
  MaxIssued = 2
  MaxPending = 1
  MaxResults = 1
  MaxRecords = 2
  MaxOutbox = 2
  MaxEpoch = 1
  MaxVersion = 0
  MaxWire = 1
  Faults = {"clock_skew"}
PROPERTIES
  AnsweredOnceConnected
  EventuallyAnswered
CHECK_DEADLOCK FALSE
