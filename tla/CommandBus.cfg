SPECIFICATION BusSpec
CONSTANTS
  Devices = {"pi"}
  Kinds = {"page", "message"}
  MaxIssued = 4
  MaxPending = 2
  MaxResults = 1
  Faults = {"bus_write"}
INVARIANTS
  BusTypeOK
  NeverOutgrowsItsFile
  SequenceFollowsQueue
  RestartKeepsAnswers
PROPERTIES
  FinalResultsStand
CHECK_DEADLOCK FALSE
