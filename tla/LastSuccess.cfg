SPECIFICATION SchedSpec
CONSTANTS
  Connectors = {"mock"}
  Metrics = {"usage"}
  Nodes = {}
  Services = {}
  NodeLimit = 0
  ServiceLimit = 0
  Classes = {"auth"}
  VersionWrap = 2
  Sources <- MCSources
  HomeLabReporters = {}
  Refreshes = {"refresh"}
  MaxConcurrency = 1
  MaxReads = 2
PROPERTIES
  FailureKeepsLastSuccess
CHECK_DEADLOCK FALSE
