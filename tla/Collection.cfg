SPECIFICATION LiveSchedSpec
CONSTANTS
  Connectors = {"mock", "prometheus"}
  Metrics = {}
  Nodes = {"host", "shared"}
  Services = {"disk", "nas"}
  NodeLimit = 1
  ServiceLimit = 1
  Classes = {"auth"}
  VersionWrap = 2
  Sources <- MCSources
  HomeLabReporters = {"mock", "prometheus"}
  Refreshes = {}
  MaxConcurrency = 1
  MaxReads = 2
INVARIANTS
  WithinEntityLimits
PROPERTIES
  EveryConnectorIsAsked
CHECK_DEADLOCK FALSE
