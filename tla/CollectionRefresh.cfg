SPECIFICATION LiveSchedSpec
CONSTANTS
  Connectors = {"mock"}
  Metrics = {"usage"}
  Nodes = {"host"}
  Services = {"disk"}
  NodeLimit = 1
  ServiceLimit = 0
  Classes = {"auth"}
  VersionWrap = 2
  Sources <- MCSources
  HomeLabReporters = {"mock"}
  Refreshes = {"refresh"}
  MaxConcurrency = 2
  MaxReads = 2
INVARIANTS
  SchedTypeOK
  LastAttemptShows
  RefreshAnswersFresh
PROPERTIES
  EveryChangeIsVersioned
  RefreshReturns
  KeepsLastKnownGood
CHECK_DEADLOCK FALSE
