SPECIFICATION LiveRouterSpec
CONSTANTS
  DefaultStaleAfter = 1
  Order <- MCOrder
  Dwell <- MCDwell
  FirstPage = "CODING"
  Intervals <- MCIntervals
  Durations = {2}
  MaxLag = 1
  Cards = {"kimi"}
  Metrics = {"weekly"}
  Entities = {"nas"}
  CardOf <- MCCardOf
  PageOf <- MCPageOf
  MetricReadings <- MCMetricReadings
  EntityReadings <- MCEntityReadings
  MaxAge = 2
INVARIANTS
  OverridesEnd
PROPERTIES
  FrozenWhilePreempted
  PauseHolds
  EveryPageComesRound
CHECK_DEADLOCK FALSE
