SPECIFICATION DeploymentSpec
CONSTANTS
  Devices = {"pi"}
  Operators = {"operator"}
  MaxTokens = 2
  Styles = {"rich", "plain"}
  DefaultStyle = "rich"
INVARIANTS
  DeploymentTypeOK
  PairedResolve
  DisplayAgrees
PROPERTIES
  RevokedStaysOut
CHECK_DEADLOCK FALSE
