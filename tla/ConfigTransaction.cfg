SPECIFICATION ConfigSpec
CONSTANTS
  v1 = v1
  v2 = v2
  Services = {"web", "cli"}
  WebServices = {"web"}
  Providers = {"kimi"}
  Values <- MCValues
  MaxVersion = 2
  Names = {1}
  MaxDrafts = 2
  MaxEdits = 2
SYMMETRY MCSymmetry
INVARIANTS
  ConfigTypeOK
  RefsResolve
PROPERTIES
  OutcomesTell
  NoLostUpdate
  TestedIsWhatRuns
CHECK_DEADLOCK FALSE
