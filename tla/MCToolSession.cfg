CONSTANTS
  MaxRetries = 1
  MaxMounts = 2
  MaxLoads = 4
  Kinds <- MCKinds
SPECIFICATION Spec
INVARIANTS
  ViewerSafe
  TornDown
  RetriesCapped
PROPERTIES
  BootSettles
CHECK_DEADLOCK FALSE
