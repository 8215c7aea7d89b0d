CONSTANTS
  MaxRetries = 1
  MaxMounts = 1
  MaxLoads = 1
  Kinds <- MCKinds
SPECIFICATION Spec
INVARIANT
  RevealedOpened
CHECK_DEADLOCK FALSE
