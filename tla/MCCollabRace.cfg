CONSTANTS
  own1 = own1
  own2 = own2
  shared = shared
  Editors <- TwoEditors
  Items <- OneItem
  Owners <- Contended
  MaxEdits = 2
  ParkEdits = {}
SPECIFICATION FairSpec
INVARIANTS
  Converged
CHECK_DEADLOCK FALSE
