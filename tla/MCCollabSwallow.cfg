CONSTANTS
  own1 = own1
  own2 = own2
  shared = shared
  Editors <- TwoEditors
  Items <- ThreeItems
  Owners <- Mixed
  MaxEdits = 2
  ParkEdits <- EditKinds
SPECIFICATION FairSpec
INVARIANTS
  LocalEditsPublished
CHECK_DEADLOCK FALSE
