CONSTANTS
  own1 = own1
  own2 = own2
  shared = shared
  Editors <- TwoEditors
  Items <- ThreeItems
  Owners <- Mixed
  MaxEdits = 3
  ParkEdits <- Visible
SPECIFICATION FairSpec
INVARIANTS
  OwnItemsConverge
  LocalEditsPublished
PROPERTIES
  NoEcho
  EditsAreFlushed
CHECK_DEADLOCK FALSE
