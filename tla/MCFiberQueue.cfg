CONSTANTS
  Bodies = {b1, b2, b3}
  NoBody = NoBody
  MaxParks = 2
SPECIFICATION FairSpec
INVARIANTS
  SlotPinned
  NoLostWakeup
PROPERTIES
  RunsSerially
  EveryBodyFinishes
CHECK_DEADLOCK FALSE
