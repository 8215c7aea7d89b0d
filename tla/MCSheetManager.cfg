CONSTANTS
  a = a
  b = b
  None = None
  Sheets <- TwoSheets
  Entry <- EntryA
  MaxNavs = 4
  MaxFails = 2
  Upsets <- Disturbances
SPECIFICATION FairSpec
INVARIANTS
  BoundIsShown
  ShownIsCurrent
  RostersAgree
  TornDown
PROPERTIES
  ShownGetsBound
CHECK_DEADLOCK FALSE
