CONSTANTS
  a = a
  b = b
  None = None
  Sheets <- TwoSheets
  Entry <- EntryA
  MaxNavs = 3
  MaxFails = 0
  Upsets <- Hasty
SPECIFICATION Spec
PROPERTIES
  SeedsTheShown
CHECK_DEADLOCK FALSE
