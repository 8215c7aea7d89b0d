SPECIFICATION Spec
CONSTANTS
  Tabs = {1, 2}
  Slugs = {1, 2}
  MaxStarts = 3
  Editors = {1}
  Paths = {"pcb"}
  Primaries = {"gallery", "backend"}
INVARIANT QuitOnlyByUser
PROPERTIES
  EditsKept
  StoreCoherent
  MovesToLocal
CHECK_DEADLOCK FALSE
