SPECIFICATION Spec
CONSTANTS
  Tabs = {1, 2}
  Slugs = {1, 2}
  MaxStarts = 3
  Editors = {1}
  Paths = {"pcb"}
  Primaries = {"gallery", "backend"}
PROPERTIES
  TemplatesFillGaps
CHECK_DEADLOCK FALSE
