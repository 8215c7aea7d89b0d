CONSTANTS
  Tabs <- TwoTabs
  Viewers <- NoViewer
  Departures <- Parking
SPECIFICATION Spec
INVARIANTS
  OneLayout
CHECK_DEADLOCK FALSE
