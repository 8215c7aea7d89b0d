CONSTANTS
  Tabs <- ThreeTabs
  Viewers <- OneViewer
  Departures <- Leaving
SPECIFICATION Spec
INVARIANTS
  LosersHaveAWinner
  LosersAreArmed
  OneLayoutUnlessLeft
CHECK_DEADLOCK FALSE
