CONSTANTS
  Clients <- ThreeClients
  Items = {r1}
  MaxPicks = 3
  MaxInFlight = 2
SPECIFICATION FairLockSpec
INVARIANTS
  OneMover
  LocksHaveHolders
PROPERTIES
  ContestsSettle
CHECK_DEADLOCK FALSE
