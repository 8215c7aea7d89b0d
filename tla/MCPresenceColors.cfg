CONSTANTS
  Clients <- ThreeClients
  Identities <- SomeShared
  Palette = 4
  Slots <- OneAuthor
  Carried <- FirstAndLastColor
  MaxInFlight = 6
SPECIFICATION FairColorSpec
INVARIANTS
  DistinctUsers
  OneColorPerUser
PROPERTIES
  ClaimsConverge
CHECK_DEADLOCK FALSE
