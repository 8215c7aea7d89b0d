CONSTANTS
  Clients <- FourClients
  Identities <- NoneShared
  Palette = 2
  Slots <- NoSlots
  Carried <- NoColors
  MaxInFlight = 2
SPECIFICATION CrowdSpec
PROPERTIES
  ClaimsConverge
CHECK_DEADLOCK FALSE
