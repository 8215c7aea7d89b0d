SPECIFICATION OverlaySpec
CONSTANTS
  Threads = {"a", "b"}
  Old = {"a", "b"}
  Second = {}
  Places = {1, 2}
  MaxEdits = 2
  Wide = {1}
  Centers = {"l", "r"}
  MaxZoom = 2
  MaxMoves = 1
  MaxFits = 1
  Fingers = {1, 2, 3, 4}
  Off = {4}
  MaxSpan = 3
  Detent = 2
PROPERTIES
  DragsHeldPin
CHECK_DEADLOCK FALSE
