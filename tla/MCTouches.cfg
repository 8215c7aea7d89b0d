SPECIFICATION OverlaySpec
CONSTANTS
  Threads = {"a", "c"}
  Old = {"a"}
  Second = {"c"}
  Places = {1, 2}
  MaxEdits = 2
  Wide = {1}
  Centers = {"l", "r"}
  MaxZoom = 2
  MaxMoves = 1
  MaxFits = 1
  Fingers = {1, 2, 3, 4}
  Off = {4}
  MaxSpan = 3
  Detent = 2
INVARIANTS
  PinchesMove
  PanEnds
CHECK_DEADLOCK FALSE
