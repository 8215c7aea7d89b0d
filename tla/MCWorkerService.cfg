CONSTANTS
  Requests <- FourRequests
  Command <- RunAndHalt
  CrashPhases <- HandledCrashes
  MaxWorkers = 3
SPECIFICATION FairSpec
INVARIANTS
  MirrorAgrees
PROPERTIES
  EveryRequestSettles
CHECK_DEADLOCK FALSE
