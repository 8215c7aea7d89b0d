CONSTANTS
  Requests <- ThreeRequests
  Command <- RunAndHalt
  CrashPhases <- BootCrashes
  MaxWorkers = 2
SPECIFICATION FairSpec
PROPERTIES
  EveryRequestSettles
CHECK_DEADLOCK FALSE
