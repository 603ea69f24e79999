SPECIFICATION FairSpec
INVARIANTS
  RacesConfined
  LoopLeftClean
PROPERTIES
  StopReturns
\* The transport is destroyed, or the process has crashed.
CHECK_DEADLOCK FALSE
