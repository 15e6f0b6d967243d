SPECIFICATION FairSpec
CONSTANTS
  Callers = {c1, c2, c3}
  MaxDeaths = 2
  MaxNaps = 1
  None = None
CHECK_DEADLOCK FALSE
INVARIANTS
  ReleaseWillSucceed
PROPERTIES
  IsALock
  EveryCallEnds
