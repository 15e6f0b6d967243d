CONSTANTS
  c1 = c1  c2 = c2  c3 = c3  k1 = k1  k2 = k2
  Callers <- MCCallers
  Cancellers <- MCCancellers
  None = None
SPECIFICATION FairSpec
CHECK_DEADLOCK FALSE
INVARIANTS
  RunnersKeepTheirWork
  NobodyIsForgotten
  OneRegisteredWorker
  StatusIsHonest
PROPERTY
  CancelledIsAnswered
