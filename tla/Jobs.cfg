SPECIFICATION FairSpec
CONSTANTS
  root = root
  a = a
  b = b
  Sessions = {root, a, b}
  Root = root
  Prompted = {root}
  Cancelled = {root, a}
  Parent <- MCParent
  Cancels = 2
  MaxStarts <- MCMaxStarts
  MaxDrops = 1
  None = None
CHECK_DEADLOCK FALSE
INVARIANTS
  TypeOK
  RunningJobsRun
  EndsAreTheirOwn
PROPERTIES
  ListedJobsEnd
  CancelledAreTold
