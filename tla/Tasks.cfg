SPECIFICATION Spec
CONSTANTS
  s1 = s1  s2 = s2  d1 = d1  d2 = d2
  Sessions = {s1, s2}
  Dirs = {d1, d2}
  Home <- MCHome
  Start = d1
  Files = {f1}
  Calls = 4
  Cancelling = {s2}
  None = None
CHECK_DEADLOCK FALSE
INVARIANTS
  DirectoriesAreKept
  ReportsOwnWork
