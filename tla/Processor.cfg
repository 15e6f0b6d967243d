SPECIFICATION Spec
CONSTANTS
  c1 = c1
  c2 = c2
  Calls = {c1, c2}
  Attempts = 2
  DoomThreshold = 2
  None = None
CHECK_DEADLOCK FALSE
INVARIANTS
  TypeOK
  WorkIsKept
  DenialIsNoticed
  EndsAreWhole
PROPERTIES
  PartsLiveOnce
