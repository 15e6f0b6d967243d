CONSTANTS
  f1 = f1  f2 = f2  both = both  partial = partial
  Files <- MCFiles
  Changes <- MCChanges
  Touches <- MCTouches
  NumTemps = 2
  MaxRetries = 1
  RepairBudget = 1
  SelfTuning = TRUE
  Escalation = TRUE
  Absent = Absent
  Original = Original
  Torn = Torn
  None = None
SPECIFICATION FairSpec
CHECK_DEADLOCK FALSE
INVARIANTS
  ProjectRestored
  VerdictIsOfTheCandidate
  ResultIsHonest
PROPERTY
  Settles
  KeepsItsContract
