CONSTANTS
  f1 = f1  f2 = f2  check1 = check1  check2 = check2
  NumSteps = 2
  Files <- MCFiles
  Targets <- MCTargets
  Checks <- MCChecks
  CheckPath <- Distinct
  CheckFirst <- BothSteps
  Absent = Absent
  Original = Original
  Torn = Torn
  None = None
SPECIFICATION Spec
CHECK_DEADLOCK FALSE
INVARIANTS
  ChecksAreReported
  ChangesAreReported
  LandsAsVerified
PROPERTIES
  ReportedChecksStay
