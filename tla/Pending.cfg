SPECIFICATION FairSpec
CONSTANTS
  Calls = 3
  Answers = 2
  Sessions = {s1, s2}
  Patterns = {p1, p2}
  s1 = s1
  s2 = s2
  p1 = p1
  p2 = p2
  Inputs <- MCInputs
  None = None
  MaxInterrupts = 1
CHECK_DEADLOCK FALSE
INVARIANTS
  AnswersHaveCause
  NobodyIsForgotten
  CascadesAreComplete
PROPERTIES
  EveryAnswerArrives
