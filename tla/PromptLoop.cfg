SPECIFICATION Spec
CONSTANTS
  p1 = p1
  p2 = p2
  r1 = r1
  Prompts = {p1, p2}
  Results = {r1}
  MaxIds = 7
  MaxStops = 1
  None = None
SYMMETRY Alike
CHECK_DEADLOCK FALSE
INVARIANTS
  NobodyIsPassedOver
  ResultsAreCaredFor
