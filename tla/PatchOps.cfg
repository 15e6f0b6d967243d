CONSTANTS
  Texts <- MCTexts
  Original <- MCOriginal
  Bodies <- MCBodies
  MaxOps = 3
SPECIFICATION Spec
CHECK_DEADLOCK FALSE
INVARIANTS
  AppliedAsMeant
  NumbersStayValid
