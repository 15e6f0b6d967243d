CONSTANTS
  a1 = a1  a2 = a2  p = p  q = q  cut = cut
  Agents <- MCAgents
  Lines <- MCLines
  Texts <- MCTexts
  Long <- MCLong
  Beyond <- MCBeyond
  Cut = cut
  Tag <- Injective
  Format <- Tidy
  MaxExternal = 1
  None = None
SPECIFICATION Spec
SYMMETRY Symmetry
CHECK_DEADLOCK FALSE
INVARIANTS
  LockKeepsUpdates
  AgentAppliesToWhatWasShown
  RereadingHelps
