SPECIFICATION Spec
CONSTANTS
  g = g
  h = h
  x = x
  y = y
  start = start
  other = other
  Unset = Unset
  NoName = NoName
  Commands = {"parse", "show"}
  Inputs <- MCInputs
  Fallback <- MCFallback
  Surface <- MCSurface
  Grammars <- MCGrammars
  CommandLines <- MCCommandLines
  Environments <- MCEnvironments
INVARIANT LoadForgets
