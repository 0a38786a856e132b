SPECIFICATION Spec
CONSTANTS
  a = a
  b = b
  f = f
  g = g
  X = X
  Y = Y
  Roots <- MCRoots
  Programs <- MCPrograms
  IsCapture <- MCIsCapture
  Admits <- MCAdmits
CHECK_DEADLOCK FALSE
INVARIANTS Derivable NormalForm
PROPERTY Descends
