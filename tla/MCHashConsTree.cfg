\* One thread that collects, or two that build.
CONSTANTS
  Addresses = {x, y, z}
  x = x
  y = y
  z = z
  Values = {a}
  a = a
  p = p
  q = q
  r = r
  Null = Null
  Shapes <- MCShapes
  MaxDepth = 2
  MaxCached = 2
  Teams <- Orderly
SPECIFICATION Spec
SYMMETRY Symmetry
INVARIANTS Canonical NoDangling
PROPERTY EntriesStay
