\* A thread collects while another works under a pause.
CONSTANTS
  Addresses = {x, y, z}
  x = x
  y = y
  z = z
  Values = {a}
  a = a
  p = p
  q = q
  r = r
  Null = Null
  Shapes <- MCShapes
  MaxDepth = 2
  MaxCached = 2
  Teams <- Racing
SPECIFICATION Spec
SYMMETRY AddressSymmetry
INVARIANT PausedStay
