SPECIFICATION Spec
CONSTANTS
  type = type
  name = name
  def = def
  use = use
  None = None
  Nts = {type}
  Texts = {u8, u16}
  u8 = u8
  u16 = u16
  Contexts = {k1, k2}
  k1 = k1
  k2 = k2
  Pairs <- MCPairs
SYMMETRY Symmetry
INVARIANTS TablesAgree OwnContext KeptIsHost
PROPERTY HostStays
