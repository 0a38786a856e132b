SPECIFICATION Spec
CONSTANTS
  Conns = {c1, c2}
  Sessions = {s1}
  c1 = c1
  c2 = c2
  s1 = s1
  None = None
  MaxSessions = 1
  MaxOpen = 2
  MaxOut = 2
  MaxDetached = 1
  IdleTimeout = TRUE
  WriteTimeout = TRUE
  MaxLines = 3
INVARIANTS CleanReport
