SPECIFICATION Spec
CONSTANTS
  Conns = {c1, c2}
  Sessions = {s1, s2}
  c1 = c1
  c2 = c2
  s1 = s1
  s2 = s2
  None = None
  MaxSessions = 2
  MaxOpen = 2
  MaxOut = 2
  MaxDetached = 1
  IdleTimeout = TRUE
  WriteTimeout = TRUE
  MaxLines = 5
INVARIANTS OneClient CountsExact AnswersInOrder ChildInheritsNothing NeverStalled
SYMMETRY Symmetry
