SPECIFICATION Spec
CONSTANTS
  a = a
  b = b
  zero = zero
  any = any
  S = S
  A = A
  B = B
  D = D
  g = g
  None = None
  Eof = Eof
  Chars = {a, b}
  Nts = {S, A, B, D, any}
  Guards = {g}
  Grammars <- MCGrammars
  Starts = {S, A}
  ClassLists <- MCClassLists
  MaxNodes = 10
  MaxMade = 3
  MaxWord = 2
INVARIANTS AsRules RecipesExact
CHECK_DEADLOCK FALSE
