SPECIFICATION MCSpec
CONSTANTS
  Null = Null
  a = a
  b = b
  Roots <- MCRoots
  Callbacks = {"rename", "first", "grow", "fail"}
  Ups = {"id", "rename", "first"}
  Predicates = {"all", "b", "top"}
  MaxRuns = 2
  Apply <- MCApply
  Holds <- MCHolds
  Tables <- UnsharedShapes
  Nodes <- Addresses
  Root = 1
  Dummy = 6
INVARIANTS AsRecursion MemoExact AsPostOrder
PROPERTY ThreadsEnd
CHECK_DEADLOCK FALSE
