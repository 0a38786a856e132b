\* The walk without a stack over tables in which nodes are shared.
SPECIFICATION MCSpec
CONSTANTS
  Null = Null
  a = a
  b = b
  Roots = {}
  Callbacks = {}
  Ups = {}
  Predicates = {}
  MaxRuns = 2
  Apply <- MCApply
  Holds <- MCHolds
  Tables <- SharedShapes
  Nodes <- Addresses
  Root = 1
  Dummy = 6
INVARIANT AsPostOrder
CHECK_DEADLOCK FALSE
