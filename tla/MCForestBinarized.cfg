\* build_bintree with binarize.
CONSTANTS
  Null = "null"
  MaxLen = 3
  Grammars <- AcyclicGrammars
  Words <- MCWords
  Spans <- MCSpans
  Modes <- TreeModes
  Orders <- MCOrders
SPECIFICATION Spec
CHECK_DEADLOCK FALSE
INVARIANTS SplitsRules
