\* Both builders on inputs of up to four characters.
CONSTANTS
  Null = "null"
  MaxLen = 4
  Grammars <- MCGrammars
  Words <- MCWords
  Spans <- MCSpans
  Modes <- MCModes
  Orders <- MCOrders
SPECIFICATION Spec
CHECK_DEADLOCK FALSE
INVARIANTS BintreeExact ForestExact RebuildsForest
PROPERTIES Ends
