\* The recogniser on seven Boolean grammars and every word of at most three
\* characters.
CONSTANTS
  MaxLen = 3
  Chars <- MCChars
  Null = "null"
  Eof = "EOF"
  Grammars <- MCGrammars
  Words <- MCWords
  Spans <- MCSpans
SPECIFICATION FairSpec
INVARIANTS
  RetractedStaysOut
  PositionExact
PROPERTY
  ImplementsRecognizer
  ParseReturns
