\* The recogniser on eight context-free grammars and every word of at most three
\* characters, without and with the collector.
CONSTANTS
  MaxLen = 3
  Chars <- MCChars
  Null = "null"
  Eof = "EOF"
  Grammars <- MCGrammars
  Words <- MCWords
  Spans <- MCSpans
  NoLag = NoLag
  Lags <- MCLags
SPECIFICATION FairCollected
INVARIANTS
  ChartSound
  PositionComplete
  SkippedRevisitIsNoOp
PROPERTY
  ImplementsRecognizer
  ParseReturns
