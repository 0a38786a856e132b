CONSTANTS
  MaxLen = 2
  Chars <- MCChars
  Null = "null"
  Eof = "EOF"
  Grammars <- AtEndTwice
  Words <- MCWords
  Spans <- MCSpans
  NoLag = NoLag
  Lags <- Uncollected
SPECIFICATION CollectedSpec
INVARIANT AcceptsEveryMember
