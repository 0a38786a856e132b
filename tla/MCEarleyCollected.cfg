\* The collector with its default lag, on inputs of five characters.
CONSTANTS
  MaxLen = 5
  Chars <- MCChars
  Null = "null"
  Eof = "EOF"
  Grammars <- FailsAndLives
  Words <- LongWords
  Spans <- MCSpans
  NoLag = NoLag
  Lags <- Collected
SPECIFICATION CollectedSpec
INVARIANT AcceptsEveryMember
