\* The two grammars on which the recogniser departs from the documentation:
\* each breaks one of the invariants (run with -continue to see both).
CONSTANTS
  MaxLen = 3
  Chars <- MCChars
  Null = "null"
  Eof = "EOF"
  Grammars <- Departing
  Words <- MCWords
  Spans <- MCSpans
SPECIFICATION Spec
INVARIANT
  AcceptsEveryMember
  AcceptsOnlyMembers
