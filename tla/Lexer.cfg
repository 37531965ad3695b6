CONSTANTS
  Texts <- MCTexts
  BufferSize = 2
  Keywords <- MCKeywords
  LongMax = 127
  IntMax = 31
SPECIFICATION Spec
INVARIANTS TypeOK TokensAreLongest DroppedIsExplained LineOfToken
PROPERTY LexerEnds
\* The lexer is done when the parser has been handed END.
CHECK_DEADLOCK FALSE
