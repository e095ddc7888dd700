CONSTANTS
  Unit = 2
  Base = 4
  Half = 2
  Block = 8
  Stale = Stale
  Messages <- MCMessages
  MaxResults = 3
SPECIFICATION Spec
CHECK_DEADLOCK FALSE
INVARIANT TypeOK DecodedAsSent AnswerNamesImage MemoryGivenBack
