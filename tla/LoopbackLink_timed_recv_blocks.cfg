SPECIFICATION FairSpec
CONSTANTS
  CLOSED = CLOSED
  Ends <- MCEnds
  Receivers <- OneEach
  Closers <- CloseDown
  At <- MCAt
  Messages <- OneMessage
  Malformed <- MCMalformed
  Bytes <- MCBytes
  MaxSize = 1
  SendBudget <- Two
PROPERTIES TimedRecvReturns
