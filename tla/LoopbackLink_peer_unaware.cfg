SPECIFICATION FairSpec
CONSTANTS
  CLOSED = CLOSED
  Ends <- MCEnds
  Receivers <- OneEach
  Closers <- CloseUp
  At <- MCAt
  Messages <- OneMessage
  Malformed <- MCMalformed
  Bytes <- MCBytes
  MaxSize = 0
  SendBudget <- Two
PROPERTIES PeerLearnsOfClose
