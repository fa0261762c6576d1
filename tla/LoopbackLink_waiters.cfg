SPECIFICATION FairSpec
CONSTANTS
  CLOSED = CLOSED
  Ends <- MCEnds
  Receivers <- TwoDown
  Closers <- TwoCloseDown
  At <- MCAt
  Messages <- OneMessage
  Malformed <- MCMalformed
  Bytes <- MCBytes
  MaxSize = 0
  SendBudget <- Two
INVARIANTS WakeUpPending
PROPERTIES CloseWakesReceivers CloseReturns TimedRecvReturns
