SPECIFICATION Spec
CONSTANTS
  CLOSED = CLOSED
  Ends <- MCEnds
  Receivers <- OneEach
  Closers <- CloseBoth
  At <- MCAt
  Messages <- MCMessages
  Malformed <- MCMalformed
  Bytes <- MCBytes
  MaxSize = 2
  SendBudget <- TwoAndOne
INVARIANTS TypeOK OnlyClosedEndsReportClosed WakeUpPending InOrderExactlyOnce BytesConserved
PROPERTY ImplementsLink
