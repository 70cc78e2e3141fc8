SPECIFICATION FairSpec
CONSTANTS
  chan = chan
  query = query
  s1 = s1
  s2 = s2
  Channels <- OneChannel
  Queries <- OneQuery
  Closers <- TwoClosers
  Batch = 2
  MaxTombs = 1
  MaxMsgs = 2
  Refreshes = FALSE
INVARIANT ClosedStaysClosed
INVARIANT NoPhantom
INVARIANT RowsBelong
PROPERTY CloseAnswers
