SPECIFICATION Spec
CONSTANTS
  chan = chan
  query = query
  s1 = s1
  s2 = s2
  Channels <- OneChannel
  Queries <- OneQuery
  Closers <- OneCloser
  Batch = 1
  MaxTombs = 1
  MaxMsgs = 3
  Refreshes = TRUE
INVARIANT TypeOK
INVARIANT ClosedStaysClosed
INVARIANT RowsBelong
PROPERTY PurgesOnlyItsBuffer
PROPERTY ReopenedByTalk
