SPECIFICATION Spec
CONSTANTS
  chan = chan
  query = query
  s1 = s1
  s2 = s2
  Channels <- OneChannel
  Queries <- OneQuery
  Closers <- TwoClosers
  Batch = 1
  MaxTombs = 2
  MaxMsgs = 3
  Refreshes = FALSE
PROPERTY PurgesOnlyItsBuffer
