SPECIFICATION HistorySpec
CONSTANTS
  t1 = t1
  t2 = t2
  c1 = c1
  c2 = c2
  Ticks <- TwoTicks
  NoTick = NoTick
  Conversations <- TwoConversations
  FirstOrder <- Two
  HeadEvery = 1
  IncrementalPages = 1
  MaxArrivals = 1
  MaxFaults = 1
  MaxPauses = 1
  MaxRequests = 1
INVARIANTS HistoryTypeOK BackfillIsComplete
PROPERTIES NothingLeftBehind EveryMessageArrives
CHECK_DEADLOCK FALSE
