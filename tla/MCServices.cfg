CONSTANTS
  p1 = p1
  p2 = p2
  Publishers <- TwoPublishers
  MaxEvents <- ThreeEvents
  Requests = {r1, r2}
  Cap = 1
  DbRequests = {d1, d2}
  Values = {"a", "b"}
  MaxSeconds = 2
  MaxSaves = 1
  Writers = {w1, w2}
  Levels = {"DEBUG", "INFO"}
  RingSize = 2
  SinkSize = 2
  MaxEntries = 3
  MaxRestarts = 1
  Sims = {s1}
  Files <- GpxFiles
  Speeds = {1, 2, 3}
  MaxTime = 6
SPECIFICATION ServicesSpec
INVARIANTS
  TypesOK
  NoSendOnClosed
  StreamIsComplete
  EditHasBackup
  RestoreTakesEffect
  WritersOrder
  FollowsTheWay
PROPERTIES
  NobodyWaitsForReaders
  ExplorerReturns
  ShowsTheNewest
CHECK_DEADLOCK FALSE
