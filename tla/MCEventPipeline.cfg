CONSTANTS
  Outbound = {o1}
  Worker = Worker
  None = None
  Delivered = {"media", "revoke", "receipt", "vote", "command", "ignored", "notice"}
  QueueCap = 1
  LatencyCap = 1
  MaxArrivals = 2
  MaxCrashes = 1
SPECIFICATION FairSpec
INVARIANTS
  TypeOK
  EachArrivalOnce
  RecoveryLookupIsFinal
  LatencyKnowsEarlierRows
PROPERTIES
  ImplementsEventLog
  QueuedIsHandled
  SavedIsPublished
CHECK_DEADLOCK FALSE
