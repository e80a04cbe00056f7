CONSTANTS
  Ids = {m1}
  Requests = {q}
  Limit = 1
  Day = 2
  MaxTime = 2
  MaxTroubles = 1
SPECIFICATION Spec
INVARIANTS
  DueInTime
CHECK_DEADLOCK FALSE
