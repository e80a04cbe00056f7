CONSTANTS
  Requests = {r1}
  Loops = {g1, g2}
  MaxClients = 2
  MaxChanges = 2
  Codes = 1
SPECIFICATION FairSpec
INVARIANTS
  SettledStatus
  EndedChannelShowsNothing
  OneReconnecter
PROPERTIES
  LoopEndsWhenUp
CHECK_DEADLOCK FALSE
