CONSTANTS
  AvgWindow = 1
  GlobalSamples = 1
  MinSamples = 1
  Jids = {j1}
  Sessions = {s1}
  Requests = {h1, h2}
  None = None
  Rtts = {1}
  MaxProbes = 1
  MaxCrashes = 0
SPECIFICATION Spec
INVARIANTS
  DisabledTracksNothing
CHECK_DEADLOCK FALSE
