CONSTANTS
  AvgWindow = 1
  GlobalSamples = 1
  MinSamples = 1
  Jids = {j1}
  Sessions = {s1, s2}
  Requests = {h1, h2}
  Probed = s1
  Prober = h1
  None = None
  Rtts = {10, 20}
  MaxProbes = 2
  MaxCrashes = 1
SPECIFICATION PartSpec
INVARIANTS
  LiveIsTracked
  AnsweredByOwnReceipt
  SamplesAreLast
PROPERTIES
  StoppedProbesEnd
CHECK_DEADLOCK FALSE
