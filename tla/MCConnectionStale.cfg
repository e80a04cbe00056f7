CONSTANTS
  Requests = {r1}
  Loops = {g1}
  MaxClients = 2
  MaxChanges = 1
  Codes = 2
SPECIFICATION Spec
INVARIANTS
  OnlineIsConnected
CHECK_DEADLOCK FALSE
