CONSTANTS
  Clients = {c1, c2}
  Addresses = {a1, a2}
  Per = 1
  GCThreshold = 1
  LastTick = 3
  NoWindow = NoWindow
  NoClient = NoClient
SPECIFICATION Spec
PROPERTY EveryRequestAnswered
CHECK_DEADLOCK FALSE
