SPECIFICATION FairSpec
CONSTANTS
  Callers = {c1, c2}
  Ports = {p1}
  UserPort = user
  MaxIds = 2
  NFeatures = 1
  InboundFeature = 1
  Ops = {"Start", "Stop", "GetTotalTraffics", "GetRealtimeSpeed", "TestLatency"}
  NONE = NONE
INVARIANTS
  StatusTracksServer
  ServerIsOpen
  BaselineOfCurrentServer
PROPERTY
  CallReturns
