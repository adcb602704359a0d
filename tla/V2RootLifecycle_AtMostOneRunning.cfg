SPECIFICATION Spec
CONSTANTS
  Callers = {c1}
  Ports = {p1, p2}
  UserPort = user
  MaxIds = 2
  NFeatures = 2
  InboundFeature = 1
  Ops = {"Start", "Stop"}
  NONE = NONE
INVARIANT AtMostOneRunning
