SPECIFICATION SessionsSpec
CONSTANTS
  MaxSessions = 2
  MaxChunks = 1
  w1 = w1
  w2 = w2
  Workers = {w1, w2}
  MaxNews = 2
  NONE = NONE
INVARIANTS
  RelayedWhole
  NoCrossTalk
  FlowsHaveOneOwner
PROPERTIES
  SessionsEnd
CHECK_DEADLOCK FALSE
