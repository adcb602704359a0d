SPECIFICATION TrafficSpec
CONSTANTS
  Tags = {"a", "b"}
  NoTag = ""
  PortLists <- MCPortLists
  NoPorts = {}
  Networks <- MCNetworks
  MaxInbounds = 3
  Selectors <- MCSelectors
  Callers = {1, 2}
  MaxOutbounds = 2
  Dispatchers = {d1, d2}
  Workers = {w1, w2}
  MaxConcurrency = 1
  MaxConnection = 2
  MaxTries = 16
  NONE = NONE
SYMMETRY Symmetry
INVARIANTS
  ListenerIsListed
  OutboundsAreKnown
  WithinStrategy
  WorkersAreFound
  RoutedAsAsked
  NothingLostOrDoubled
CHECK_DEADLOCK FALSE
