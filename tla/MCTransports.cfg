SPECIFICATION TransportsSpec
CONSTANTS
  WireCap = 1
  Updaters = {"ping"}
  MaxConns = 1
INVARIANTS
  PeerHasClosed
  SharedAsLimited
  KeysInOrder
PROPERTIES
  NothingIsLeft
CHECK_DEADLOCK FALSE
