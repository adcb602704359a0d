SPECIFICATION TransportsSpec
CONSTANTS
  WireCap = 1
  Updaters = {"ping"}
  MaxConns = 1
PROPERTIES
  RenewalIsShownByAll
CHECK_DEADLOCK FALSE
