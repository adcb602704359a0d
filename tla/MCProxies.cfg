SPECIFICATION ProxiesSpec
CONSTANTS
  Fallbacks <- MCFallbacks
  Names <- MCNames
  Alpns = {"", "h2", "h1"}
  Requests <- MCRequests
  MinLength = 18
  People <- MCPeople
  Callers = {1, 2}
  MaxUsers = 3
INVARIANTS
  StreamsIntact
  RequestsUnderstood
  RightDoor
PROPERTIES
  TicketsKept
CHECK_DEADLOCK FALSE
