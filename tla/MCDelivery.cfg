SPECIFICATION DeliverySpec
CONSTANTS
  MaxNumber = 3
  Message <- MCMessage
  SendWindow = 2
  RecvWindow = 2
  Cap = 2
  k1 = k1
  k2 = k2
  c1 = c1
  c2 = c2
  t1 = t1
  t2 = t2
  d1 = d1
  d2 = d2
  w1 = w1
  Tasks = {k1, k2}
  Callers = {c1, c2}
  Timers = {t1, t2}
  NONE = NONE
  MaxSets = 2
  MaxUpdates = 1
INVARIANTS
  DeliveredInOrder
  AckIsKept
  OneTaskTillTheEnd
PROPERTIES
  IdleFirst
  EndsWell
CHECK_DEADLOCK FALSE
