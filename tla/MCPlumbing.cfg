SPECIFICATION PlumbingSpec
CONSTANTS
  Readers = {r1}
  Writers = {w1, w2}
  MaxWrites = 2
  Limit = 1
  Tasks = {k1}
  Callers = {c1, c2}
  Timers = {t1, t2}
  NONE = NONE
INVARIANTS
  NoLostWakeup
  RunningIsAlive
  MessagesInOrder
PROPERTIES
  IsFifo
  DeliversFifo
  TasksGoOn
CHECK_DEADLOCK FALSE
