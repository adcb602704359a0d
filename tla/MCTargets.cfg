SPECIFICATION TargetsSpec
INVARIANTS
  SniffedRight
  AnswersAreRight
PROPERTIES
  OldIsForgotten
CHECK_DEADLOCK FALSE
