SPECIFICATION Spec
CONSTANTS
  Messages <- MCMessages
  Altered <- MCAltered
  Today <- MCToday
  IntMax = 7
  Lp64 = TRUE
  Garbage = {0, 6}
INVARIANT EventsUnderstood
CHECK_DEADLOCK FALSE
