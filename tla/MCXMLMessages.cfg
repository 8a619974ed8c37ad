SPECIFICATION Spec
CONSTANTS
  Messages <- MCMessages
  Altered <- MCAltered
  Today <- MCToday
  IntMax = 7
  Lp64 = TRUE
  Garbage = {0, 6}
INVARIANTS
  TypeOK
  OwnTexts
  DtdRead
  SearchKept
  ResultsShown
CHECK_DEADLOCK FALSE
