\* Two clients that come when they like and type two lines and one
CONSTANTS
  c1 = c1
  c2 = c2
  Clients = {c1, c2}
  Requests <- MCRequests
  Listings <- MCListings
  MaxLines <- MCMaxLines
  Splits = TRUE
  Chars = {"a", "b"}
  Digits <- MCDigits
SPECIFICATION Spec
INVARIANTS
  TypeOK
  InStep
  AnswersOwn
  ListsWhole
  OnlyListsBreak
PROPERTY
  EveryWaitEnds
CHECK_DEADLOCK FALSE
