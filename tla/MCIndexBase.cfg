\* Three runs of the program, three tables
CONSTANTS
  Procs = {p1, p2, p3}
  NbTables = 3
  NoProc = NoProc
SPECIFICATION Spec
INVARIANTS
  TypeOK
  Complete
PROPERTY
  MadeOnce
CHECK_DEADLOCK FALSE
