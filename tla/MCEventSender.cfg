\* Every order of the loop, the threads of three events and the index base
CONSTANTS
  Wds = {1}
  MaxEvents = 3
SPECIFICATION Spec
INVARIANTS
  TypeOK
  NoneRepeated
  Conserved
PROPERTY
  EveryEventTold
CHECK_DEADLOCK FALSE
