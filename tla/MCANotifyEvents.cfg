\* One listener, one consumer: the daemon before any restart
CONSTANTS
  Listeners = {l1}
  Consumers = {c1}
  Wds = {1, 2}
  Slots = 2
  KernelMax = 2
  MaxEvents = 4
  NoThread = NoThread
SPECIFICATION Spec
INVARIANTS
  TypeOK
  PeekedIsHead
PROPERTIES
  ImplementsChannel
  EventuallyTaken
CHECK_DEADLOCK FALSE
