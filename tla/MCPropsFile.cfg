\* Three daemons, two of them with the process number of each other, and two clients
CONSTANTS
  a = a
  b = b
  c = c
  Daemons = {a, b, c}
  Controls = {k1, k2}
  Pid <- MCPid
  Ports = {5000, 5001}
  IndexPorts = {40000, 65535}
SPECIFICATION Spec
INVARIANTS
  TypeOK
  NoStaleFile
  OneDaemon
  FileNamesDaemon
PROPERTY
  RefusedForADaemon
CHECK_DEADLOCK FALSE
