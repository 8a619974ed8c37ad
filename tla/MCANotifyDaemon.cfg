\* Two clients whose commands overlap each other and the start threads
CONSTANTS
  d1 = d1
  d2 = d2
  home = home
  c1 = c1
  c2 = c2
  missing = missing
  Dirs <- MCDirs
  Paths <- MCPaths
  Tree <- MCTree
  HomePath = home
  Clients = {c1, c2}
  Starters = {s1, s2}
  First = s1
  Sends <- MCSends
  Nobody = nobody
SPECIFICATION Spec
INVARIANTS
  TypeOK
  StopLeavesLittle
CHECK_DEADLOCK FALSE
