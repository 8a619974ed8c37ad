\* Two clients whose commands overlap each other and the start threads
CONSTANTS
  d1 = d1
  d2 = d2
  home = home
  missing = missing
  c1 = c1
  c2 = c2
  Dirs = {d1}
  Paths <- MCHome
  Tree <- MCOneDir
  HomePath = home
  Clients = {c1, c2}
  Starters = {s1, s2}
  First = s1
  Sends <- MCSendsTwo
  Nobody = nobody
SPECIFICATION Spec
PROPERTIES
  KillEnds
  RunLoopsEnd
CHECK_DEADLOCK FALSE
