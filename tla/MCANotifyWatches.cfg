\* One start thread adds three directories, none reached by two paths; the third watch
\* is constructed disabled
CONSTANTS
  w1 = w1
  w2 = w2
  w3 = w3
  w4 = w4
  a = a
  b = b
  c = c
  Watches <- MCWatches
  Paths <- MCPaths
  Dirs <- MCDirs
  PathOf <- MCPathOf
  DirOf <- MCOwnDirs
  Covers <- MCCovers
  Enabled = {w1, w2}
  Adders = {t1}
  MaxWd = 3
  NoWatch = NoWatch
  NoDir = NoDir
SPECIFICATION Spec
INVARIANTS
  TypeOK
  LiveWatchRemovable
  ListedIsWatched
  RemovalStopsAtDead
