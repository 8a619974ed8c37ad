\* Two start threads add at once; path 2 is a symbolic link to the directory of path 1
CONSTANTS
  w1 = w1
  w2 = w2
  w3 = w3
  w4 = w4
  a = a
  b = b
  c = c
  Watches <- MCFewWatches
  Paths <- MCFewPaths
  Dirs <- MCFewDirs
  PathOf <- MCFewPathOf
  DirOf <- MCAliased
  Covers <- MCFewCovers
  Enabled = {w1, w2, w4}
  Adders = {t1, t2}
  MaxWd = 3
  NoWatch = NoWatch
  NoDir = NoDir
SPECIFICATION Spec
PROPERTY
  ForgetsOnlyDeadWatches
