CONSTANTS
  watcher = watcher
  j1 = j1
  c1 = c1
  s1 = s1
  free = free
  Watcher = watcher
  Job = {j1}
  Cli = {}
  ScanWorker = {s1}
  Free = free
  MaxVersion = 3
  MaxRemovals = 1
  MaxLockErrors = 1
CHECK_DEADLOCK FALSE
SPECIFICATION FairSpec
PROPERTIES
  WorkEnds
  EventuallyFresh
