CONSTANTS
  watcher = watcher
  j1 = j1
  c1 = c1
  s1 = s1
  free = free
  Watcher = watcher
  Job = {}
  Cli = {}
  ScanWorker = {s1}
  Free = free
  MaxVersion = 2
  MaxRemovals = 1
  MaxLockErrors = 0
CHECK_DEADLOCK FALSE
SPECIFICATION FairSpec
PROPERTY RemovalReachesReaders
