CONSTANTS
  watcher = watcher
  j1 = j1
  c1 = c1
  s1 = s1
  free = free
  Watcher = watcher
  Job = {j1}
  Cli = {}
  ScanWorker = {}
  Free = free
  MaxVersion = 2
  MaxRemovals = 2
  MaxLockErrors = 0
CHECK_DEADLOCK FALSE
SPECIFICATION FairSpec
PROPERTY RemovalReachesReaders
