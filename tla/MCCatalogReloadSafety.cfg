CONSTANTS
  watcher = watcher
  j1 = j1
  c1 = c1
  s1 = s1
  free = free
  Watcher = watcher
  Job = {j1}
  Cli = {c1}
  ScanWorker = {s1}
  Free = free
  MaxVersion = 3
  MaxRemovals = 2
  MaxLockErrors = 1
CHECK_DEADLOCK FALSE
SPECIFICATION Spec
INVARIANTS
  TypeOK
  SnapshotStaysPrivate
  BelievedCurrent
  LocksInUse
PROPERTIES
  NoRegression
  JobSeesItsSave
