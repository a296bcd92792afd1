CONSTANTS
  h1 = h1
  s1 = s1
  Handler = {h1}
  ScanWorker = {s1}
  Requested <- LivenessKinds
  HasControl = TRUE
  MaxTaskId = 2
  MaxFiles = 1
  MaxActive = 2
  MaxRetained = 2
SPECIFICATION FairSpec
PROPERTIES
  TasksTerminate
  StopCompletes
  TerminalIsFinal
