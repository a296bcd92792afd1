CONSTANTS
  h1 = h1
  h2 = h2
  s1 = s1
  Handler = {h1, h2}
  ScanWorker = {s1}
  Requested <- ExclusionKinds
  HasControl = FALSE
  MaxTaskId = 3
  MaxFiles = 1
  MaxActive = 2
  MaxRetained = 2
SPECIFICATION Spec
SYMMETRY HandlerSymmetry
INVARIANTS
  TypeOK
  AdmissionAccounted
  WorkerKeepsRecord
  ScanActivityBalanced
  EventProtocol
  StoppedIsQuiet
