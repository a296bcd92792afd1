CONSTANTS
  h1 = h1
  s1 = s1
  s2 = s2
  Handler = {h1}
  ScanWorker = {s1, s2}
  Requested <- AdmissionKinds
  HasControl = FALSE
  MaxTaskId = 3
  MaxFiles = 0
  MaxActive = 2
  MaxRetained = 2
SPECIFICATION Spec
SYMMETRY ScanSymmetry
PROPERTIES
  AdmissionSpec
