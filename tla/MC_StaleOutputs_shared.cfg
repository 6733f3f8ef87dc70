CONSTANTS
  A = A
  B = B
  g1 = g1
  g2 = g2
  g3 = g3
  NoRecord = NoRecord
  None = None
  Variants <- MCVariants
  Guids <- MCGuids
  Outputs <- MCSharedOutputs
  Dags <- MCDags
  Symlinks <- MCSymlinks
  MaxBuilds = 4
  MergeDagSize = 3
  MaxGuid = 4
SPECIFICATION Spec
INVARIANT
  SuccessRecordHasOutputs
\* After MaxBuilds invocations the model stops.
CHECK_DEADLOCK FALSE
