CONSTANTS
  o1 = o1
  o2 = o2
  r1 = r1
  r2 = r2
  Absent = Absent
  Dirty = Dirty
  Outputs <- MCOutputs
  Resources <- MCResources
SPECIFICATION Spec
INVARIANT
  FailureIsReported

CHECK_DEADLOCK FALSE
