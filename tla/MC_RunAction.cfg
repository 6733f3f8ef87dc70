CONSTANTS
  o1 = o1
  o2 = o2
  r1 = r1
  r2 = r2
  Absent = Absent
  Dirty = Dirty
  Outputs <- MCOutputs
  Resources <- MCResources
SPECIFICATION Spec
INVARIANTS
  TypeOK
  SuccessMeansOutputsFresh
  NoPartialOutputAfterFailure
  StatCacheCoherentOnReturn
  RerunFlaggedForDrift

CHECK_DEADLOCK FALSE
