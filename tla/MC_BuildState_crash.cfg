CONSTANTS
  a = a
  b = b
  Absent = Absent
  NoRecord = NoRecord
  None = None
  Unreadable = Unreadable
  Nodes <- MCNodes
  Deps <- MCDeps
  Versions = {1, 2}
  MaxBuilds = 3
SPECIFICATION Spec
INVARIANT
  RecordAlwaysReflectsOutputs
