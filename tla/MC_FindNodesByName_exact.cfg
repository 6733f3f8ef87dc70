CONSTANTS
  Chars <- MCChars
  Lower <- MCLower
  NodeOutputs <- MCNodeOutputs
  TableSize = 2
  NamedLen = 2
  MaxNameLen = 3
  MaxTargets = 2
SPECIFICATION Spec
INVARIANT ExactMatchPreferred
CHECK_DEADLOCK FALSE
