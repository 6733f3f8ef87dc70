CONSTANTS
  Chars <- MCChars
  Lower <- MCLower
  NodeOutputs <- MCNodeOutputs
  TableSize = 2
  NamedLen = 2
  MaxNameLen = 3
  MaxTargets = 2
SPECIFICATION Spec
INVARIANTS
  TypeOK
  LevenshteinMatchesReference
  ResolutionFollowsPrecedence
  NextPowerOfTwoBounded
  CountTrailingZeroesExact
CHECK_DEADLOCK FALSE
