\* Every dependency graph on three nodes, target lists of up to two names;
\* the bitset arithmetic at both ends of every word of a 65-node DAG.
CONSTANTS
  NodeCount = 3
  MaxTargets = 2
  BitsetNodeCount = 65
SPECIFICATION Spec
INVARIANTS
  TypeOK
  WorkingSetIsClosure
  RemapIsInverse
  VisitedBitsAreASet
PROPERTIES
  PrepareNodesReturns
  ImplementsSelectWorkingSet
\* DriverPrepareNodes returns: its final state has no successor.
CHECK_DEADLOCK FALSE
