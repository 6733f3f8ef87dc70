CONSTANTS
  tundra_lua = tundra_lua
  src_glob = src_glob
  SigList <- MCSigList
  Values = {1, 2}
  MaxEdits = 2
  NoDag = NoDag
  Unread = Unread
  IncFiles = {1, 2, 3}
  IncScanners = {1}
  MaxDagNodes = 3
SPECIFICATION Spec
INVARIANTS
  TypeOK
  DagMatchesDisk
  IncludesReportFlagsDirect
CHECK_DEADLOCK FALSE
