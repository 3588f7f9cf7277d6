SPECIFICATION Spec
CONSTANTS
  a = a
  b = b
  h = h
  Ips = {a, b}
  Scans <- MCScans
  Lists <- MCLists
  Passes <- MCPasses
  Claims <- MCClaims
  MaxRequests = 4
INVARIANTS
  TypeOK
  HistoryTellsInventory
  RetryIsHarmless
  NewestReplaceWins
  MergeOpensNothing
  ExportRestores
  MergeIsMinimalCover
CHECK_DEADLOCK FALSE
