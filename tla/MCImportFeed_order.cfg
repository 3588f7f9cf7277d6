SPECIFICATION Spec
CONSTANTS
  a = a
  b = b
  h = h
  s1 = s1
  s2 = s2
  s3 = s3
  Ips = {a, b}
  Hostnames = {h}
  PortKeys <- MCPortKeys
  Texts <- MCTexts
  Sessions = {s1, s2, s3}
  Imports <- BatchImports
  Deletes <- NoDeletes
  MaxTx = 4
  Limit = 2
SYMMETRY Symmetry
INVARIANTS
  FeedReplaysInventory
CHECK_DEADLOCK FALSE
