SPECIFICATION FairSpec
CONSTANTS
  a = a
  b = b
  h = h
  s1 = s1
  s2 = s2
  s3 = s3
  Ips = {a, b}
  Hostnames = {h}
  PortKeys <- MCPortKeys
  Texts <- MCTexts
  Sessions = {s1, s2}
  Imports <- BatchImports
  Deletes <- SomeDeletes
  MaxTx = 3
  Limit = 1
PROPERTIES
  ImplementsAtomicImports
  EveryEventDelivered
  EveryTransactionEnds
CHECK_DEADLOCK FALSE
