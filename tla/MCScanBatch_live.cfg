SPECIFICATION FairSpec
CONSTANTS
  a = a
  b = b
  h = h
  Targets = {a, b}
  Specs <- MCSpecs
  ShardsAsked = 2
  Mode = "insert"
  Truth <- MCTruth
  Names <- MCNames
  Stores <- MixedStored
  Window = 1
  MaxAttempts <- Once
  MaxSends = 2
INVARIANTS
  TypeOK
PROPERTIES
  ImplementsOutline
  BatchEnds
  CancelStopsEverything
CHECK_DEADLOCK FALSE
