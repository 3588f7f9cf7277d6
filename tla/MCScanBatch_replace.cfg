SPECIFICATION Spec
CONSTANTS
  a = a
  b = b
  h = h
  Targets = {a}
  Specs <- MCSpecs
  ShardsAsked = 2
  Mode = "replace"
  Truth <- MCTruth
  Names <- MCNames
  Stores <- OutdatedStored
  Window = 1
  MaxAttempts <- RetryUpload
  MaxSends = 1
INVARIANTS
  InventoryIsOneImport
  ProgressIsHonest
CHECK_DEADLOCK FALSE
