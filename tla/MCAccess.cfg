SPECIFICATION Spec
CONSTANTS
  c1 = c1
  Names = {"admin", "worker", "user"}
  Accounts <- MCAccounts
  Configs <- MCConfigs
  Generated <- MCGenerated
  Lifetimes = {0, 1}
  MaxUsers = 3
  MaxProjects = 1
  MaxOps = 3
  MaxTime = 2
  TTL = 2
  Clients = {c1}
  Keys <- MCKeys
INVARIANTS
  TypeOK
  AnswersAreRecent
PROPERTIES
  SeedingTakesEffect
CHECK_DEADLOCK FALSE
