SPECIFICATION FairSpec
CONSTANTS
  Timeout = 4
  MaxCancels = 1
INVARIANTS
  TypeOK
  LeakNeedsTwoInterrupts
  CleansUp
PROPERTIES
  AttemptEnds
CHECK_DEADLOCK FALSE
