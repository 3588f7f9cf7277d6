SPECIFICATION Spec
CONSTANTS
  Requests <- MCRequests
  Private <- MCPrivate
  Records <- MCRecords
  MaxPort = 4
  MaxSize = 4
  Limit = 1
  Retries = 2
INVARIANTS
  TargetsAccounted
  TasksMakeUpRequest
PROPERTIES
  RequestEnds
CHECK_DEADLOCK FALSE
