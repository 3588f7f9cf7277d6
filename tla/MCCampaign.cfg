SPECIFICATION FairSpec
CONSTANTS
  a = a
  b = b
  Ips = {a, b}
  Inventories <- Known
  Bodies <- UpdateAndInsert
  MaxScans = 2
  ChunkSize = 1
  Window = 1
  Cancels <- MCCancels
  MaxCancels = 1
  MaxDeletes = 1
  MaxFaults = 1
INVARIANTS
  TypeOK
  KnownIsNotRescanned
  KnownWasReported
  OnlyAskedWorkStops
  CompletedReportIsFinal
PROPERTIES
  SignalledBatchStops
CHECK_DEADLOCK FALSE
