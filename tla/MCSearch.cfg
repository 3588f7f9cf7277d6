SPECIFICATION SearchSpec
CONSTANTS
  a = a
  b = b
  c = c
  h = h
  Ips = {a, b, c}
  Scans <- MCScans
  Lists <- NoLists
  Passes <- NoPasses
  Claims <- NoClaims
  MaxRequests = 3
  InetRank <- Inet
  TextRank <- AsText
  Queries <- MCQueries
  ChunkSize = 2
INVARIANTS
  NothingIsMissed
  NothingIsRepeated
  AnswerShowsItsReason
  FacetsAgreeWithSearch
CHECK_DEADLOCK FALSE
