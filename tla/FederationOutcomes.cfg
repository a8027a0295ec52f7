SPECIFICATION FairSpec
CONSTANTS
  c1 = c1
  c2 = c2
  c3 = c3
  t1 = t1
  a1 = a1
  a2 = a2
  a3 = a3
  NoTask = NoTask
  Call <- ThreeCalls
  Tool <- OneTool
  Argument <- OneArgument
  ArgumentErrors <- Rejections
  ResultErrors <- Failures
  Sizes <- OneSize
  KeyBytes = 0
  Concurrency = 1
  MaxCalls = 2
  CacheEntries = 1
  CacheBytes = 1
  DeliveryBytes = 2
INVARIANTS
  ReturnedReceiptIsWhole
PROPERTIES
  EveryCallAnswered
  ThreadEnds
CHECK_DEADLOCK FALSE
