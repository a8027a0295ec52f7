SPECIFICATION Spec
SYMMETRY Symmetric
CONSTANTS
  c1 = c1
  c2 = c2
  c3 = c3
  t1 = t1
  a1 = a1
  a2 = a2
  a3 = a3
  NoTask = NoTask
  Call <- ThreeCalls
  Tool <- OneTool
  Argument <- ThreeArguments
  ArgumentErrors <- NoErrors
  ResultErrors <- FailureOnly
  Sizes <- TwoSizes
  KeyBytes = 1
  Concurrency = 2
  MaxCalls = 3
  CacheEntries = 2
  CacheBytes = 4
  DeliveryBytes = 5
INVARIANTS
  FederationInv
  SingleFlight
  ForbiddenCoversSeen
  CacheExact
PROPERTIES
  SharedRequestSurvives
CHECK_DEADLOCK FALSE
