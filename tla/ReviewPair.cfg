SPECIFICATION HandoffSpec
CONSTANTS
  g1 = g1
  g2 = g2
  l1 = l1
  Earlier = Earlier
  NoJob = NoJob
  Jobs <- MCPair
  Local <- MCNone
  Preserving <- MCNone
  MaxSignals = 1
INVARIANTS
  ModelSeesOwnInputs
  EndsClean
  PostsOwnRun
CHECK_DEADLOCK FALSE
