SPECIFICATION HandoffSpec
CONSTANTS
  g1 = g1
  g2 = g2
  l1 = l1
  Earlier = Earlier
  NoJob = NoJob
  Jobs <- MCLocal
  Local <- MCLocal
  Preserving <- MCNone
  MaxSignals = 1
INVARIANTS
  InterruptedRunsCleanUp
CHECK_DEADLOCK FALSE
