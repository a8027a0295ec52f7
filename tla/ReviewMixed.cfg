SPECIFICATION FairHandoffSpec
CONSTANTS
  g1 = g1
  g2 = g2
  l1 = l1
  Earlier = Earlier
  NoJob = NoJob
  Jobs <- MCMixed
  Local <- MCLocal
  Preserving <- MCMixed
  MaxSignals = 1
INVARIANTS
  ResultIsTrue
PROPERTIES
  CheckoutComesFree
CHECK_DEADLOCK FALSE
