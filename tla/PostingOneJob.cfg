SPECIFICATION Spec
CONSTANTS
  r1 = r1
  r2 = r2
  i1 = i1
  i2 = i2
  i3 = i3
  Old = Old
  Run <- Job1
  Inline <- Inline3
  OldItems <- OldShort
  FoundSets <- AllFound
  Reactions <- People
  Configs <- AllConfigs
  Cap = 2
  MaxFaults = 1
  MaxMoves = 1
INVARIANTS
  AtMostOneLateWrite
  FindingsShownOnce
  OutcomeIsTrue
PROPERTIES
  HumanOwnedSurvives
  AttemptedDraftRetained
  ApprovalAfterPublication
CHECK_DEADLOCK FALSE
