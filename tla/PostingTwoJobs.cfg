SPECIFICATION Spec
SYMMETRY JobSymmetry
CONSTANTS
  r1 = r1
  r2 = r2
  i1 = i1
  i2 = i2
  i3 = i3
  Old = Old
  Run <- Job2
  Inline <- Inline1
  OldItems <- OldSummary
  FoundSets <- OneFound
  Reactions <- Nobody
  Configs <- OverlapConfigs
  Cap = 1
  MaxFaults = 1
  MaxMoves = 0
INVARIANTS
  ReviewStands
  StandingInv
PROPERTIES
  ReplacesReviews
CHECK_DEADLOCK FALSE
