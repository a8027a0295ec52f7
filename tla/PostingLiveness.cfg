SPECIFICATION FairSpec
CONSTANTS
  r1 = r1
  r2 = r2
  i1 = i1
  i2 = i2
  i3 = i3
  Old = Old
  Run <- Job1
  Inline <- Inline1
  OldItems <- OldPlainReview
  FoundSets <- OneFound
  Reactions <- People
  Configs <- AllConfigs
  Cap = 1
  MaxFaults = 2
  MaxMoves = 1
PROPERTIES
  EveryJobEnds
CHECK_DEADLOCK FALSE
