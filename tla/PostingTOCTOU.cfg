SPECIFICATION Spec
CONSTANTS
  r1 = r1
  r2 = r2
  i1 = i1
  i2 = i2
  i3 = i3
  Old = Old
  Run <- Job1
  Inline <- Inline1
  OldItems <- OldPlainReview
  FoundSets <- OneFound
  Reactions <- People
  Configs <- CurrentConfigs
  Cap = 1
  MaxFaults = 0
  MaxMoves = 0
PROPERTIES
  HumanConversationKept
CHECK_DEADLOCK FALSE
