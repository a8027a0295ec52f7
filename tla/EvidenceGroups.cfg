SPECIFICATION FairSpec
CONSTANTS
  s1 = s1
  s2 = s2
  d1 = d1
  d2 = d2
  Action <- TwoActions
  None = None
  Server <- TwoServers
  Diagram <- TwoDiagrams
  Sizes <- OneSize
  MaxSubmissions = 2
  MaxBytes = 4
  MaxRequests = 3
INVARIANTS
  CountsExact
  VerifiedEvidenceWasServed
  DiagramIsUnanimous
PROPERTIES
  RequestsEnd
CHECK_DEADLOCK FALSE
