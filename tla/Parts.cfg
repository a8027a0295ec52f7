SPECIFICATION PartsSpec
CONSTANTS
  StatusJob = {"j1", "j2"}
  Before = "old"
  StatusPlans <- MCStatusPlans
  MaxStatusFaults = 1
  Others = {"a", "b", "c", "d", "e"}
  Newcomers = {"e"}
  Mine = "m"
  Shelves <- MCShelves
  PageSize = 2
  MaxPages = 2
  MaxAttempts = 2
  MaxBadAnswers = 2
  ReportGroups <- MCReports
  MaxFindings = 1
  Boards <- MCBoards
  Pipelines <- MCPipelines
  ContextPolicies <- MCContextPolicies
  ThreadsPerPage = 2
  ThreadPages = 2
  ListedPipelines = 2
  MaxForgeChanges = 1
  ContextPage = 1
  Commits <- MCCommits
  CommitRanges <- MCRanges
  MaxDrifts = 2
  CommitSteps = {"m", "d", "s", "r", "t", "w"}
  Setups <- MCSetups
  FetchDepth = 3
  MaxForgeMoves = 2
  MaxReadFaults = 1
  LastPhase = 3
  MaxMessages = 4
  Streams = {"text", "terminal", "pipe"}
  ModelEnds <- MCModelEnds
  LateLines = {"task", "end", "open"}
  MaxTraceRecords = 4
  SourceRoom = 6
  TraceRoom = 4
  MaxMishaps = 1
  Selection <- MCSelection
  AuditTexts = {"mixed", "token"}
  RefusedInputs = {"binary"}
  AuditScanners = {"s1", "s2"}
  FirstScanner = "s1"
  AuditSecrets = {"k1", "k2"}
  FirstSecrets = "k1"
  Rejections <- MCRejections
  AuditWorlds <- MCAuditWorlds
  MaxHits = 2
  SourceWorlds <- MCSourceWorlds
  ExcerptChars = 3
  ExcerptLines = 1
  SyntaxFiles = 1
  MaxHitches = 1
  MaxAnswers = 2
  Placements <- MCPlacements
  MaxRemapPaths = 2
  MaxGitFaults = 1
  InlineLimit = 8
  ChunkBudget = 10
  NoteLimit = 11
  Archives <- MCArchives
  Questions <- MCQuestions
  PageMax = 3
  WordsMax = 2
  RequestLimit = 4
  ResponseLimit = 10
  ResponseReserve = 2
  MaxMiscounts = 1
  WireWorlds <- MCWireWorlds
  RelayBuffer = 3
  WriteChunk = 2
  PipeRoom = 2
  ReadChunk = 2
  FrameLimit = 3
  WireBytes = 8
  WireRequests = 2
  Peers = {"stdio", "https"}
  NotificationLimit = 2
  MaxPosts = 2
  MaxChunks = 3
  ReleaseRun = {1, 2}
  Build = {"b1", "b2"}
  Tracked <- MCTracked
  RequiredChecks = {"ci"}
  ReleaseNumber = {1, 2, 3}
  ReleasesPerPage = 1
  ReleasePages = 2
  ReleaseWorlds <- MCReleaseWorlds
  RunClass = {"ordinary"}
  LogDays <- MCLogDays
  RunDays <- MCRunDays
  ArtifactDays = 2
  GraceDays = 1
  PerPage = 2
  PageLimit = 3
  CleanupWorlds <- MCCleanupWorlds
  MaxCleanups = 1
  LastMoment = 6
INVARIANTS
  StatusNotesSafe
  GitLabClientSafe
  ReceiptContractSafe
  ForgeContextSafe
  EvidenceStoreSafe
  GitlinkReviewSafe
  RevisionCaptureSafe
  ObserversSafe
  DlpAuditSafe
  SourceTextSafe
  EvidenceQueriesSafe
  TransportSafe
  MaintenanceSafe
CHECK_DEADLOCK FALSE
