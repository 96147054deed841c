SPECIFICATION PartsSpec
CONSTANTS
  Parts = {"batches", "scan", "rounds", "build", "gcov", "report", "badcases", "sandbox", "dashboard",
           "call"}
  Diffs <- MCDiffs
  Indexes <- MCIndexes
  EndsWith <- MCEndsWith
  NoHint = NoHint
  Names = {"main", "a", "b", "t", "N::a"}
  Bare <- MCBare
  Entries = {"main"}
  MaxDepth = 1
  BatchSize = 2
  Files = {"f", "g"}
  CallGraphs <- MCCallGraphs
  Tests = {"i1", "i2", "old"}
  OldTests = {"old"}
  Issues = {"i1", "i2"}
  MaxRuns = 2
  SourceFiles = {"f", "g"}
  Tolerance = 1
  MaxClock = 5
  Objects = {"o1", "o2", "ut"}
  UnitTests = {"ut"}
  Items = {"item"}
  Counts = {0, 1, 2}
  BranchLists = {"one", "both"}
  Programs <- MCPrograms
  Scopes <- MCScopes
  HostName <- MCHostName
  OtherHits <- MCOtherHits
  Mergers = {"m1", "m2", "m3"}
  Titles = {"known", "t1", "t2"}
  Malformed = "malformed"
  BaseTitle = "known"
  MaxCandidates = 2
  Loops = {"loop"}
  Shims = {"shim"}
  Runtimes <- MCRuntimes
  TTL = 2
  MaxTime = 2
  MaxSaves = 3
  Attempts = 3
  RetryLimits = {1, 2, 3}
  HasHook = TRUE
  BaseDelay = 6
  MaxDelay = 10
  TotalTimeout = 15
  Tokens = {0, 2}
  Pressure = 2
INVARIANTS
  ChainsReal
  ExpandedOnce
  UnreachableIsReal
  BatchesAreTheChange
  VerdictsFollowExecution
  CoverageOfThisRound
  MeasuresTheSource
  MergeIsMaximum
  ThresholdHonest
  ClashOnlyByOverlap
  ListingTrue
  CallTypeOK
  AttemptsBounded
  WaitBounded
  GivesUpForCause
PROPERTY
  FlatMeansFlat
  AnswersRecent
  WaitsGrow
