SPECIFICATION ComponentsSpec
CONSTANTS
  N = 4
  Statements = 1
  Literals = {2}
  Targets <- MCTargets
  Wrappings <- MCWrappings
  Options <- MCOptions
  Pids = {1, 2}
  MaxChildren = 3
  MaxRecords = 2
  MaxPrints = 1
  CrashNumbers = {1, 2, 3, 4}
  Tracked = {1, 2, 3}
  InTrack = {1, 2}
  Jobs = {j1, j2}
  Specs = {s1}
  Files = 2
  MaxStops = 2
  Commits = 4
  NoSpec = NoSpec
  Timeout = 2
  MaxEvents = 4
  Sessions <- MCSessions
  Builders = {b1, b2}
  Packages = {"numpy", "pandas"}
  Deps <- MCDeps
  Configured = {"pandas"}
  MaxBuilds = 2
  MaxTroubles = 1
  MaxRuns = 1
  Grid = 2
  Full = 3
  MaxLines = 3
  Commands = {c1, c2}
  Artifacts = {a1, a2, a3}
  Analyzed = {a1, a2}
  Names = {"description.txt", "meta.json"}
  Reserved = {"meta.json"}
  Concurrency = 1
  MaxAsked = 2
  Original = original
  Shells = {p1, p2}
  Tabs = {t1, t2}
  Settings = {"harness"}
  Unknown = "unknown"
  Seeds = {"f1", "f2"}
  MaxOrders = 3
  Workers = {w1, w2}
  MaxCrashes = 3
  Windows = {v1, v2}
  LegacyProjects = {"a"}
  Instances = {1, 2}
  MaxEntries = 2
  MaxChanges = 3
  MaxCasts = 2
  Codes = {0, 1, 2}
INVARIANTS
  ComponentsTypeOK
  ReproducerCrashes
  CachedBuildIsWhole
  ReportsTheFirstBadCommit
  TimingsAreKept
  ComponentsKeepPromises
  FuzzedByOne
  ExitCodeTellsTruth
PROPERTIES
  ReadersTellTruth
  SuccessMeansInstalled
  AnswersAreKept
  OnlyEditorsBreakConfig
  WaitsEnd
CHECK_DEADLOCK FALSE
