SPECIFICATION StoreSpec
CONSTANTS
  Cores = {core}
  Crashes = {crash}
  PidOf <- ModelPids
  Tracked = {core}
  OomKilled <- ModelKilled
  Syncs = {s1, s2}
  Analyses = {j1, j2}
  NoArtifact = NoArtifact
  MaxLoad = 2
  MaxFailures = 1
INVARIANTS
  HalfMadeOnlyAfterFailure
  MixedOnlyWhenClassified
  LinksAgree
  MarkedCoresAreComplete
SYMMETRY Symmetry
CHECK_DEADLOCK FALSE
