SPECIFICATION StoreSpec
CONSTANTS
  Cores = {core}
  Crashes = {crash}
  PidOf <- ModelPids
  Tracked = {core}
  OomKilled <- ModelKilled
  Syncs = {s1}
  Analyses = {j1}
  NoArtifact = NoArtifact
  MaxLoad = 2
  MaxFailures = 1
PROPERTIES
  SyncedSourcesAreListed
CHECK_DEADLOCK FALSE
