SPECIFICATION ReproducersSpec
CONSTANTS
  Pids = {1}
  MaxChildren = 0
  MaxRecords = 0
  MaxPrints = 0
  CrashNumbers = {1, 2, 3}
  Tracked = {1, 2, 3}
  InTrack = {1, 2, 3}
INVARIANT
  EveryArtifactHasScript
CHECK_DEADLOCK FALSE
