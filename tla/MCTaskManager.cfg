SPECIFICATION FairSpec
CONSTANTS
  Keys <- ModelKeys
  NoKey = NoKey
  Requests <- ModelRequests
  MaxTasks = 2
  MaxEmits = 1
INVARIANTS
  KeyExclusive
  StatusTellsOutcome
  ExecutingIsListed
  WaiterToldTruth
  ClosedMeansReaped
PROPERTIES
  FinishedIsFrozen
  FinishedIsForgotten
  CloseReturns
  JobsSpec
CHECK_DEADLOCK FALSE
