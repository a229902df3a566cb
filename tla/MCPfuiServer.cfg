SPECIFICATION ServerSpec
CONSTANTS
  Keys = {}
  NoKey = NoKey
  NoView = NoView
  Clients = {c1}
  Requests <- LldbRequests
  MaxTasks = 2
  MaxEmits = 1
  MaxBacklog = 2
INVARIANTS
  ServerTypeOK
  NobodyIsBehind
PROPERTIES
  ViewsMoveForward
  TabsCatchUp
CHECK_DEADLOCK FALSE
