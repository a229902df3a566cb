SPECIFICATION DashSpec
CONSTANTS
  MaxSockets = 2
  NoSocket = NoSocket
  NoProject = NoProject
  NoDetail = NoDetail
  p1 = p1
  p2 = p2
  Projects = {p1, p2}
  Hashes = {h1, h2}
  TaskKeys <- MCTaskKeys
  MaxPending = 2
  MaxActions <- MCActions
  MaxFaults <- MCFaults
INVARIANTS
  ConnectionsConserved
  ShownIsSelected
  SpinnersMeanWork
PROPERTIES
  DetailFollowsSelection
  TabReconnects
CHECK_DEADLOCK FALSE
