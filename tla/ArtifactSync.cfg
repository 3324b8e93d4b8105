SPECIFICATION Spec
CONSTANTS
  n1 = n1
  n2 = n2
  m1 = m1
  m2 = m2
  Hub = hub
  Nodes = {n1, n2}
  NoNode = NoNode
  Models = {m1, m2}
  Assigned <- NodeModels
  Layouts <- SomeLayouts
  Operators = {o1, o2}
  Jobs <- AllJobs
  MaxRuns = 2
INVARIANTS
  TypeOK
  SyncDelivers
  RestartFindsModels
PROPERTIES
  AssignedSurvive
\* Every run has ended: no command is waiting for another.
CHECK_DEADLOCK FALSE
