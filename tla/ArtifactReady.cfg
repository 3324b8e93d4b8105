SPECIFICATION Spec
CONSTANTS
  n1 = n1
  n2 = n2
  m1 = m1
  m2 = m2
  Hub = hub
  Nodes = {n1, n2}
  NoNode = NoNode
  Models = {m1, m2}
  Assigned <- NodeModels
  Layouts <- CleanLayout
  Operators = {o1}
  Jobs <- StageThenDownload
  MaxRuns = 2
INVARIANT AlreadyReadyIsWhole
\* Every run has ended: no command is waiting for another.
CHECK_DEADLOCK FALSE
