SPECIFICATION Spec
CONSTANTS
  g = g
  n1 = n1
  n2 = n2
  Nodes = {g, n1, n2}
  Roles <- Compact
  Rank <- Places
  Local = {g}
  Loopback = {n1}
  Default = 1
  Unkeyed = {2}
  Workers = 1
  MaxRelease = 2
  MaxRev = 2
  MaxRuns = 2
  MaxMishaps = 2
INVARIANTS
  TypeOK
  CompleteServes
  RerunRecovers
  EveryNodeTried
PROPERTIES
  OnlyForward
  StaysRunnable
\* Every command allowed has been run and what launchd keeps alive is up.
CHECK_DEADLOCK FALSE
