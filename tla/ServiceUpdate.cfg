SPECIFICATION Spec
CONSTANTS
  Operators = {o1, o2}
  Configs = {c1, c2}
  NoConfig = NoConfig
  Hosts = {"node", "gateway"}
  MaxRuns = 2
  MaxMishaps = 1
INVARIANTS
  TypeOK
  RestartServes
  InstalledIsLoaded
  RetryRecovers
PROPERTIES
  EventuallyServes
\* Every run has ended, and what launchd keeps alive is up.
CHECK_DEADLOCK FALSE
