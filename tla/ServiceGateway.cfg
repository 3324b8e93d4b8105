SPECIFICATION Spec
CONSTANTS
  Operators = {o1}
  Configs = {c1, c2}
  NoConfig = NoConfig
  Hosts = {"gateway"}
  MaxRuns = 1
  MaxMishaps = 0
INVARIANT RestartSucceeds
CHECK_DEADLOCK FALSE
