CONSTANTS
  n1 = n1
  n2 = n2
  h = h
  q1 = q1
  q2 = q2
  p1 = p1
  p2 = p2
  Nodes = {n1, n2}
  Rank <- StatusRank
  Caches = {n2, h}
  Aliases = {"agent", "coder"}
  Runtime <- StatusRuntime
  Serves <- StatusServes
  Requests = {q1, q2}
  Client <- StatusClient
  Alias <- StatusAlias
  Installed <- StatusInstalled
  Latest = 1
  Gateways = {h}
  Olla = olla
  Durations <- StatusDurations
  CallTimeout = 8
  LookupTimeout = 5
  Patience = 30
  Targets <- StatusTargets
  MaxMishaps = 1
  MaxMoves = 1
  Clients <- EnvClients
  Commands = {p1, p2}
  MaxKeys = 2
  MaxEdits = 1
  MaxRuns = 2
  MaxCrashes = 1
  Lines <- UsageLines
  Samples <- UsageSamples
  ToolModels = {"tool"}
  KnownOnly = TRUE
  MaxLines = 3
SPECIFICATION ToolsSpec
INVARIANTS
  ToolsTypeOK
  DownNodesReported
  LongRequestReported
  ReadinessAgrees
  LastUserIsLatest
  LineLossNeedsOverlap
  HandedOutAccepted
  AccountsTrue
  NewestSampleShown
SYMMETRY Symmetry
CHECK_DEADLOCK FALSE
