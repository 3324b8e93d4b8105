SPECIFICATION Spec
CONSTANTS
  Tools = {}
  Retention = 1
  MaxTime = 2
  MaxKills = 0
  MaxLines <- LinesOfEach
  AccessLines = 2
  MetricsLines = 2
INVARIANT FreshKept
