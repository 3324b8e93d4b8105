SPECIFICATION Spec
CONSTANTS
  Tools = {}
  Retention = 1
  MaxTime = 3
  MaxKills = 1
  MaxLines <- LinesOfEach
  AccessLines = 3
  MetricsLines = 3
INVARIANTS
  TypeOK
  LossNeedsOverlap
