SPECIFICATION Spec
CONSTANTS
  Tools = {"collect-node-metrics"}
  Retention = 1
  MaxTime = 2
  MaxKills = 1
  MaxLines <- LinesOfEach
  AccessLines = 3
  MetricsLines = 1
INVARIANT InOrder
PROPERTY ExpiredGoes
