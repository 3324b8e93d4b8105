SPECIFICATION Spec
CONSTANTS
  c1 = c1
  m1 = m1
  m2 = m2
  NoClient = NoClient
  NoModel = NoModel
  NoId = NoId
  Requests = {r1, r2}
  Arrivals <- ChatArrivals
  Clients = {c1}
  Models = {m1, m2}
  Aliases = {m1}
  CallerIds = {}
  UpstreamStatus = {200}
  Inspecting = TRUE
  CaptureLimit = 2
  ChunkSizes = {1, 3}
  MaxBody = 4
  Faults = {"read", "inspector", "log", "close", "socket"}
INVARIANTS
  OneRecordAtMost
  CompletedIsRecorded
  RecordAgreesWithWire
  StreamsUnlisted
  TypeOK
  CaptureFaithful
  StreamFailureRecorded
\* Every connection has been served: the server waits for the next one.
CHECK_DEADLOCK FALSE
