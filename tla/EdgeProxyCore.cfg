SPECIFICATION Spec
CONSTANTS
  c1 = c1
  m1 = m1
  m2 = m2
  NoClient = NoClient
  NoModel = NoModel
  NoId = NoId
  Requests = {r1, r2}
  Arrivals <- AllArrivals
  Clients = {c1}
  Models = {m1, m2}
  Aliases = {m1}
  CallerIds = {i1}
  UpstreamStatus = {200, 503}
  Inspecting = TRUE
  CaptureLimit = 1
  ChunkSizes = {1}
  MaxBody = 1
  Faults = {}
INVARIANTS
  OnlyAdmissibleForwarded
  InFlightListed
PROPERTIES
  EveryRequestFinishes
  ImplementsGateway
\* Every connection has been served: the server waits for the next one.
CHECK_DEADLOCK FALSE
