SPECIFICATION FairSpec
CONSTANTS
  Reqs = {"r1", "r2"}
  Backends <- MCBackends
  Kinds = {"plain", "stream", "websocket"}
  RouteRetries = 1
  PolicyRetries = 1
  MaxSwaps = 1
  MaxToggles = 2
INVARIANTS
  NoLeak
  CountsExact
  OneGoodBackendIsEnough
PROPERTIES
  RequestsEnd
CHECK_DEADLOCK FALSE
