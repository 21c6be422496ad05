SPECIFICATION FairRouting
CONSTANTS
  Readers = {r1, r2}
  Tables <- MCTables
  None = None
  Chars <- MCChars
  PrefixPaths <- MCPrefixPaths
  ExactPaths <- MCExactPaths
  RequestPaths <- MCRequestPaths
  MaxRoutes = 3
  Routes <- MCRoutes
  Requests = {"q1", "q2"}
  VirtualNodes = 1
  MaxHash = 2
  MaxSelects = 2
  WeightChoices = {0, 1, 2}
  MaxSwitches = 2
  Clients = {"u"}
  CanaryRules <- MCRules
  MaxAnswers = 2
  MaxFlips = 2
INVARIANTS
  TreeFollowsTable
  MatchesScan
  RingConsistent
  FairShares
  HonoursKey
PROPERTIES
  FindsConfigured
  NeverStarved
CHECK_DEADLOCK FALSE
