SPECIFICATION FairChain
CONSTANTS
    Requests = {q1, q2, q3}
    Configs <- TwoConfigs
    MaxFailure = 2
    MaxSuccess = 2
    MaxTimeout = 1
    Tenants = {"t1", "t2"}
    NoTenant = "none"
    OtherIds = {"stranger"}
    Defaults = {"t1"}
    RPS <- MCRPS
    TenantBurst <- MCBurst
    TenantCost = 2
    Blocked <- MCBlocked
    Allowed <- MCAllowed
    Asks <- MCAsks
    MaxIdle = 1
INVARIANTS
  HalfOpenNotStuck
  ProbesBounded
PROPERTIES
  TripsOnStreak
  QuietPeriod
  OwnBuckets
  Recovers
