SPECIFICATION FairSpec
CONSTANTS
    Clients = {c1, c2}
    Workers = {w1}
    Recoverers = {r1, r2}
    NumShards = 1
    Home <- OneShardHome
    ShardOf <- OneShardOf
    Reqs = {o1, o2}
    QueueSize = 1
    ThresholdPct = 50
    BatchSize = 1
    HandlerErrs = {"nil", "plain"}
    TimeoutMayFire = TRUE
    CloseMayTimeOut = TRUE
    None = None
CHECK_DEADLOCK FALSE
PROPERTIES
  EveryClientReturns
  CloseDrains
