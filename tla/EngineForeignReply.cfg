SPECIFICATION Spec
CONSTANTS
    Clients = {c1, c2}
    Workers = {w1}
    Recoverers = {r1, r2}
    NumShards = 1
    Home <- OneShardHome
    ShardOf <- OneShardOf
    Reqs = {o1, o2}
    QueueSize = 2
    ThresholdPct = 90
    BatchSize = 1
    HandlerErrs = {"nil"}
    TimeoutMayFire = TRUE
    CloseMayTimeOut = FALSE
    None = None
CHECK_DEADLOCK FALSE
INVARIANTS
  AnswersOwnRequest
