SPECIFICATION ProbesSpec
CONSTANTS
    Requests = {q1, q2, q3}
    Configs <- OneConfig
    MaxFailure = 2
    MaxSuccess = 2
    MaxTimeout = 1
INVARIANTS
  ProbesLimited
