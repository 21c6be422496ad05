SPECIFICATION LimitsSpec
CONSTANTS
  Keys = {"k1", "k2"}
  Rate = 2
  Burst = 3
  Cost = 2
  NewRates <- MCRates
  NewBursts <- MCBursts
  MaxBuckets = 1
  CleanupInterval = 5
  Expiry = 3
  MaxTime = 8
  Logins = {l1, l2}
  Addresses = {"a", "b"}
  Cookies = {"c"}
  MaxAttempts = 2
  Window = 2
  Block = 3
  SessionLife = 1
INVARIANTS
  GuessesBounded
PROPERTIES
  RefinesIdeal
  BlockEnds
