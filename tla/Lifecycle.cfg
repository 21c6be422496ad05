SPECIFICATION LifecycleSpec
CONSTANTS
  Addrs = {"b1", "b2"}
  Tables <- MCTables
  Threshold = 2
  MaxReloads = 1
  MaxEdits = 1
  Names = {"health"}
  MaxRetry = 2
  Hooks <- MCHooks
  MaxCalls = 2
INVARIANTS
  TasksStop
PROPERTIES
  OutAfterStreak
  FlagsFollow
  RestartsWork
  ShutdownCompletes
CHECK_DEADLOCK FALSE
