SPECIFICATION SystemSpec
CONSTANTS
  k1 = k1
  k2 = k2
  Keepers = {k1, k2}
  Schedules <- DCASchedules
  Ttls = {}
  MaxLockTtl = 2
  MaxLedger = 2
  Modes = {"alone", "registered", "claiming"}
  LockTtl = 1
  ListAnswers = TRUE
  RetryMax = 2
  MaxFaults = 1
  Budgets = {2}
  PerSwap = 2
  Interval = 1
  TopUps = {1}
  Supply = 3
  MaxPolicies = 1
CHECK_DEADLOCK FALSE
INVARIANTS
  SystemTypeOK
  ClaimExcludes
PROPERTIES
  DueIsExecuted
