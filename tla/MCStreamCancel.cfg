SPECIFICATION HSpec
CONSTANTS
  u1 = u1
  u2 = u2
  t1 = t1
  contract = contract
  Users = {u1, u2}
  Contract = contract
  Tokens = {t1}
  Amounts = {0, 3, 5}
  Durations = {1, 2, 4}
  Delays = {0, 2}
  Graces = {0, 1}
  Shares = {4, 6}
  BasisPoints = 10
  MinDuration = 2
  MaxU32 = 9
  MaxI128 = 30
  Supply = 5
  MaxSplits = 2
  MaxStreams = 1
  MaxLedger = 7
CHECK_DEADLOCK FALSE
INVARIANTS
  CancelPaysActiveOnly
