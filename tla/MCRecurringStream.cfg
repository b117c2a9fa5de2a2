SPECIFICATION Spec
CONSTANTS
  u1 = u1
  u2 = u2
  t1 = t1
  contract = contract
  Users = {u1, u2}
  Contract = contract
  Tokens = {t1}
  Amounts = {3}
  Durations = {2}
  Delays = {0}
  Graces = {0}
  Shares = {5}
  BasisPoints = 10
  MinDuration = 2
  MaxU32 = 7
  MaxI128 = 15
  Supply = 3
  MaxSplits = 2
  MaxStreams = 2
  MaxLedger = 3
CONSTRAINT OnePaused
SYMMETRY Symmetry
CHECK_DEADLOCK FALSE
INVARIANTS
  Solvency
  CanBeCancelled
  PlainRecipientIndexed
  SplitRecipientIndexed
