CONSTANTS
  u1 = u1
  u2 = u2
  t1 = t1
  Users = {u1, u2}
  Contract = contract
  Tokens = {t1}
  Amounts = {1}
  ReleaseLedgers = {1}
  Expiries = {2}
  None = None
  Supply = 2
  MaxBatch = 2
  MaxVaults = 2
  MaxLedger = 3

SPECIFICATION Spec
CHECK_DEADLOCK FALSE

INVARIANT RecipientIndexComplete
