SPECIFICATION Spec
CONSTANTS
  u1 = u1
  u2 = u2
  r1 = r1
  t1 = t1
  t2 = t2
  contract = contract
  None = None
  Users = {u1, u2}
  Routers = {r1}
  Contract = contract
  Tokens = {t1}
  OutTokens = {t2}
  Budgets = {0, 3, 4}
  SwapAmounts = {2}
  MinOutputs = {0, 1}
  Outputs = {0, 1}
  Intervals = {0, 1}
  TopUps = {0, 1, 2}
  MinInterval = 1
  Approval = 1
  MaxHistoryPage = 2
  Supply = 6
  MaxPolicies = 1
  MaxLedger = 3
CHECK_DEADLOCK FALSE
INVARIANTS
  DueIsFunded
