SPECIFICATION Spec
CONSTANTS
  u1 = u1
  r1 = r1
  t1 = t1
  t2 = t2
  contract = contract
  None = None
  Users = {u1}
  Routers = {r1}
  Contract = contract
  Tokens = {t1}
  OutTokens = {t2}
  Budgets = {2, 3, 4}
  SwapAmounts = {2}
  MinOutputs = {1}
  Outputs = {0, 1}
  Intervals = {0, 1}
  TopUps = {0, 3}
  MinInterval = 1
  Approval = 1
  MaxHistoryPage = 2
  Supply = 7
  MaxPolicies = 2
  MaxLedger = 3
CHECK_DEADLOCK FALSE
INVARIANTS
  TypeOK
  Solvency
  BudgetAccounted
  ExecutionsSpaced
  HistoryPaged
