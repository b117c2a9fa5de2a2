CONSTANTS
  u1 = u1
  u2 = u2
  t1 = t1
  Users = {u1, u2}
  Contract = contract
  Tokens = {t1}
  Amounts = {0, 1, 2}
  ReleaseLedgers = {1, 2}
  Expiries = {2}
  None = None
  Supply = 2
  MaxBatch = 2
  MaxVaults = 2
  MaxLedger = 3

SPECIFICATION Spec
SYMMETRY Symmetry
CHECK_DEADLOCK FALSE

INVARIANTS
  TypeOK
  Solvency
  OwnerIndexExact
  RecipientIndexSound
  ActiveHasWayOut

PROPERTIES
  RecipientWindow
  ImplementsEscrow
