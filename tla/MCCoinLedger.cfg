\* Two users, one purchase either may claim, two concurrent transactions.
SPECIFICATION Spec
CONSTANTS
  Users = {u1, u2}
  Purchases = {t1}
  Worth <- MCWorth
  Grants = {1}
  Costs = {2}
  Coins = 1
  NoOne = none
  Txs = {x1, x2}
  MaxClock = 6
SYMMETRY LedgerSymmetry
\* The bound on the clock ends every run.
CHECK_DEADLOCK FALSE
INVARIANTS
  TypeOK
  LedgerChains
  PurchasesSettle
PROPERTY
  ImplementsWallet
