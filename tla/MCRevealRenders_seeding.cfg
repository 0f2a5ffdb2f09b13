\* A render generated between the delivery and the seeding.
SPECIFICATION Spec
CONSTANTS
  Free = {f1}
  Paid = {p1}
  Extra = {g1}
  Keys = {k1}
  Requests = {q1}
  Workers = {w1}
  UnlockCost = 1
  GenerateCost = 1
  Coins = 1
  MaxCrashes = 0
  MaxFailures = 0
  Boot = boot
  None = none
\* An order that is ready, with nothing left to buy, stops.
CHECK_DEADLOCK FALSE
INVARIANT
  FreeRendersAlwaysSeeded
