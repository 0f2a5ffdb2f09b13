\* A database error after a free render is done.
SPECIFICATION Spec
CONSTANTS
  Free = {f1, f2}
  Paid = {p1}
  Extra = {g1}
  Keys = {k1}
  Requests = {q1}
  Workers = {w1, w2}
  UnlockCost = 1
  GenerateCost = 1
  Coins = 0
  MaxCrashes = 0
  MaxFailures = 1
  Boot = boot
  None = none
\* An order that is ready, with nothing left to buy, stops.
CHECK_DEADLOCK FALSE
INVARIANT
  RevealReadyMeansFreeDone
