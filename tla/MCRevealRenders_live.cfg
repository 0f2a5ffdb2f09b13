\* Progress of the reveal and of what is paid for, through two restarts.
SPECIFICATION FairSpec
CONSTANTS
  Free = {f1, f2}
  Paid = {p1}
  Extra = {g1}
  Keys = {k1}
  Requests = {q1}
  Workers = {w1, w2}
  UnlockCost = 1
  GenerateCost = 1
  Coins = 2
  MaxCrashes = 2
  MaxFailures = 0
  Boot = boot
  None = none
\* An order that is ready, with nothing left to buy, stops.
CHECK_DEADLOCK FALSE
INVARIANT
  RevealReadyMeansFreeDone
PROPERTIES
  EventuallyRevealReady
  PaidRenderFinishes
