\* One order, one rush, two restarts and a database error, under the fairness of the event loop.
SPECIFICATION FairSpec
CONSTANTS
  Tiers <- MCTiers
  Express = "EXPRESS"
  Timing <- MCTiming
  Orders = {o1}
  Rushers = {r1}
  RushCost = 1
  Coins = 1
  MaxTime = 5
  MaxCrashes = 2
  MaxFailures = 1
CHECK_DEADLOCK FALSE
INVARIANTS
  TypeOK
  NextStepCovered
PROPERTY
  EventuallyDelivered
