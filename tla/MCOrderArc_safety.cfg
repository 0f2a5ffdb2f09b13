\* One order, two concurrent rushes, and a restart anywhere.
SPECIFICATION Spec
CONSTANTS
  Tiers <- MCTiers
  Express = "EXPRESS"
  Timing <- MCTiming
  Orders = {o1}
  Rushers = {r1, r2}
  RushCost = 1
  Coins = 2
  MaxTime = 5
  MaxCrashes = 1
  MaxFailures = 0
SYMMETRY RusherSymmetry
\* A delivered order and a stopped clock leave nothing to do.
CHECK_DEADLOCK FALSE
INVARIANTS
  PushesClimb
  RushNeverGivesUp
PROPERTY
  ImplementsLifecycle
