\* Two free renders that can finish together, two paid ones, a generated one, two restarts and a database error.
SPECIFICATION Spec
CONSTANTS
  Free = {f1, f2}
  Paid = {p1, p2}
  Extra = {g1}
  Keys = {k1}
  Requests = {q1, q2}
  Workers = {w1, w2}
  UnlockCost = 1
  GenerateCost = 1
  Coins = 2
  MaxCrashes = 2
  MaxFailures = 1
  Boot = boot
  None = none
SYMMETRY PoolSymmetry
\* An order that is ready, with nothing left to buy, stops.
CHECK_DEADLOCK FALSE
INVARIANTS
  TypeOK
  ChargedOnceForWhatIsUnlocked
  OneJobPerRender
  RevealPushedOnce
