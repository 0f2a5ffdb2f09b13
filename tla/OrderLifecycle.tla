----------------------------- MODULE OrderLifecycle -----------------------------
(***************************************************************************)
(* What the delivery of orders promises to a customer, with no queue, no   *)
(* timer and no process: an order climbs the ladder one step at a time,    *)
(* never before the time promised for the step, and a rush, bought at most *)
(* once, only ever brings the remaining promises forward.  OrderArc is     *)
(* shown to implement this module.                                         *)
(***************************************************************************)
EXTENDS DeliveryArc

CONSTANTS
  Orders,       \* the orders of one user
  RushCost,     \* RUSH_TO_EXPRESS_COST_COINS
  Coins,        \* bound on the user's coins at the start
  MaxTime       \* bound on the clock

VARIABLES
  now,          \* the clock
  state,        \* orders.state
  tier,         \* orders.tier
  placedAt,     \* orders.placed_at
  eta,          \* orders.state_eta
  balance       \* the user's coin balance

vars == <<now, state, tier, placedAt, eta, balance>>

Init ==
  /\ now = 0
  /\ state = [o \in Orders |-> None]
  /\ tier = [o \in Orders |-> Express]
  /\ placedAt = [o \in Orders |-> 0]
  /\ eta = [o \in Orders |-> BuildStateEta(0, Express)]
  /\ balance \in 0 .. Coins

Tick ==
  /\ now < MaxTime
  /\ now' = now + 1
  /\ UNCHANGED <<state, tier, placedAt, eta, balance>>

Place(o, t) ==
  /\ state[o] = None
  /\ state' = [state EXCEPT ![o] = "PROCESSING"]
  /\ tier' = [tier EXCEPT ![o] = t]
  /\ placedAt' = [placedAt EXCEPT ![o] = now]
  /\ eta' = [eta EXCEPT ![o] = BuildStateEta(now, t)]
  /\ UNCHANGED <<now, balance>>

Advance(o) ==
  /\ state[o] \in InTransit
  /\ eta[o][NextState[state[o]]] <= now
  /\ state' = [state EXCEPT ![o] = NextState[@]]
  /\ UNCHANGED <<now, tier, placedAt, eta, balance>>

Rush(o) ==
  /\ state[o] \in InTransit
  /\ tier[o] # Express
  /\ balance >= RushCost
  /\ balance' = balance - RushCost
  /\ tier' = [tier EXCEPT ![o] = Express]
  /\ eta' = [eta EXCEPT ![o] = RushedEta(state[o], placedAt[o], @)]
  /\ UNCHANGED <<now, state, placedAt>>

Next ==
  \/ Tick
  \/ \E o \in Orders : \/ \E t \in Tiers : Place(o, t)
                       \/ Advance(o)
                       \/ Rush(o)

Spec == Init /\ [][Next]_vars

================================================================================
