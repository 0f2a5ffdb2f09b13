------------------------------ MODULE DeliveryArc ------------------------------
(***************************************************************************)
(* The vocabulary of an order's delivery: the states of                    *)
(* packages/shared/src/schemas/order.ts, the transition rules of           *)
(* apps/api/src/lib/orders/state-machine.ts, the promised time of every    *)
(* step (stateEta) and the schedule a rush moves an order to.  No state    *)
(* here: OrderLifecycle (what the delivery promises) and OrderArc (how the *)
(* API process keeps the promise) both extend this module.                 *)
(***************************************************************************)
EXTENDS Integers

CONSTANTS
  Tiers,     \* the delivery tiers an order can be placed on
  Express,   \* the tier a rush moves an order to
  Timing     \* Timing[t][s]: time from checkout to step s on tier t

None == "NONE"                          \* no such order yet

Steps == {"PACKED", "OUT_FOR_DELIVERY", "ARRIVING_SOON", "DELIVERED"}

InTransit == {"PROCESSING", "PACKED", "OUT_FOR_DELIVERY", "ARRIVING_SOON"}

States == {"PROCESSING"} \cup Steps \cup {"REVEAL_READY"}

(***************************************************************************)
(* Every tier reaches the steps in ladder order.                           *)
(***************************************************************************)
ASSUME TierAssumption ==
  /\ Express \in Tiers
  /\ Timing \in [Tiers -> [Steps -> Nat]]
  /\ \A t \in Tiers : /\ Timing[t]["PACKED"] < Timing[t]["OUT_FOR_DELIVERY"]
                      /\ Timing[t]["OUT_FOR_DELIVERY"] < Timing[t]["ARRIVING_SOON"]
                      /\ Timing[t]["ARRIVING_SOON"] < Timing[t]["DELIVERED"]

\* nextState; "NONE" where the code returns null.
NextState ==
  [PROCESSING       |-> "PACKED",
   PACKED           |-> "OUT_FOR_DELIVERY",
   OUT_FOR_DELIVERY |-> "ARRIVING_SOON",
   ARRIVING_SOON    |-> "DELIVERED",
   DELIVERED        |-> None,
   REVEAL_READY     |-> None]

IsValidTransition(current, target) ==
  IF target = "REVEAL_READY" THEN current = "DELIVERED"
                             ELSE NextState[current] = target

\* ORDER_DELIVERY_LADDER.slice(position): the steps still ahead of an order.
Ahead ==
  [PROCESSING       |-> Steps,
   PACKED           |-> Steps \ {"PACKED"},
   OUT_FOR_DELIVERY |-> {"ARRIVING_SOON", "DELIVERED"},
   ARRIVING_SOON    |-> {"DELIVERED"},
   DELIVERED        |-> {},
   REVEAL_READY     |-> {}]

BuildStateEta(placedAt, tier) == [s \in Steps |-> placedAt + Timing[tier][s]]

(***************************************************************************)
(* planRushToExpress: steps ahead move to their Express time when that is  *)
(* earlier; the rush is refused unless it brings one of them forward from  *)
(* a time that has not come yet.                                           *)
(***************************************************************************)
Sooner(state, placedAt, eta) ==
  {s \in Ahead[state] : BuildStateEta(placedAt, Express)[s] < eta[s]}

RushedEta(state, placedAt, eta) ==
  [s \in Steps |-> IF s \in Sooner(state, placedAt, eta)
                     THEN BuildStateEta(placedAt, Express)[s]
                     ELSE eta[s]]

SpeedsUp(state, placedAt, eta, now) ==
  \E s \in Sooner(state, placedAt, eta) : eta[s] > now

Later(a, b) == IF a < b THEN b ELSE a

================================================================================
