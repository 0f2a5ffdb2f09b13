-------------------------------- MODULE Checkout --------------------------------
(***************************************************************************)
(* One customer's cart and checkouts (apps/api/src/lib/orders/checkout.ts, *)
(* routes/cart.ts, lib/repositories/postgres.ts): a checkout reads the     *)
(* cart, places the order in one transaction, then empties the cart, arms  *)
(* the ladder, rewards the referrer and confirms, each after the other;    *)
(* other devices check out and edit the cart meanwhile, and an error or a  *)
(* crash can come between any two of these.                                *)
(*                                                                         *)
(* Each database statement or transaction the code awaits is a step;       *)
(* CoinLedger justifies taking a transaction that moves coins as one.      *)
(* Arming the ladder is in OrderArc and changes nothing here.  The         *)
(* customer joined with a referral code.                                   *)
(***************************************************************************)
EXTENDS Integers, FiniteSets, Functions

CONSTANTS
  Checkouts,    \* POST /orders requests; an order is named by the one that placed it
  Adds,         \* POST /cart requests; a cart row is named by the one that inserted it
  Items,        \* variants
  Price,        \* Price[i]: the price an added row is given
  ItemOf,       \* ItemOf[a]: what a request adds
  KeyOf,        \* KeyOf[p]: a checkout's idempotency key, or None
  Coins,        \* bound on the customer's coins at the start
  MaxQuantity,  \* 10: no row holds more
  MaxCrashes,   \* bound on restarts
  MaxFailures,  \* bound on errors
  None

\* Answers that are no order.
Refusals == {"EMPTY_CART", "REFUSED", "INSUFFICIENT_COINS", "ERROR"}

ASSUME CheckoutAssumption ==
  /\ IsFiniteSet(Adds) /\ IsFiniteSet(Checkouts)
  /\ None \notin Checkouts /\ None \notin Adds /\ None \notin Items
  /\ Checkouts \cap Refusals = {}
  /\ Price \in [Items -> Nat] /\ ItemOf \in [Adds -> Items]
  /\ Coins \in Nat /\ MaxQuantity \in Nat \ {0}
  /\ MaxCrashes \in Nat /\ MaxFailures \in Nat

VARIABLES
  opening,    \* the customer's coins at the start
  balance,    \* and now
  cart,       \* cart_items: the quantity of each row, 0 where there is none
  orders,     \* orders: the rows an order was made of and its total; NoOrder if there is none
  rewards,    \* EARN_REFERRAL grants to the customer's referrer
  add,        \* cart requests
  checkout,   \* checkout requests
  crashes, failures

bounds == <<crashes, failures>>
vars == <<opening, balance, cart, orders, rewards, add, checkout, bounds>>

EmptyCart == [a \in Adds |-> 0]

NoOrder == [lines |-> EmptyCart, total |-> 0]

Init ==
  /\ opening \in 0 .. Coins
  /\ balance = opening
  /\ cart = EmptyCart
  /\ orders = [p \in Checkouts |-> NoOrder]
  /\ rewards = 0
  /\ add = [a \in Adds |-> [pc |-> "idle", row |-> None, quantity |-> 0]]
  /\ checkout = [p \in Checkouts |-> [pc |-> "idle", lines |-> EmptyCart, answer |-> None]]
  /\ crashes = 0
  /\ failures = 0

Placed == {p \in Checkouts : orders[p] # NoOrder}

(***************************************************************************)
(* addCartItem looks for a row with the variant and then adds to it, or    *)
(* inserts one.  Nothing in the schema keeps two rows of a variant apart,  *)
(* and a row may be gone by the time it is updated: the request fails.     *)
(***************************************************************************)
FindCartRow(a) ==
  /\ add[a].pc = "idle"
  /\ LET found == {r \in Adds : cart[r] > 0 /\ ItemOf[r] = ItemOf[a]}
     IN  IF found = {}
           THEN add' = [add EXCEPT ![a].pc = "insert"]
           ELSE \E r \in found :
                  add' = [add EXCEPT ![a] = [pc |-> "update", row |-> r, quantity |-> cart[r]]]
  /\ UNCHANGED <<opening, balance, cart, orders, rewards, checkout, bounds>>

AddDone(a) == add' = [add EXCEPT ![a] = [pc |-> "done", row |-> None, quantity |-> 0]]

WriteCartRow(a) ==
  LET r == add[a].row
      quantity == IF add[a].quantity < MaxQuantity THEN add[a].quantity + 1 ELSE MaxQuantity
  IN  /\ \/ add[a].pc = "insert" /\ cart' = [cart EXCEPT ![a] = 1]
         \/ add[a].pc = "update" /\ cart' = [cart EXCEPT ![r] = IF @ = 0 THEN 0 ELSE quantity]
      /\ AddDone(a)
      /\ UNCHANGED <<opening, balance, orders, rewards, checkout, bounds>>

RemoveCartItem(i) ==
  /\ \E a \in Adds : cart[a] > 0 /\ ItemOf[a] = i
  /\ cart' = [a \in Adds |-> IF ItemOf[a] = i THEN 0 ELSE cart[a]]
  /\ UNCHANGED <<opening, balance, orders, rewards, add, checkout, bounds>>

(***************************************************************************)
(* checkoutOrder                                                           *)
(***************************************************************************)
Goto(p, label) == checkout' = [checkout EXCEPT ![p].pc = label]

Answer(p, a) ==
  checkout' = [checkout EXCEPT ![p] = [pc |-> "done", lines |-> EmptyCart, answer |-> a]]

OrdersWithKey(k) == {p \in Placed : KeyOf[p] = k /\ k # None}

FindByKey(p) ==
  /\ checkout[p].pc = "idle"
  /\ IF OrdersWithKey(KeyOf[p]) # {}
       THEN \E o \in OrdersWithKey(KeyOf[p]) : Answer(p, o)
       ELSE Goto(p, "read")
  /\ UNCHANGED <<opening, balance, cart, orders, rewards, add, bounds>>

ReadCart(p) ==
  /\ checkout[p].pc = "read"
  /\ IF cart = EmptyCart
       THEN Answer(p, "EMPTY_CART")
       ELSE checkout' = [checkout EXCEPT ![p].pc = "place", ![p].lines = cart]
  /\ UNCHANGED <<opening, balance, cart, orders, rewards, add, bounds>>

\* INVALID_CART, for an item that is off sale, and COOLING_OFF; warnings and the stored hold
\* are no part of this model.
Refuse(p) ==
  /\ checkout[p].pc = "place"
  /\ Answer(p, "REFUSED")
  /\ UNCHANGED <<opening, balance, cart, orders, rewards, add, bounds>>

\* The transaction trusts the lookup made before it.
PlacedMeanwhileUnchecked(k) == {}

PlacedMeanwhile(k) == OrdersWithKey(k)

\* The rows of the cart as it is now.
LinesNow(p) == cart

Lines(p) == checkout[p].lines

Total(lines) == SumFunction([a \in Adds |-> Price[ItemOf[a]] * lines[a]])

\* The balance is not looked at again inside the transaction.
CanPayUnchecked(cost) == opening >= cost

CanPay(cost) == balance >= cost

PlaceOrder(p) ==
  LET total == Total(checkout[p].lines)
  IN  /\ checkout[p].pc = "place"
      /\ IF PlacedMeanwhile(KeyOf[p]) # {}
           THEN /\ \E o \in PlacedMeanwhile(KeyOf[p]) : Answer(p, o)
                /\ UNCHANGED <<orders, balance>>
         ELSE IF ~CanPay(total)
           THEN /\ Answer(p, "INSUFFICIENT_COINS")
                /\ UNCHANGED <<orders, balance>>
         ELSE /\ orders' = [orders EXCEPT ![p] = [lines |-> Lines(p), total |-> total]]
              /\ balance' = balance - total
              /\ Goto(p, "clear")
      /\ UNCHANGED <<opening, cart, rewards, add, bounds>>

ClearCart(p) ==
  /\ checkout[p].pc = "clear"
  /\ cart' = EmptyCart
  /\ Goto(p, "count")
  /\ UNCHANGED <<opening, balance, orders, rewards, add, bounds>>

\* "At least one" for existingOrders.length === 1.
EarnsRewardAlways == Placed # {}

EarnsReward == Cardinality(Placed) = 1

CountOrders(p) ==
  /\ checkout[p].pc = "count"
  /\ IF EarnsReward THEN Goto(p, "reward") ELSE Answer(p, p)
  /\ UNCHANGED <<opening, balance, cart, orders, rewards, add, bounds>>

RewardReferrer(p) ==
  /\ checkout[p].pc = "reward"
  /\ rewards' = rewards + 1
  /\ Answer(p, p)
  /\ UNCHANGED <<opening, balance, cart, orders, add, bounds>>

(***************************************************************************)
(* An error ends one request; a crash ends them all.  What they committed  *)
(* stays.                                                                  *)
(***************************************************************************)
InFlight(pc) == pc \notin {"idle", "done"}

CheckoutFails(p) ==
  /\ InFlight(checkout[p].pc)
  /\ failures < MaxFailures
  /\ failures' = failures + 1
  /\ Answer(p, "ERROR")
  /\ UNCHANGED <<opening, balance, cart, orders, rewards, add, crashes>>

AddFails(a) ==
  /\ InFlight(add[a].pc)
  /\ failures < MaxFailures
  /\ failures' = failures + 1
  /\ AddDone(a)
  /\ UNCHANGED <<opening, balance, cart, orders, rewards, checkout, crashes>>

Crash ==
  /\ crashes < MaxCrashes
  /\ crashes' = crashes + 1
  /\ checkout' = [p \in Checkouts |->
       IF InFlight(checkout[p].pc) THEN [pc |-> "done", lines |-> EmptyCart, answer |-> "ERROR"]
                                   ELSE checkout[p]]
  /\ add' = [a \in Adds |->
       IF InFlight(add[a].pc) THEN [pc |-> "done", row |-> None, quantity |-> 0] ELSE add[a]]
  /\ UNCHANGED <<opening, balance, cart, orders, rewards, failures>>

--------------------------------------------------------------------------------
Next ==
  \/ \E a \in Adds : FindCartRow(a) \/ WriteCartRow(a) \/ AddFails(a)
  \/ \E i \in Items : RemoveCartItem(i)
  \/ \E p \in Checkouts :
       \/ FindByKey(p) \/ ReadCart(p) \/ Refuse(p) \/ PlaceOrder(p) \/ ClearCart(p)
       \/ CountOrders(p) \/ RewardReferrer(p) \/ CheckoutFails(p)
  \/ Crash

Spec == Init /\ [][Next]_vars

--------------------------------------------------------------------------------
\* The types of the variables.
TypeOK ==
  /\ opening \in Nat /\ balance \in Nat
  /\ cart \in [Adds -> 0 .. MaxQuantity]
  /\ orders \in [Checkouts -> [lines : [Adds -> 0 .. MaxQuantity], total : Nat]]
  /\ rewards \in Nat
  /\ add \in [Adds -> [pc : {"idle", "insert", "update", "done"}, row : Adds \cup {None},
                       quantity : 0 .. MaxQuantity]]
  /\ checkout \in [Checkouts ->
       [pc : {"idle", "read", "place", "clear", "count", "reward", "done"},
        lines : [Adds -> 0 .. MaxQuantity],
        answer : Checkouts \cup Refusals \cup {None}]]
  /\ crashes \in Nat /\ failures \in Nat

(***************************************************************************)
(* "The server places the order once and answers a retry with it"          *)
(* (apps/mobile/src/hooks/orders.ts): checkouts with one key, together or  *)
(* one after the other, place at most one order, and those that are        *)
(* answered with an order are answered with that one.                      *)
(***************************************************************************)
OneOrderPerKey ==
  \A p, q \in Checkouts :
    KeyOf[p] # None /\ KeyOf[p] = KeyOf[q] =>
      /\ p \in Placed /\ q \in Placed => p = q
      /\ checkout[p].answer \in Checkouts /\ checkout[q].answer \in Checkouts =>
           checkout[p].answer = checkout[q].answer

(***************************************************************************)
(* The coins that left the balance are what the orders' rows cost, order   *)
(* by order, though carts change and checkouts race for the same coins     *)
(* (checkout.ts, placeOrder).                                              *)
(***************************************************************************)
ChargedWhatWasOrdered ==
  /\ \A p \in Placed : orders[p].total = Total(orders[p].lines)
  /\ balance = opening - SumFunction([p \in Checkouts |-> orders[p].total])

\* A referrer is rewarded once for a customer, whatever the customer's first checkouts race
\* (checkout.ts, existingOrders.length === 1), and only for a customer with an order.
RewardedOnce == rewards <= 1 /\ (rewards = 1 => Placed # {})

(***************************************************************************)
(* "You earn 100 coins when your friend places their first haul"           *)
(* (apps/mobile/app/referral.tsx:153): once no checkout is under way, a    *)
(* customer with orders has earned their referrer the reward.              *)
(***************************************************************************)
FirstHaulRewarded ==
  (\A p \in Checkouts : ~InFlight(checkout[p].pc)) /\ Placed # {} => rewards = 1

================================================================================
