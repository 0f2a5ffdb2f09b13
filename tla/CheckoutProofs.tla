----------------------------- MODULE CheckoutProofs -----------------------------
(***************************************************************************)
(* Checkouts with one idempotency key place one order, for any number of   *)
(* checkouts, cart requests, crashes and errors.                           *)
(*                                                                         *)
(* The lookup before the cart is read decides nothing: another checkout    *)
(* with the key may commit after it.  What counts is that the transaction  *)
(* looks again (placeOrder), that a request places at most one order, and  *)
(* that only an order that is committed is answered.                       *)
(* The referrer's reward of these checkouts is given once (RewardInv), and *)
(* the coins that are gone are what the orders cost (SpendInv).            *)
(***************************************************************************)
EXTENDS Checkout, SumProofs, FiniteSetTheorems, TLAPS

\* The requests and the orders, one of each for a checkout.
Shapes ==
  /\ orders = [p \in Checkouts |-> orders[p]]
  /\ checkout = [p \in Checkouts |-> checkout[p]]

(***************************************************************************)
(* What holds at each position of a checkout: it has rows to place, has    *)
(* placed its order or has not, and is answered with its own order or with *)
(* that of its key.                                                        *)
(***************************************************************************)
Position(p, r) ==
  /\ r.pc = "place" => r.lines # EmptyCart
  /\ p \in Placed => r.pc \notin {"idle", "read", "place"}
  /\ r.pc \in {"clear", "count", "reward"} => p \in Placed

Answered(p, r) ==
  r.answer \in Checkouts =>
    /\ r.pc = "done"
    /\ r.answer \in Placed
    /\ r.answer = p \/ (KeyOf[p] # None /\ KeyOf[r.answer] = KeyOf[p])

Fits(p, r) ==
  /\ r = [pc |-> r.pc, lines |-> r.lines, answer |-> r.answer]
  /\ Position(p, r)
  /\ Answered(p, r)

\* No two orders have one key.
KeysDiffer ==
  \A p, q \in Placed : KeyOf[p] # None /\ KeyOf[p] = KeyOf[q] => p = q

KeyInv ==
  /\ Shapes
  /\ KeysDiffer
  /\ \A p \in Checkouts : Fits(p, checkout[p])

--------------------------------------------------------------------------------
\* A request at another position, and with the rows it has read.
LEMMA Relabelled ==
  ASSUME NEW r, r = [pc |-> r.pc, lines |-> r.lines, answer |-> r.answer], NEW pc, NEW lines
  PROVE  /\ [r EXCEPT !.pc = pc] = [pc |-> pc, lines |-> r.lines, answer |-> r.answer]
         /\ [r EXCEPT !.pc = pc, !.lines = lines] =
              [pc |-> pc, lines |-> lines, answer |-> r.answer]
<1>1. [r EXCEPT !.pc = pc] = [pc |-> pc, lines |-> r.lines, answer |-> r.answer]
  OBVIOUS
<1>2. [r EXCEPT !.pc = pc, !.lines = lines] =
        [pc |-> pc, lines |-> lines, answer |-> r.answer]
  <2> DEFINE s == [r EXCEPT !.pc = pc]
  <2>1. s = [pc |-> pc, lines |-> r.lines, answer |-> r.answer]
    BY <1>1
  <2> HIDE DEF s
  <2>2. [s EXCEPT !.lines = lines] = [pc |-> pc, lines |-> lines, answer |-> r.answer]
    BY <2>1
  <2> QED
    BY <2>2 DEF s
<1> QED
  BY <1>1, <1>2

\* Nothing is placed or answered at first.
LEMMA InitKeys == Init => KeyInv
BY CheckoutAssumption
  DEF Init, KeyInv, Shapes, KeysDiffer, Fits, Position, Answered, Placed

\* One request moves and no order is placed.
LEMMA MoveKeeps ==
  ASSUME KeyInv, UNCHANGED orders, NEW p \in Checkouts, NEW r,
         checkout' = [checkout EXCEPT ![p] = r], Fits(p, r)
  PROVE  KeyInv'
<1>1. Placed' = Placed
  BY DEF Placed, NoOrder, EmptyCart
<1>2. Shapes'
  BY DEF KeyInv, Shapes
<1>3. KeysDiffer'
  BY <1>1 DEF KeyInv, KeysDiffer
<1>4. ASSUME NEW q \in Checkouts PROVE Fits(q, checkout[q])'
  <2>1. checkout'[q] = IF q = p THEN r ELSE checkout[q]
    BY DEF KeyInv, Shapes
  <2>2. Fits(q, checkout'[q])
    BY <2>1 DEF KeyInv
  <2> QED
    BY <1>1, <2>2 DEF Fits, Position, Answered, EmptyCart
<1> QED
  BY <1>2, <1>3, <1>4 DEF KeyInv

\* A request that only moves on.
LEMMA GotoKeeps ==
  ASSUME KeyInv, UNCHANGED orders, NEW p \in Checkouts, NEW label, Goto(p, label),
         checkout[p].pc # "done",
         label \notin {"idle", "place"},
         label = "read" => p \notin Placed,
         label \in {"clear", "count", "reward"} => p \in Placed
  PROVE  KeyInv'
<1> DEFINE r == [checkout[p] EXCEPT !.pc = label]
<1>1. checkout' = [checkout EXCEPT ![p] = r]
  BY DEF Goto
<1>2. Fits(p, checkout[p])
  BY DEF KeyInv
<1>3. r.pc = label /\ r.lines = checkout[p].lines /\ r.answer = checkout[p].answer
  BY <1>2 DEF Fits
<1>4. r = [pc |-> label, lines |-> checkout[p].lines, answer |-> checkout[p].answer]
  BY <1>2, Relabelled DEF Fits
<1> HIDE DEF r
<1>5. Fits(p, r)
  BY <1>2, <1>3, <1>4 DEF Fits, Position, Answered
<1> QED
  BY <1>1, <1>5, MoveKeeps

\* A request that has read its rows.
LEMMA RowsKeep ==
  ASSUME KeyInv, UNCHANGED orders, NEW p \in Checkouts, NEW lines, lines # EmptyCart,
         checkout[p].pc # "done", p \notin Placed,
         checkout' = [checkout EXCEPT ![p].pc = "place", ![p].lines = lines]
  PROVE  KeyInv'
<1> DEFINE r == [checkout[p] EXCEPT !.pc = "place", !.lines = lines]
<1>1. checkout' = [checkout EXCEPT ![p] = r]
  BY DEF KeyInv, Shapes
<1>2. Fits(p, checkout[p])
  BY DEF KeyInv
<1>3. r = [pc |-> "place", lines |-> lines, answer |-> checkout[p].answer]
  BY <1>2, Relabelled DEF Fits
<1> HIDE DEF r
<1>4. Fits(p, r)
  BY <1>2, <1>3 DEF Fits, Position, Answered
<1> QED
  BY <1>1, <1>4, MoveKeeps

\* A request that is answered.
LEMMA AnswerKeeps ==
  ASSUME KeyInv, UNCHANGED orders, NEW p \in Checkouts, NEW a, Answer(p, a),
         a \in Checkouts =>
           a \in Placed /\ (a = p \/ (KeyOf[p] # None /\ KeyOf[a] = KeyOf[p]))
  PROVE  KeyInv'
<1> DEFINE r == [pc |-> "done", lines |-> EmptyCart, answer |-> a]
<1>1. checkout' = [checkout EXCEPT ![p] = r]
  BY DEF Answer
<1>2. Fits(p, r)
  BY DEF Fits, Position, Answered
<1> HIDE DEF r
<1> QED
  BY <1>1, <1>2, MoveKeeps

\* addCartItem and removing items change the cart only.
LEMMA CartKeeps ==
  ASSUME KeyInv, UNCHANGED <<orders, checkout>>
  PROVE  KeyInv'
<1>1. Placed' = Placed
  BY DEF Placed, NoOrder, EmptyCart
<1>2. Shapes' /\ KeysDiffer'
  BY <1>1 DEF KeyInv, Shapes, KeysDiffer
<1>3. \A p \in Checkouts : Fits(p, checkout[p])'
  BY <1>1 DEF KeyInv, Fits, Position, Answered, EmptyCart
<1> QED
  BY <1>2, <1>3 DEF KeyInv

\* An order found by its key is an answer (findOrderByIdempotencyKey).
LEMMA FoundByKey ==
  ASSUME NEW p, NEW o \in OrdersWithKey(KeyOf[p])
  PROVE  o \in Placed /\ KeyOf[p] # None /\ KeyOf[o] = KeyOf[p]
BY DEF OrdersWithKey

\* placeOrder: the transaction has looked for the key again.
LEMMA PlaceOrderKeeps ==
  ASSUME KeyInv, NEW p \in Checkouts, PlaceOrder(p)
  PROVE  KeyInv'
<1> USE CheckoutAssumption
<1> DEFINE total == Total(checkout[p].lines)
           order == [lines |-> Lines(p), total |-> total]
<1>1. CASE PlacedMeanwhile(KeyOf[p]) # {}
  <2>1. PICK o \in OrdersWithKey(KeyOf[p]) : Answer(p, o)
    BY <1>1 DEF PlaceOrder, PlacedMeanwhile
  <2>2. UNCHANGED orders
    BY <1>1 DEF PlaceOrder
  <2> QED
    BY <2>1, <2>2, FoundByKey, AnswerKeeps
<1>2. CASE PlacedMeanwhile(KeyOf[p]) = {} /\ ~CanPay(total)
  <2>1. Answer(p, "INSUFFICIENT_COINS") /\ UNCHANGED orders
    BY <1>2 DEF PlaceOrder
  <2>2. "INSUFFICIENT_COINS" \notin Checkouts
    BY DEF Refusals
  <2> QED
    BY <2>1, <2>2, AnswerKeeps
<1>3. CASE PlacedMeanwhile(KeyOf[p]) = {} /\ CanPay(total)
  <2>1. /\ checkout[p].pc = "place" /\ checkout[p].lines # EmptyCart
        /\ orders' = [orders EXCEPT ![p] = order]
        /\ Goto(p, "clear")
    BY <1>3 DEF PlaceOrder, KeyInv, Fits, Position
  <2>2. order # NoOrder
    BY <2>1 DEF Lines, NoOrder
  <2>3. p \notin Placed
    BY <2>1 DEF KeyInv, Fits, Position
  <2> HIDE DEF order
  <2>4. \A q \in Checkouts : orders'[q] = IF q = p THEN order ELSE orders[q]
    BY <2>1 DEF KeyInv, Shapes
  <2>5. Placed' = Placed \cup {p}
    BY <2>2, <2>4 DEF Placed, NoOrder, EmptyCart
  <2> DEFINE r == [checkout[p] EXCEPT !.pc = "clear"]
  <2>6. checkout' = [checkout EXCEPT ![p] = r]
    BY <2>1 DEF Goto
  <2>7. Fits(p, checkout[p])
    BY DEF KeyInv
  <2>8. r = [pc |-> "clear", lines |-> checkout[p].lines, answer |-> checkout[p].answer]
    BY <2>7, Relabelled DEF Fits
  <2> HIDE DEF r
  <2>9. Shapes'
    BY <2>1, <2>6 DEF KeyInv, Shapes
  <2>10. KeysDiffer'
    <3>1. \A q \in Placed : ~(KeyOf[p] # None /\ KeyOf[q] = KeyOf[p])
      BY <1>3 DEF PlacedMeanwhile, OrdersWithKey
    <3> QED
      BY <2>5, <3>1 DEF KeyInv, KeysDiffer
  <2>11. ASSUME NEW q \in Checkouts PROVE Fits(q, checkout[q])'
    <3>1. checkout'[q] = IF q = p THEN r ELSE checkout[q]
      BY <2>6 DEF KeyInv, Shapes
    <3>2. CASE q = p
      BY <2>1, <2>5, <2>7, <2>8, <3>1, <3>2 DEF Fits, Position, Answered, EmptyCart
    <3>3. CASE q # p
      BY <2>5, <3>1, <3>3 DEF KeyInv, Fits, Position, Answered, EmptyCart
    <3> QED
      BY <3>2, <3>3
  <2> QED
    BY <2>9, <2>10, <2>11 DEF KeyInv
<1> QED
  BY <1>1, <1>2, <1>3

\* Requests that end in a crash have answered with no order.
LEMMA CrashKeeps ==
  ASSUME KeyInv, Crash
  PROVE  KeyInv'
<1> USE CheckoutAssumption
<1> DEFINE ended == [pc |-> "done", lines |-> EmptyCart, answer |-> "ERROR"]
<1>1. UNCHANGED orders
  BY DEF Crash
<1>2. /\ checkout' = [p \in Checkouts |-> checkout'[p]]
      /\ \A p \in Checkouts : checkout'[p] = checkout[p] \/ checkout'[p] = ended
  BY DEF Crash
<1>3. Placed' = Placed
  BY <1>1 DEF Placed, NoOrder, EmptyCart
<1>4. Shapes'
  BY <1>1, <1>2 DEF KeyInv, Shapes
<1>5. KeysDiffer'
  BY <1>3 DEF KeyInv, KeysDiffer
<1>6. ASSUME NEW p \in Checkouts PROVE Fits(p, checkout[p])'
  <2>1. Fits(p, checkout[p]) /\ Fits(p, ended)
    <3>1. "ERROR" \notin Checkouts
      BY DEF Refusals
    <3> QED
      BY <3>1 DEF KeyInv, Fits, Position, Answered
  <2>2. Fits(p, checkout'[p])
    BY <1>2, <2>1
  <2> QED
    BY <1>3, <2>2 DEF Fits, Position, Answered, EmptyCart
<1> QED
  BY <1>4, <1>5, <1>6 DEF KeyInv

--------------------------------------------------------------------------------
\* One step per action.
LEMMA NextKeys == KeyInv /\ [Next]_vars => KeyInv'
<1> SUFFICES ASSUME KeyInv, [Next]_vars PROVE KeyInv'
  OBVIOUS
<1> USE CheckoutAssumption
<1>1. ASSUME NEW a \in Adds, FindCartRow(a) \/ WriteCartRow(a) \/ AddFails(a) PROVE KeyInv'
  BY <1>1, CartKeeps DEF FindCartRow, WriteCartRow, AddFails
<1>2. ASSUME NEW i \in Items, RemoveCartItem(i) PROVE KeyInv'
  BY <1>2, CartKeeps DEF RemoveCartItem
<1>3. ASSUME NEW p \in Checkouts, FindByKey(p) PROVE KeyInv'
  <2>1. CASE OrdersWithKey(KeyOf[p]) # {}
    <3>1. PICK o \in OrdersWithKey(KeyOf[p]) : Answer(p, o)
      BY <1>3, <2>1 DEF FindByKey
    <3> QED
      BY <1>3, <3>1, FoundByKey, AnswerKeeps DEF FindByKey
  <2>2. CASE OrdersWithKey(KeyOf[p]) = {}
    <3>1. checkout[p].pc = "idle" /\ p \notin Placed /\ Goto(p, "read") /\ UNCHANGED orders
      BY <1>3, <2>2 DEF FindByKey, KeyInv, Fits, Position
    <3> QED
      BY <3>1, GotoKeeps
  <2> QED
    BY <2>1, <2>2
<1>4. ASSUME NEW p \in Checkouts, ReadCart(p) PROVE KeyInv'
  <2>1. checkout[p].pc = "read" /\ p \notin Placed /\ UNCHANGED orders
    BY <1>4 DEF ReadCart, KeyInv, Fits, Position
  <2>2. CASE cart = EmptyCart
    <3>1. Answer(p, "EMPTY_CART") /\ "EMPTY_CART" \notin Checkouts
      BY <1>4, <2>2 DEF ReadCart, Refusals
    <3> QED
      BY <2>1, <3>1, AnswerKeeps
  <2>3. CASE cart # EmptyCart
    BY <1>4, <2>1, <2>3, RowsKeep DEF ReadCart
  <2> QED
    BY <2>2, <2>3
<1>5. ASSUME NEW p \in Checkouts, Refuse(p) PROVE KeyInv'
  BY <1>5, AnswerKeeps DEF Refuse, Refusals
<1>6. ASSUME NEW p \in Checkouts, PlaceOrder(p) PROVE KeyInv'
  BY <1>6, PlaceOrderKeeps
<1>7. ASSUME NEW p \in Checkouts, ClearCart(p) PROVE KeyInv'
  <2>1. checkout[p].pc = "clear" /\ p \in Placed /\ Goto(p, "count") /\ UNCHANGED orders
    BY <1>7 DEF ClearCart, KeyInv, Fits, Position
  <2> QED
    BY <2>1, GotoKeeps
<1>8. ASSUME NEW p \in Checkouts, CountOrders(p) PROVE KeyInv'
  <2>1. checkout[p].pc = "count" /\ p \in Placed /\ UNCHANGED orders
    BY <1>8 DEF CountOrders, KeyInv, Fits, Position
  <2>2. Goto(p, "reward") \/ Answer(p, p)
    BY <1>8 DEF CountOrders
  <2> QED
    BY <2>1, <2>2, GotoKeeps, AnswerKeeps
<1>9. ASSUME NEW p \in Checkouts, RewardReferrer(p) PROVE KeyInv'
  <2>1. p \in Placed /\ Answer(p, p) /\ UNCHANGED orders
    BY <1>9 DEF RewardReferrer, KeyInv, Fits, Position
  <2> QED
    BY <2>1, AnswerKeeps
<1>10. ASSUME NEW p \in Checkouts, CheckoutFails(p) PROVE KeyInv'
  BY <1>10, AnswerKeeps DEF CheckoutFails, Refusals
<1>11. CASE Crash
  BY <1>11, CrashKeeps
<1>12. CASE UNCHANGED vars
  BY <1>12, CartKeeps DEF vars
<1> QED
  BY <1>1, <1>2, <1>3, <1>4, <1>5, <1>6, <1>7, <1>8, <1>9, <1>10, <1>11, <1>12 DEF Next

(***************************************************************************)
(* Checkouts with one key place at most one order, and those that are      *)
(* answered with an order are answered with that one (checkoutOrder and    *)
(* placeOrder).                                                            *)
(***************************************************************************)
THEOREM OneOrder == Spec => []OneOrderPerKey
<1>1. ASSUME KeyInv PROVE OneOrderPerKey
  <2> SUFFICES ASSUME NEW p \in Checkouts, NEW q \in Checkouts,
                      KeyOf[p] # None, KeyOf[p] = KeyOf[q]
               PROVE  /\ p \in Placed /\ q \in Placed => p = q
                      /\ checkout[p].answer \in Checkouts /\ checkout[q].answer \in Checkouts =>
                           checkout[p].answer = checkout[q].answer
    BY DEF OneOrderPerKey
  <2>1. p \in Placed /\ q \in Placed => p = q
    BY <1>1 DEF KeyInv, KeysDiffer
  <2>2. ASSUME checkout[p].answer \in Checkouts, checkout[q].answer \in Checkouts
        PROVE  checkout[p].answer = checkout[q].answer
    <3> DEFINE o == checkout[p].answer
               r == checkout[q].answer
    <3>1. o \in Placed /\ KeyOf[o] = KeyOf[p]
      BY <1>1, <2>2 DEF KeyInv, Fits, Answered
    <3>2. r \in Placed /\ KeyOf[r] = KeyOf[q]
      BY <1>1, <2>2 DEF KeyInv, Fits, Answered
    <3> QED
      BY <1>1, <3>1, <3>2 DEF KeyInv, KeysDiffer
  <2> QED
    BY <2>1, <2>2
<1> QED
  BY <1>1, InitKeys, NextKeys, PTL DEF Spec

(***************************************************************************)
(* The referrer's reward.  A checkout counts the orders after it placed    *)
(* its own, and orders are never removed: two that both count one order    *)
(* have placed the same one.                                               *)
(***************************************************************************)
Rewarding == {p \in Checkouts : checkout[p].pc = "reward"}

RewardInv ==
  /\ KeyInv
  /\ rewards \in {0, 1}
  /\ rewards = 1 => Rewarding = {} /\ \E p \in Placed : checkout[p].pc = "done"
  /\ \A p, q \in Rewarding : p = q

\* A checkout that counts one order has placed it.
LEMMA OwnOrderOnly ==
  ASSUME NEW p \in Placed, EarnsReward
  PROVE  Placed = {p}
<1>1. IsFiniteSet(Placed)
  BY CheckoutAssumption, FS_Subset DEF Placed
<1>2. PICK q : Placed = {q}
  BY <1>1, FS_Singleton DEF EarnsReward
<1> QED
  BY <1>2

\* One request moves, not to its reward, and gives none.
LEMMA RewardsStay ==
  ASSUME RewardInv, KeyInv', UNCHANGED rewards, Placed \subseteq Placed', NEW p \in Checkouts,
         checkout[p].pc # "done", checkout'[p].pc # "reward",
         \A q \in Checkouts \ {p} : checkout'[q] = checkout[q]
  PROVE  RewardInv'
<1>1. Rewarding' \subseteq Rewarding
  BY DEF Rewarding
<1>2. \A q \in Placed : checkout[q].pc = "done" => q \in Placed' /\ checkout'[q].pc = "done"
  BY DEF Placed
<1> QED
  BY <1>1, <1>2 DEF RewardInv

LEMMA NextRewards == RewardInv /\ [Next]_vars => RewardInv'
<1> SUFFICES ASSUME RewardInv, [Next]_vars PROVE RewardInv'
  OBVIOUS
<1>k. KeyInv /\ KeyInv'
  BY NextKeys DEF RewardInv
<1>s. checkout = [p \in Checkouts |-> checkout[p]] /\ orders = [p \in Checkouts |-> orders[p]]
  BY <1>k DEF KeyInv, Shapes
<1>0. ASSUME UNCHANGED <<orders, checkout, rewards>> PROVE RewardInv'
  <2>1. Rewarding' = Rewarding /\ Placed' = Placed
    BY <1>0 DEF Rewarding, Placed, NoOrder, EmptyCart
  <2> QED
    BY <1>0, <1>k, <2>1 DEF RewardInv
<1>1. ASSUME NEW a \in Adds, FindCartRow(a) \/ WriteCartRow(a) \/ AddFails(a) PROVE RewardInv'
  BY <1>1, <1>0 DEF FindCartRow, WriteCartRow, AddFails
<1>2. ASSUME NEW i \in Items, RemoveCartItem(i) PROVE RewardInv'
  BY <1>2, <1>0 DEF RemoveCartItem
<1>3. ASSUME NEW p \in Checkouts,
             FindByKey(p) \/ ReadCart(p) \/ Refuse(p) \/ ClearCart(p) \/ CheckoutFails(p)
      PROVE  RewardInv'
  <2>1. UNCHANGED <<orders, rewards>> /\ checkout[p].pc # "done"
    BY <1>3 DEF FindByKey, ReadCart, Refuse, ClearCart, CheckoutFails, InFlight
  <2>2. Placed' = Placed
    BY <2>1 DEF Placed, NoOrder, EmptyCart
  <2>3. \/ \E a : Answer(p, a)
        \/ Goto(p, "read") \/ Goto(p, "count")
        \/ checkout' = [checkout EXCEPT ![p].pc = "place", ![p].lines = cart]
    BY <1>3 DEF FindByKey, ReadCart, Refuse, ClearCart, CheckoutFails
  <2>4. /\ checkout'[p].pc # "reward"
        /\ \A q \in Checkouts \ {p} : checkout'[q] = checkout[q]
    <3>1. checkout[p] = [pc |-> checkout[p].pc, lines |-> checkout[p].lines, answer |-> checkout[p].answer]
      BY <1>k DEF KeyInv, Fits
    <3>2. CASE \E a : Answer(p, a)
      BY <3>2, <1>s DEF Answer
    <3>3. CASE Goto(p, "read") \/ Goto(p, "count")
      BY <3>1, <3>3, <1>s DEF Goto
    <3>4. CASE checkout' = [checkout EXCEPT ![p].pc = "place", ![p].lines = cart]
      BY <3>1, <3>4, <1>s
    <3> QED
      BY <2>3, <3>2, <3>3, <3>4
  <2> QED
    BY <1>k, <2>1, <2>2, <2>4, RewardsStay
<1>4. ASSUME NEW p \in Checkouts, PlaceOrder(p) PROVE RewardInv'
  <2>1. UNCHANGED rewards /\ checkout[p].pc = "place"
    BY <1>4 DEF PlaceOrder
  <2>2. checkout[p] = [pc |-> checkout[p].pc, lines |-> checkout[p].lines, answer |-> checkout[p].answer]
        /\ p \notin Placed
    BY <2>1, <1>k DEF KeyInv, Fits, Position
  <2>3. Placed \subseteq Placed'
    <3>1. \A q \in Checkouts \ {p} : orders'[q] = orders[q]
      BY <1>4, <1>s DEF PlaceOrder
    <3> QED
      BY <2>2, <3>1 DEF Placed, NoOrder, EmptyCart
  <2>4. (\E a : Answer(p, a)) \/ Goto(p, "clear")
    BY <1>4 DEF PlaceOrder
  <2>5. /\ checkout'[p].pc # "reward"
        /\ \A q \in Checkouts \ {p} : checkout'[q] = checkout[q]
    BY <2>2, <2>4, <1>s DEF Answer, Goto
  <2> QED
    BY <1>k, <2>1, <2>3, <2>5, RewardsStay
<1>5. ASSUME NEW p \in Checkouts, CountOrders(p) PROVE RewardInv'
  <2>1. /\ UNCHANGED <<orders, rewards>> /\ checkout[p].pc = "count" /\ p \in Placed
        /\ checkout[p] = [pc |-> checkout[p].pc, lines |-> checkout[p].lines, answer |-> checkout[p].answer]
    BY <1>5, <1>k DEF CountOrders, KeyInv, Fits, Position
  <2>2. Placed' = Placed
    BY <2>1 DEF Placed, NoOrder, EmptyCart
  <2>3. CASE EarnsReward
    <3>1. Goto(p, "reward") /\ Placed = {p}
      BY <1>5, <2>1, <2>3, OwnOrderOnly DEF CountOrders
    <3>2. checkout'[p].pc = "reward" /\ \A q \in Checkouts \ {p} : checkout'[q] = checkout[q]
      BY <3>1, <2>1, <1>s DEF Goto
    <3>3. rewards = 0
      BY <3>1, <2>1 DEF RewardInv
    <3>4. Rewarding \subseteq Placed
      BY <1>k DEF Rewarding, KeyInv, Fits, Position
    <3>5. Rewarding' = {p}
      BY <3>1, <3>2, <3>4, <2>1 DEF Rewarding
    <3> QED
      BY <3>3, <3>5, <1>k, <2>1, <2>2 DEF RewardInv
  <2>4. CASE ~EarnsReward
    <3>1. Answer(p, p)
      BY <1>5, <2>4 DEF CountOrders
    <3>2. checkout'[p].pc # "reward" /\ \A q \in Checkouts \ {p} : checkout'[q] = checkout[q]
      BY <3>1, <1>s DEF Answer
    <3> QED
      BY <3>2, <1>k, <2>1, <2>2, RewardsStay
  <2> QED
    BY <2>3, <2>4
<1>6. ASSUME NEW p \in Checkouts, RewardReferrer(p) PROVE RewardInv'
  <2>1. /\ p \in Rewarding /\ rewards' = rewards + 1 /\ UNCHANGED orders /\ Answer(p, p)
        /\ p \in Placed
    BY <1>6, <1>k DEF RewardReferrer, Rewarding, KeyInv, Fits, Position
  <2>2. Placed' = Placed
    BY <2>1 DEF Placed, NoOrder, EmptyCart
  <2>3. checkout'[p].pc = "done" /\ \A q \in Checkouts \ {p} : checkout'[q] = checkout[q]
    BY <2>1, <1>s DEF Answer
  <2>4. rewards = 0 /\ Rewarding = {p}
    BY <2>1 DEF RewardInv
  <2>5. Rewarding' = {} /\ rewards' = 1
    BY <2>1, <2>3, <2>4 DEF Rewarding
  <2> QED
    BY <1>k, <2>1, <2>2, <2>3, <2>5 DEF RewardInv
<1>7. CASE Crash
  <2>1. UNCHANGED <<orders, rewards>>
    BY <1>7 DEF Crash
  <2>2. \A p \in Checkouts : checkout'[p].pc # "reward"
                             /\ (checkout[p].pc = "done" => checkout'[p].pc = "done")
    BY <1>7 DEF Crash, InFlight
  <2>3. Placed' = Placed /\ Placed \subseteq Checkouts
    BY <2>1 DEF Placed, NoOrder, EmptyCart
  <2>4. Rewarding' = {}
    BY <2>2 DEF Rewarding
  <2> QED
    BY <1>k, <2>1, <2>2, <2>3, <2>4 DEF RewardInv
<1>8. CASE UNCHANGED vars
  BY <1>8, <1>0 DEF vars
<1> QED
  BY <1>1, <1>2, <1>3, <1>4, <1>5, <1>6, <1>7, <1>8 DEF Next

(***************************************************************************)
(* A referrer is rewarded once for a customer, and only for one with an    *)
(* order, for any number of first checkouts that race, fail and crash      *)
(* (checkout.ts, existingOrders.length === 1).                             *)
(***************************************************************************)
THEOREM OneReward == Spec => []RewardedOnce
<1>1. Init => RewardInv
  <2>1. Init => KeyInv
    BY InitKeys
  <2>2. Init => Rewarding = {} /\ rewards = 0
    BY DEF Init, Rewarding
  <2> QED
    BY <2>1, <2>2 DEF RewardInv
<1>2. RewardInv => RewardedOnce
  BY DEF RewardInv, RewardedOnce
<1> QED
  BY <1>1, <1>2, NextRewards, PTL DEF Spec

(***************************************************************************)
(* The types, and the coins: what an order costs is the sum over its rows, *)
(* what is gone from the balance the sum over the orders (SumProofs).      *)
(***************************************************************************)
Rows == [Adds -> 0 .. MaxQuantity]

Request == [pc : {"idle", "read", "place", "clear", "count", "reward", "done"},
            lines : Rows, answer : Checkouts \cup Refusals \cup {None}]

\* What a step writes to one request has its type.
LEMMA RequestTypes ==
  ASSUME NEW p \in Checkouts, TypeOK
  PROVE  /\ \A label \in {"read", "place", "clear", "count", "reward"} :
              Goto(p, label) => checkout' \in [Checkouts -> Request]
         /\ \A a \in Checkouts \cup Refusals \cup {None} :
              Answer(p, a) => checkout' \in [Checkouts -> Request]
         /\ checkout' = [checkout EXCEPT ![p].pc = "place", ![p].lines = cart]
              => checkout' \in [Checkouts -> Request]
<1>1. checkout \in [Checkouts -> Request]
  BY DEF TypeOK, Request, Rows
<1>2. EmptyCart \in Rows /\ cart \in Rows
  BY CheckoutAssumption DEF TypeOK, EmptyCart, Rows
<1>3. ASSUME NEW label \in {"read", "place", "clear", "count", "reward"}, Goto(p, label)
      PROVE  checkout' \in [Checkouts -> Request]
  BY <1>1, <1>3 DEF Goto, Request
<1>4. ASSUME NEW a \in Checkouts \cup Refusals \cup {None}, Answer(p, a)
      PROVE  checkout' \in [Checkouts -> Request]
  BY <1>1, <1>2, <1>4 DEF Answer, Request
<1>5. ASSUME checkout' = [checkout EXCEPT ![p].pc = "place", ![p].lines = cart]
      PROVE  checkout' \in [Checkouts -> Request]
  BY <1>1, <1>2, <1>5 DEF Request
<1> QED
  BY <1>3, <1>4, <1>5

\* What rows cost is a natural number.
LEMMA TotalType ==
  ASSUME NEW lines \in Rows
  PROVE  Total(lines) \in Nat
<1> USE CheckoutAssumption
<1> DEFINE cost == [a \in Adds |-> Price[ItemOf[a]] * lines[a]]
<1>1. ASSUME NEW a \in Adds PROVE Price[ItemOf[a]] * lines[a] \in Nat
  <2>1. Price[ItemOf[a]] \in Nat /\ lines[a] \in Nat
    BY DEF Rows
  <2>2. \A m, n \in Nat : m * n \in Nat
    OBVIOUS
  <2> QED
    BY <2>1, <2>2
<1>2. cost \in [Adds -> Nat]
  BY <1>1
<1> HIDE DEF cost
<1>3. SumFunction(cost) \in Nat
  BY <1>2, SumType
<1> QED
  BY <1>3 DEF Total, cost

\* What the checkouts write, and what nobody but them writes
Shop ==
  /\ opening \in Nat /\ balance \in Nat
  /\ orders \in [Checkouts -> [lines : Rows, total : Nat]]
  /\ rewards \in Nat
  /\ crashes \in Nat /\ failures \in Nat

Basket ==
  /\ cart \in Rows
  /\ add \in [Adds -> [pc : {"idle", "insert", "update", "done"}, row : Adds \cup {None},
                       quantity : 0 .. MaxQuantity]]

LEMMA TypeParts == TypeOK <=> Shop /\ Basket /\ checkout \in [Checkouts -> Request]
BY DEF TypeOK, Shop, Basket, Request, Rows

\* The cart and its requests: quantities stay between 0 and the most a row holds.
LEMMA NextBasket == TypeOK /\ [Next]_vars => Basket'
<1> SUFFICES ASSUME TypeOK, [Next]_vars PROVE Basket'
  OBVIOUS
<1> USE CheckoutAssumption
<1>b. Basket
  BY TypeParts
<1>0. ASSUME UNCHANGED <<cart, add>> PROVE Basket'
  BY <1>b, <1>0 DEF Basket
<1>e. EmptyCart \in Rows
  BY DEF EmptyCart, Rows
<1>1. ASSUME NEW a \in Adds, FindCartRow(a) PROVE Basket'
  <2> DEFINE found == {r \in Adds : cart[r] > 0 /\ ItemOf[r] = ItemOf[a]}
  <2>1. UNCHANGED cart
    BY <1>1 DEF FindCartRow
  <2>2. CASE found = {}
    <3>1. add' = [add EXCEPT ![a].pc = "insert"]
      BY <1>1, <2>2 DEF FindCartRow
    <3> QED
      BY <1>b, <2>1, <3>1 DEF Basket
  <2>3. CASE found # {}
    <3>1. PICK r \in Adds : add' = [add EXCEPT ![a] = [pc |-> "update", row |-> r, quantity |-> cart[r]]]
      BY <1>1, <2>3 DEF FindCartRow
    <3>2. cart[r] \in 0 .. MaxQuantity
      BY <1>b DEF Basket, Rows
    <3> QED
      BY <1>b, <2>1, <3>1, <3>2 DEF Basket
  <2> QED
    BY <2>2, <2>3
<1>2. ASSUME NEW a \in Adds, WriteCartRow(a) PROVE Basket'
  <2>1. add' \in [Adds -> [pc : {"idle", "insert", "update", "done"}, row : Adds \cup {None},
                          quantity : 0 .. MaxQuantity]]
    BY <1>b, <1>2 DEF WriteCartRow, AddDone, Basket
  <2>2. add[a].quantity \in 0 .. MaxQuantity
    BY <1>b DEF Basket
  <2> DEFINE quantity == IF add[a].quantity < MaxQuantity THEN add[a].quantity + 1 ELSE MaxQuantity
  <2>3. quantity \in 0 .. MaxQuantity /\ 1 \in 0 .. MaxQuantity /\ 0 \in 0 .. MaxQuantity
    BY <2>2
  <2>4. \/ cart' = [cart EXCEPT ![a] = 1]
        \/ cart' = [cart EXCEPT ![add[a].row] = IF @ = 0 THEN 0 ELSE quantity]
    BY <1>2 DEF WriteCartRow
  <2> HIDE DEF quantity
  <2>5. cart' \in Rows
    BY <1>b, <2>3, <2>4 DEF Basket, Rows
  <2> QED
    BY <2>1, <2>5 DEF Basket
<1>3. ASSUME NEW a \in Adds, AddFails(a) PROVE Basket'
  BY <1>b, <1>3 DEF AddFails, AddDone, Basket
<1>4. ASSUME NEW i \in Items, RemoveCartItem(i) PROVE Basket'
  BY <1>b, <1>4 DEF RemoveCartItem, Basket, Rows
<1>5. ASSUME NEW p \in Checkouts,
             \/ FindByKey(p) \/ ReadCart(p) \/ Refuse(p) \/ PlaceOrder(p)
             \/ CountOrders(p) \/ RewardReferrer(p) \/ CheckoutFails(p)
      PROVE  Basket'
  BY <1>5, <1>0 DEF FindByKey, ReadCart, Refuse, PlaceOrder, CountOrders, RewardReferrer, CheckoutFails
<1>6. ASSUME NEW p \in Checkouts, ClearCart(p) PROVE Basket'
  BY <1>b, <1>e, <1>6 DEF ClearCart, Basket
<1>7. CASE Crash
  <2>1. \A a \in Adds : add'[a] = add[a] \/ add'[a] = [pc |-> "done", row |-> None, quantity |-> 0]
    BY <1>7 DEF Crash
  <2>2. add' = [a \in Adds |-> add'[a]] /\ UNCHANGED cart
    BY <1>7 DEF Crash
  <2> QED
    BY <1>b, <2>1, <2>2 DEF Basket
<1>8. CASE UNCHANGED vars
  BY <1>8, <1>0 DEF vars
<1> QED
  BY <1>1, <1>2, <1>3, <1>4, <1>5, <1>6, <1>7, <1>8 DEF Next

\* A checkout at its transaction has rows to place, and no order yet.
LEMMA NextCheckouts == TypeOK /\ [Next]_vars => checkout' \in [Checkouts -> Request]
<1> SUFFICES ASSUME TypeOK, [Next]_vars PROVE checkout' \in [Checkouts -> Request]
  OBVIOUS
<1>c. checkout \in [Checkouts -> Request]
  BY TypeParts
<1>1. ASSUME NEW a \in Adds, FindCartRow(a) \/ WriteCartRow(a) \/ AddFails(a)
      PROVE  checkout' \in [Checkouts -> Request]
  BY <1>c, <1>1 DEF FindCartRow, WriteCartRow, AddFails
<1>2. ASSUME NEW i \in Items, RemoveCartItem(i) PROVE checkout' \in [Checkouts -> Request]
  BY <1>c, <1>2 DEF RemoveCartItem
<1>3. ASSUME NEW p \in Checkouts,
             \/ FindByKey(p) \/ ReadCart(p) \/ Refuse(p) \/ PlaceOrder(p) \/ ClearCart(p)
             \/ CountOrders(p) \/ RewardReferrer(p) \/ CheckoutFails(p)
      PROVE  checkout' \in [Checkouts -> Request]
  <2>1. \/ \E label \in {"read", "place", "clear", "count", "reward"} : Goto(p, label)
        \/ \E a \in Checkouts \cup Refusals \cup {None} : Answer(p, a)
        \/ checkout' = [checkout EXCEPT ![p].pc = "place", ![p].lines = cart]
    <3>1. CASE FindByKey(p)
      BY <3>1 DEF FindByKey, OrdersWithKey, Placed
    <3>2. CASE ReadCart(p)
      BY <3>2 DEF ReadCart, Refusals
    <3>3. CASE PlaceOrder(p)
      BY <3>3 DEF PlaceOrder, PlacedMeanwhile, OrdersWithKey, Placed, Refusals
    <3>4. CASE ClearCart(p) \/ CountOrders(p) \/ RewardReferrer(p)
      BY <3>4 DEF ClearCart, CountOrders, RewardReferrer
    <3>5. CASE Refuse(p) \/ CheckoutFails(p)
      BY <3>5 DEF Refuse, CheckoutFails, Refusals
    <3> QED
      BY <1>3, <3>1, <3>2, <3>3, <3>4, <3>5
  <2> QED
    BY <2>1, RequestTypes
<1>4. CASE Crash
  <2>1. [pc |-> "done", lines |-> EmptyCart, answer |-> "ERROR"] \in Request
    BY CheckoutAssumption DEF Request, Rows, EmptyCart, Refusals
  <2>2. /\ checkout' = [p \in Checkouts |-> checkout'[p]]
        /\ \A p \in Checkouts :
             \/ checkout'[p] = checkout[p]
             \/ checkout'[p] = [pc |-> "done", lines |-> EmptyCart, answer |-> "ERROR"]
    BY <1>4 DEF Crash
  <2>3. \A p \in Checkouts : checkout'[p] \in Request
    BY <1>c, <2>1, <2>2
  <2> QED
    BY <2>2, <2>3
<1>5. CASE UNCHANGED vars
  BY <1>c, <1>5 DEF vars
<1> QED
  BY <1>1, <1>2, <1>3, <1>4, <1>5 DEF Next

\* The order a transaction places
Order(p) == [lines |-> Lines(p), total |-> Total(Lines(p))]

\* A step that is no purchase leaves the coins and the orders alone.
LEMMA PurchaseOrNot ==
  ASSUME [Next]_vars
  PROVE  \/ UNCHANGED <<opening, balance, orders>>
         \/ \E p \in Checkouts :
              /\ checkout[p].pc = "place" /\ balance >= Total(Lines(p))
              /\ orders' = [orders EXCEPT ![p] = Order(p)]
              /\ balance' = balance - Total(Lines(p))
              /\ UNCHANGED opening
<1>1. ASSUME NEW p \in Checkouts, PlaceOrder(p)
      PROVE  \/ UNCHANGED <<opening, balance, orders>>
             \/ /\ checkout[p].pc = "place" /\ balance >= Total(Lines(p))
                /\ orders' = [orders EXCEPT ![p] = Order(p)]
                /\ balance' = balance - Total(Lines(p))
                /\ UNCHANGED opening
  BY <1>1 DEF PlaceOrder, CanPay, Lines, Order
<1>2. ASSUME NEW a \in Adds, FindCartRow(a) \/ WriteCartRow(a) \/ AddFails(a)
      PROVE  UNCHANGED <<opening, balance, orders>>
  BY <1>2 DEF FindCartRow, WriteCartRow, AddFails
<1>3. ASSUME NEW p \in Checkouts,
             \/ FindByKey(p) \/ ReadCart(p) \/ Refuse(p) \/ ClearCart(p)
             \/ CountOrders(p) \/ RewardReferrer(p) \/ CheckoutFails(p)
      PROVE  UNCHANGED <<opening, balance, orders>>
  BY <1>3 DEF FindByKey, ReadCart, Refuse, ClearCart, CountOrders, RewardReferrer, CheckoutFails
<1>4. ASSUME (\E i \in Items : RemoveCartItem(i)) \/ Crash \/ UNCHANGED vars
      PROVE  UNCHANGED <<opening, balance, orders>>
  BY <1>4 DEF RemoveCartItem, Crash, vars
<1> QED
  BY <1>1, <1>2, <1>3, <1>4 DEF Next

SpendInv == KeyInv /\ TypeOK /\ ChargedWhatWasOrdered

LEMMA NextSpends == SpendInv /\ [Next]_vars => SpendInv'
<1> SUFFICES ASSUME SpendInv, [Next]_vars PROVE SpendInv'
  OBVIOUS
<1> USE CheckoutAssumption
<1>k. KeyInv /\ TypeOK /\ ChargedWhatWasOrdered /\ KeyInv' /\ Shop
  BY NextKeys, TypeParts DEF SpendInv
<1>r. rewards' \in Nat /\ crashes' \in Nat /\ failures' \in Nat
  <2>1. rewards' \in {rewards, rewards + 1} /\ crashes' \in {crashes, crashes + 1}
        /\ failures' \in {failures, failures + 1}
    BY DEF Next, FindCartRow, WriteCartRow, AddFails, RemoveCartItem, FindByKey, ReadCart, Refuse,
           PlaceOrder, ClearCart, CountOrders, RewardReferrer, CheckoutFails, Crash, vars, bounds
  <2> QED
    BY <1>k, <2>1 DEF Shop
<1>1. CASE UNCHANGED <<opening, balance, orders>>
  <2>1. Shop'
    BY <1>k, <1>r, <1>1 DEF Shop
  <2>2. ChargedWhatWasOrdered'
    BY <1>k, <1>1 DEF ChargedWhatWasOrdered, Placed, NoOrder, EmptyCart, Total
  <2> QED
    BY <1>k, <2>1, <2>2, NextBasket, NextCheckouts, TypeParts DEF SpendInv, TypeOK, Shop, Basket, Request, Rows
<1>2. ASSUME NEW p \in Checkouts,
             checkout[p].pc = "place", balance >= Total(Lines(p)),
             orders' = [orders EXCEPT ![p] = Order(p)],
             balance' = balance - Total(Lines(p)),
             UNCHANGED opening
      PROVE  SpendInv'
  <2> DEFINE total == Total(Lines(p))
             old == [q \in Checkouts |-> orders[q].total]
             new == [q \in Checkouts |-> orders'[q].total]
  <2>1. Lines(p) \in Rows /\ total \in Nat
    <3>1. Lines(p) \in Rows
      BY <1>k, TypeParts DEF Lines, Request
    <3> QED
      BY <3>1, TotalType
  <2>2. orders \in [Checkouts -> [lines : Rows, total : Nat]] /\ balance \in Nat /\ opening \in Nat
    BY <1>k DEF Shop
  <2>3. Order(p) \in [lines : Rows, total : Nat] /\ Order(p).total = total /\ Order(p).lines = Lines(p)
    BY <2>1 DEF Order
  <2>4. /\ orders' \in [Checkouts -> [lines : Rows, total : Nat]]
        /\ orders'[p] = Order(p) /\ \A q \in Checkouts \ {p} : orders'[q] = orders[q]
    BY <1>2, <2>2, <2>3
  <2>5. orders[p] = NoOrder
    BY <1>k, <1>2 DEF KeyInv, Fits, Position, Placed
  <2>6. /\ old \in [Checkouts -> Nat] /\ new \in [Checkouts -> Nat]
        /\ old \in [Checkouts -> Int] /\ new \in [Checkouts -> Int]
        /\ old[p] = 0 /\ new[p] = total /\ \A q \in Checkouts \ {p} : new[q] = old[q]
    BY <2>2, <2>3, <2>4, <2>5 DEF NoOrder
  <2>7. balance = opening - SumFunction(old)
    BY <1>k DEF ChargedWhatWasOrdered
  <2>8. (balance = opening - SumFunction(old))' <=> balance' = opening' - SumFunction(new)
    OBVIOUS
  <2> HIDE DEF old, new, total
  <2>9. SumFunction(new) = SumFunction(old) + new[p] - old[p] /\ SumFunction(old) \in Nat
    BY <2>6, SumChanges, SumType
  <2>10. balance' = opening' - SumFunction(new) /\ balance' \in Nat
    BY <1>2, <2>1, <2>2, <2>6, <2>7, <2>9 DEF total
  <2>11. \A q \in Placed' : orders'[q].total = Total(orders'[q].lines)
    BY <1>k, <2>3, <2>4 DEF ChargedWhatWasOrdered, Placed, NoOrder, EmptyCart, total
  <2>12. (\A q \in Placed : orders[q].total = Total(orders[q].lines))'
    BY <2>11 DEF Total
  <2>13. ChargedWhatWasOrdered'
    BY <2>10, <2>12 DEF ChargedWhatWasOrdered, new
  <2>14. Shop'
    BY <1>r, <1>2, <2>2, <2>4, <2>10 DEF Shop, Rows
  <2> QED
    BY <1>k, <2>13, <2>14, NextBasket, NextCheckouts, TypeParts DEF SpendInv, TypeOK, Shop, Basket, Request, Rows
<1> QED
  BY <1>1, <1>2, PurchaseOrNot

LEMMA InitSpends == Init => SpendInv
<1> SUFFICES ASSUME Init PROVE SpendInv
  OBVIOUS
<1> USE CheckoutAssumption
<1>1. KeyInv
  BY InitKeys
<1>2. TypeOK
  BY DEF Init, TypeOK, EmptyCart, NoOrder
<1>3. Placed = {}
  BY DEF Init, Placed
<1> DEFINE totals == [p \in Checkouts |-> orders[p].total]
<1>4. totals \in [Checkouts -> {0}]
  BY DEF Init, NoOrder
<1>5. balance = opening /\ opening \in Nat
  BY DEF Init
<1> HIDE DEF totals
<1>6. SumFunction(totals) = 0
  BY <1>4, SumOfZeros
<1>7. balance = opening - SumFunction(totals)
  BY <1>5, <1>6
<1> QED
  BY <1>1, <1>2, <1>3, <1>7 DEF SpendInv, ChargedWhatWasOrdered, totals

\* The types of the model: nobody's coins go below zero, no row holds more than it may.
THEOREM TypesHold == Spec => []TypeOK
<1>1. SpendInv => TypeOK
  BY DEF SpendInv
<1> QED
  BY <1>1, InitSpends, NextSpends, PTL DEF Spec

(***************************************************************************)
(* The coins that left the balance are what the orders' rows cost, order   *)
(* by order, for any carts, prices, numbers of checkouts, crashes and      *)
(* errors (checkout.ts, placeOrder).                                       *)
(***************************************************************************)
THEOREM ChargedAsOrdered == Spec => []ChargedWhatWasOrdered
<1>1. SpendInv => ChargedWhatWasOrdered
  BY DEF SpendInv
<1> QED
  BY <1>1, InitSpends, NextSpends, PTL DEF Spec

================================================================================
