------------------------------ MODULE CoinWallet ------------------------------
(***************************************************************************)
(* What the coin ledger promises: a balance per user that changes in       *)
(* indivisible steps and never goes below zero, a store purchase credited  *)
(* once, to one user, and taken back once, as far as the balance allows.   *)
(* CoinLedger is shown to implement this module with concurrent database   *)
(* transactions.                                                           *)
(***************************************************************************)
EXTENDS Integers

CONSTANTS
  Users,
  Purchases,   \* store transactions: a pair of a store and a transaction id
  Worth,       \* coins of the pack a purchase buys
  Grants,      \* sizes of grants: onboarding, streaks, referrals, ...
  Costs,       \* sizes of spends: orders, rushes, unlocks, renders
  NoOne,       \* no user
  Coins        \* bound on a user's coins at the start

VARIABLES
  balance,     \* coins of each user
  receipts     \* iap_receipts: what became of each purchase

NoReceipt == [owner |-> NoOne, granted |-> 0, refunded |-> FALSE, shortfall |-> 0]

Init ==
  /\ balance \in [Users -> 0 .. Coins]
  /\ receipts = [t \in Purchases |-> NoReceipt]

Grant(u, n) ==
  /\ balance' = [balance EXCEPT ![u] = @ + n]
  /\ UNCHANGED receipts

Spend(u, n) ==
  /\ balance[u] >= n
  /\ balance' = [balance EXCEPT ![u] = @ - n]
  /\ UNCHANGED receipts

Credit(u, t) ==
  /\ receipts[t] = NoReceipt
  /\ balance' = [balance EXCEPT ![u] = @ + Worth[t]]
  /\ receipts' = [receipts EXCEPT ![t].owner = u, ![t].granted = Worth[t]]

\* A refund that arrives before any credit: there will be none.
Forestall(u, t) ==
  /\ receipts[t] = NoReceipt
  /\ receipts' = [receipts EXCEPT ![t].owner = u, ![t].refunded = TRUE]
  /\ UNCHANGED balance

Refund(t) ==
  LET u == receipts[t].owner
      taken == IF receipts[t].granted <= balance[u] THEN receipts[t].granted ELSE balance[u]
  IN  /\ u # NoOne
      /\ ~receipts[t].refunded
      /\ balance' = [balance EXCEPT ![u] = @ - taken]
      /\ receipts' = [receipts EXCEPT ![t].refunded = TRUE,
                                      ![t].shortfall = receipts[t].granted - taken]

Next ==
  \/ \E u \in Users : \/ \E n \in Grants : Grant(u, n)
                      \/ \E n \in Costs : Spend(u, n)
                      \/ \E t \in Purchases : Credit(u, t) \/ Forestall(u, t)
  \/ \E t \in Purchases : Refund(t)

Spec == Init /\ [][Next]_<<balance, receipts>>

================================================================================
