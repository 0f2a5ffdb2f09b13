----------------------------- MODULE MCCoinLedger -----------------------------
(***************************************************************************)
(* A small instance of CoinLedger.                                         *)
(***************************************************************************)
EXTENDS CoinLedger, TLC

\* A pack is worth more than a spend, less than two.
MCWorth == [t \in Purchases |-> 3]

\* Users, purchases and transactions are interchangeable.
LedgerSymmetry == Permutations(Users) \cup Permutations(Purchases) \cup Permutations(Txs)

================================================================================
