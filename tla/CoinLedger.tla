------------------------------ MODULE CoinLedger ------------------------------
(***************************************************************************)
(* The coin writes of apps/api/src/lib/repositories/postgres.ts, statement *)
(* by statement: each is a transaction that locks the user's row, reads    *)
(* the latest ledger entry, and appends an entry with the new balance;     *)
(* store purchases also claim a row of iap_receipts, unique for each       *)
(* transaction.  Transactions run at READ COMMITTED, wait for each other's *)
(* row locks and index entries, and may be rolled back at any point: an    *)
(* error, a lost connection, or the server breaking a deadlock.            *)
(*                                                                         *)
(* A ledger entry's "at" is its created_at; entries are listed in the      *)
(* order they were committed.                                              *)
(***************************************************************************)
EXTENDS Integers, Sequences

CONSTANTS
  Users, Purchases, Worth, Grants, Costs, Coins,   \* as in CoinWallet
  NoOne,        \* no user, or no transaction
  Txs,          \* database transactions running at a time
  MaxClock      \* bound on the database clock

ASSUME LedgerAssumption ==
  /\ NoOne \notin Users /\ NoOne \notin Txs /\ NoOne \notin Purchases
  /\ Worth \in [Purchases -> Nat \ {0}]
  /\ Grants \subseteq Nat /\ Costs \subseteq Nat
  /\ Coins \in Nat /\ MaxClock \in Nat

VARIABLES
  clock,      \* the database clock: read by every transaction's start and every insert
  cache,      \* users.coin_balance_cache
  ledger,     \* coin_ledger, per user
  receipts,   \* iap_receipts
  lock,       \* the transaction that holds the user's row lock
  claim,      \* the transaction with an uncommitted row for the purchase
  tx          \* the transactions

vars == <<clock, cache, ledger, receipts, lock, claim, tx>>
stored == <<cache, ledger, receipts>>

NoReceipt == [owner |-> NoOne, granted |-> 0, refunded |-> FALSE, shortfall |-> 0]

\* What a transaction is to write: a ledger entry of delta (none if "entry" is FALSE) for the
\* user, and the receipt of the purchase.
NoWrite == [user |-> NoOne, entry |-> FALSE, delta |-> 0, after |-> 0, at |-> 0,
            purchase |-> NoOne, receipt |-> NoReceipt]

NoTx == [pc |-> "idle", kind |-> "none", user |-> NoOne, purchase |-> NoOne,
         amount |-> 0, began |-> 0, balance |-> 0, write |-> NoWrite]

Init ==
  /\ clock = 0
  /\ cache \in [Users -> 0 .. Coins]
  /\ ledger = [u \in Users |-> <<>>]
  /\ receipts = [t \in Purchases |-> NoReceipt]
  /\ lock = [u \in Users |-> NoOne]
  /\ claim = [t \in Purchases |-> NoOne]
  /\ tx = [p \in Txs |-> NoTx]

(***************************************************************************)
(* lockedCoinBalance: the row lock, then the entry with the latest         *)
(* created_at; the cache for a user without entries.                       *)
(***************************************************************************)
Latest(u) ==
  CHOOSE i \in DOMAIN ledger[u] : \A k \in DOMAIN ledger[u] : ledger[u][k].at <= ledger[u][i].at

Balance(u) == IF ledger[u] = <<>> THEN cache[u] ELSE ledger[u][Latest(u)].after

\* A plain select: nobody waits.
GrantedUnlocked(p, u) == TRUE

Granted(p, u) == lock[u] \in {NoOne, p}

(***************************************************************************)
(* appendCoinLedger's created_at: the time of the insert.                  *)
(***************************************************************************)
\* now(): the transaction's start.
StampAtStart(p) == tx[p].began

Stamp(p) == clock

Begin(p, request) ==
  /\ tx[p].pc = "idle"
  /\ clock < MaxClock
  /\ clock' = clock + 1
  /\ tx' = [tx EXCEPT ![p] = [request EXCEPT !.began = clock]]
  /\ UNCHANGED <<stored, lock, claim>>

\* grantCoins (and spendCoins), placeOrder, rushOrderToExpress, unlockOrderRenders, purchaseRender
StartGrant(p, u, n) ==
  Begin(p, [NoTx EXCEPT !.pc = "lock", !.kind = "move", !.user = u, !.amount = n])

StartSpend(p, u, n) ==
  Begin(p, [NoTx EXCEPT !.pc = "lock", !.kind = "move", !.user = u, !.amount = -n])

\* creditCoinPurchase, from the app's call and from the store's notification
StartCredit(p, u, t) ==
  Begin(p, [NoTx EXCEPT !.pc = "lock", !.kind = "credit", !.user = u, !.purchase = t])

\* refundCoinPurchase; the user is not known for every notification
StartRefund(p, u, t) ==
  Begin(p, [NoTx EXCEPT !.pc = "find", !.kind = "refund", !.user = u, !.purchase = t])

LockUser(p) ==
  LET u == tx[p].user
  IN  /\ tx[p].pc = "lock"
      /\ Granted(p, u)
      /\ lock' = [lock EXCEPT ![u] = p]
      /\ tx' = [tx EXCEPT ![p].pc = "write", ![p].balance = Balance(u)]
      /\ UNCHANGED <<clock, stored, claim>>

(***************************************************************************)
(* The end of a transaction, with or without its writes.                   *)
(***************************************************************************)
Release(p) ==
  /\ lock' = [u \in Users |-> IF lock[u] = p THEN NoOne ELSE lock[u]]
  /\ claim' = [t \in Purchases |-> IF claim[t] = p THEN NoOne ELSE claim[t]]
  /\ tx' = [tx EXCEPT ![p] = NoTx]

End(p) == Release(p) /\ UNCHANGED <<clock, stored>>

Draft(p, write) == tx' = [tx EXCEPT ![p].pc = "commit", ![p].write = write]

Entry(p, u, delta) ==
  [NoWrite EXCEPT !.user = u, !.entry = TRUE, !.delta = delta,
                  !.after = tx[p].balance + delta, !.at = Stamp(p)]

\* The time passes that an insert's stamp is read at.
Tock == clock < MaxClock /\ clock' = clock + 1

\* InsufficientCoinsError rolls the transaction back.
MoveCoins(p) ==
  /\ tx[p].pc = "write" /\ tx[p].kind = "move"
  /\ IF tx[p].balance + tx[p].amount < 0
       THEN End(p)
       ELSE /\ Tock
            /\ Draft(p, Entry(p, tx[p].user, tx[p].amount))
            /\ UNCHANGED <<stored, lock, claim>>

(***************************************************************************)
(* The insert ... on conflict do nothing: it waits for a claim that is not *)
(* committed yet, inserts if there is no row, and does nothing otherwise.  *)
(***************************************************************************)
Claim(p) ==
  LET t == tx[p].purchase
  IN  /\ tx[p].pc = "write" /\ tx[p].kind # "move"
      /\ claim[t] = NoOne
      /\ IF receipts[t] = NoReceipt
           THEN /\ claim' = [claim EXCEPT ![t] = p]
                /\ tx' = [tx EXCEPT ![p].pc = "claimed"]
           ELSE /\ tx' = [tx EXCEPT ![p].pc = "found"]
                /\ UNCHANGED claim
      /\ UNCHANGED <<clock, stored, lock>>

CreditPurchase(p) ==
  LET t == tx[p].purchase
  IN  /\ tx[p].pc = "claimed" /\ tx[p].kind = "credit"
      /\ Tock
      /\ Draft(p, [Entry(p, tx[p].user, Worth[t]) EXCEPT
                     !.purchase = t,
                     !.receipt = [NoReceipt EXCEPT !.owner = tx[p].user, !.granted = Worth[t]]])
      /\ UNCHANGED <<stored, lock, claim>>

\* already_granted, other_user
CreditRepeated(p) ==
  /\ tx[p].pc = "found" /\ tx[p].kind = "credit"
  /\ End(p)

(***************************************************************************)
(* refundCoinPurchase                                                      *)
(***************************************************************************)
FindPurchase(p) ==
  LET t == tx[p].purchase
  IN  /\ tx[p].pc = "find"
      /\ IF receipts[t] # NoReceipt
           THEN /\ tx' = [tx EXCEPT ![p].pc = "owner"]
                /\ UNCHANGED <<clock, stored, lock, claim>>
         ELSE IF tx[p].user = NoOne
           THEN End(p)
         ELSE /\ tx' = [tx EXCEPT ![p].pc = "lock"]
              /\ UNCHANGED <<clock, stored, lock, claim>>

\* Remember the refund so a grant that arrives later credits nothing.
Tombstone(p) ==
  LET t == tx[p].purchase
  IN  /\ tx[p].pc = "claimed" /\ tx[p].kind = "refund"
      /\ Draft(p, [NoWrite EXCEPT
                     !.purchase = t,
                     !.receipt = [NoReceipt EXCEPT !.owner = tx[p].user, !.refunded = TRUE]])
      /\ UNCHANGED <<clock, stored, lock, claim>>

\* A grant was committed in the meantime.
RefindPurchase(p) ==
  /\ tx[p].pc = "found" /\ tx[p].kind = "refund"
  /\ tx' = [tx EXCEPT ![p].pc = "owner"]
  /\ UNCHANGED <<clock, stored, lock, claim>>

LockOwner(p) ==
  LET u == receipts[tx[p].purchase].owner
  IN  /\ tx[p].pc = "owner"
      /\ Granted(p, u)
      /\ lock' = [lock EXCEPT ![u] = p]
      /\ tx' = [tx EXCEPT ![p].pc = "refund", ![p].balance = Balance(u)]
      /\ UNCHANGED <<clock, stored, claim>>

\* The refunded_at read before the locks.
AlreadyRefundedUnchecked(t) == FALSE

AlreadyRefunded(t) == receipts[t].refunded

\* The whole pack, whatever the balance.
DebitedInFull(granted, available) == granted

Debited(granted, available) == IF granted <= available THEN granted ELSE available

RefundPurchase(p) ==
  LET t == tx[p].purchase
      row == receipts[t]
      debited == Debited(row.granted, tx[p].balance)
      receipt == [row EXCEPT !.refunded = TRUE, !.shortfall = row.granted - debited]
  IN  /\ tx[p].pc = "refund"
      /\ IF AlreadyRefunded(t)
           THEN End(p)
         ELSE IF debited > 0
           THEN /\ Tock
                /\ Draft(p, [Entry(p, row.owner, -debited) EXCEPT !.purchase = t, !.receipt = receipt])
                /\ UNCHANGED <<stored, lock, claim>>
         ELSE /\ Draft(p, [NoWrite EXCEPT !.purchase = t, !.receipt = receipt])
              /\ UNCHANGED <<clock, stored, lock, claim>>

Commit(p) ==
  LET w == tx[p].write
  IN  /\ tx[p].pc = "commit"
      /\ IF w.entry
           THEN /\ ledger' = [ledger EXCEPT ![w.user] = Append(@,
                     [delta |-> w.delta, after |-> w.after, at |-> w.at, purchase |-> w.purchase])]
                /\ cache' = [cache EXCEPT ![w.user] = w.after]
           ELSE UNCHANGED <<ledger, cache>>
      /\ receipts' = [t \in Purchases |-> IF t = w.purchase THEN w.receipt ELSE receipts[t]]
      /\ Release(p)
      /\ UNCHANGED clock

Rollback(p) ==
  /\ tx[p].pc # "idle"
  /\ End(p)

--------------------------------------------------------------------------------
Next ==
  \E p \in Txs :
    \/ \E u \in Users : \/ \E n \in Grants : StartGrant(p, u, n)
                        \/ \E n \in Costs : StartSpend(p, u, n)
                        \/ \E t \in Purchases : StartCredit(p, u, t)
    \/ \E u \in Users \cup {NoOne}, t \in Purchases : StartRefund(p, u, t)
    \/ LockUser(p) \/ MoveCoins(p)
    \/ Claim(p) \/ CreditPurchase(p) \/ CreditRepeated(p)
    \/ FindPurchase(p) \/ Tombstone(p) \/ RefindPurchase(p) \/ LockOwner(p) \/ RefundPurchase(p)
    \/ Commit(p) \/ Rollback(p)

Spec == Init /\ [][Next]_vars

--------------------------------------------------------------------------------
Receipts ==
  [owner : Users \cup {NoOne}, granted : Nat, refunded : BOOLEAN, shortfall : Nat]

Entries == [delta : Int, after : Nat, at : Nat, purchase : Purchases \cup {NoOne}]

Writes ==
  [user : Users \cup {NoOne}, entry : BOOLEAN, delta : Int, after : Nat, at : Nat,
   purchase : Purchases \cup {NoOne}, receipt : Receipts]

Transactions ==
  [pc : {"idle", "lock", "write", "claimed", "found", "find", "owner", "refund", "commit"},
   kind : {"none", "move", "credit", "refund"}, user : Users \cup {NoOne},
   purchase : Purchases \cup {NoOne}, amount : Int, began : Nat, balance : Nat, write : Writes]

\* The types of the variables; no balance is negative.
TypeOK ==
  /\ clock \in Nat
  /\ cache \in [Users -> Nat]
  /\ ledger \in [Users -> Seq(Entries)]
  /\ receipts \in [Purchases -> Receipts]
  /\ lock \in [Users -> Txs \cup {NoOne}]
  /\ claim \in [Purchases -> Txs \cup {NoOne}]
  /\ tx \in [Txs -> Transactions]

(***************************************************************************)
(* Each user's entries form a chain: every balance is the one before plus  *)
(* the delta, and the cache is the last of them, though transactions       *)
(* start, insert and commit in different orders (postgres.ts,              *)
(* appendCoinLedger: "that keeps 'latest entry' in the order balances were *)
(* applied").                                                              *)
(***************************************************************************)
LedgerChains ==
  \A u \in Users :
    /\ cache[u] = Balance(u)
    /\ \A i \in 2 .. Len(ledger[u]) :
         ledger[u][i].after = ledger[u][i - 1].after + ledger[u][i].delta

\* The user's entries about a purchase, and whether they are what its receipt accounts for.
About(u, t) == {i \in DOMAIN ledger[u] : ledger[u][i].purchase = t}

Settled(u, t) ==
  LET r == receipts[t]
      credited == {i \in About(u, t) : ledger[u][i].delta > 0}
      debited == {i \in About(u, t) : ledger[u][i].delta < 0}
      taken == r.granted - r.shortfall
  IN  IF u # r.owner \/ r.granted = 0
        THEN About(u, t) = {}
        ELSE /\ \E i \in credited : credited = {i} /\ ledger[u][i].delta = r.granted
             /\ IF r.refunded /\ taken > 0
                  THEN \E i \in debited : debited = {i} /\ ledger[u][i].delta = -taken
                  ELSE debited = {}

(***************************************************************************)
(* The entries about a purchase are those its receipt accounts for: one    *)
(* credit, to the owner, and after a refund one debit of all but the       *)
(* shortfall; nothing for a purchase refunded before it was credited       *)
(* (types.ts, creditCoinPurchase and refundCoinPurchase).                  *)
(***************************************************************************)
PurchasesSettle == \A u \in Users, t \in Purchases : Settled(u, t)

(***************************************************************************)
(* The transactions together behave as the indivisible steps of            *)
(* CoinWallet: a transaction takes effect when it commits, and changes     *)
(* nothing otherwise.                                                      *)
(***************************************************************************)
Wallet == INSTANCE CoinWallet WITH balance <- [u \in Users |-> Balance(u)]
ImplementsWallet == Wallet!Spec

================================================================================
