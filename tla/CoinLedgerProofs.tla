---------------------------- MODULE CoinLedgerProofs ----------------------------
(***************************************************************************)
(* The coin ledger's types, its chains of entries, that its transactions   *)
(* implement CoinWallet, and that purchases are credited and refunded     *)
(* once, for every set of users, purchases and transactions.               *)
(*                                                                         *)
(* A transaction writes, when it commits, a balance it computed when it    *)
(* held its user's row lock.  LedgerInv says why that balance is still the *)
(* right one: whoever has read a balance holds the lock of its user, and   *)
(* nobody else writes that user's entries meanwhile; an uncommitted claim  *)
(* of a purchase excludes a receipt; an entry's time is read under the     *)
(* lock and so later than that of every entry before it, which makes the   *)
(* latest entry by time the last one.                                      *)
(***************************************************************************)
EXTENDS CoinLedger, TLAPS

(***************************************************************************)
(* Entries are in the order of their times, which are past.                *)
(***************************************************************************)
Ordered ==
  \A u \in Users :
    /\ \A i \in 1 .. Len(ledger[u]) : ledger[u][i].at < clock
    /\ \A i, k \in 1 .. Len(ledger[u]) : i < k => ledger[u][i].at < ledger[u][k].at

\* Each entry's balance is the one before plus the delta; the cache is the last.
Chained ==
  \A u \in Users :
    /\ Len(ledger[u]) > 0 => ledger[u][Len(ledger[u])].after = cache[u]
    /\ \A i \in 2 .. Len(ledger[u]) :
         ledger[u][i].after = ledger[u][i - 1].after + ledger[u][i].delta

\* A receipt has an owner; a claim that is not committed excludes a receipt.
Owned ==
  \A t \in Purchases :
    /\ receipts[t] # NoReceipt => receipts[t].owner \in Users
    /\ claim[t] # NoOne => receipts[t] = NoReceipt

(***************************************************************************)
(* What a transaction is about, and what it holds at each position.        *)
(***************************************************************************)
Purpose(p) ==
  /\ tx[p].kind = "move" => tx[p].amount \in Grants \/ -tx[p].amount \in Costs
  /\ tx[p].kind \in {"credit", "refund"} => tx[p].purchase \in Purchases
  /\ tx[p].pc # "idle" => tx[p].kind # "none"
  /\ tx[p].pc \in {"claimed", "found"} => tx[p].kind # "move"
  /\ tx[p].pc \in {"find", "owner", "refund"} => tx[p].kind = "refund"
  /\ tx[p].pc \in {"lock", "write", "claimed", "found"} => tx[p].user \in Users

Holds(p) ==
  /\ tx[p].pc \in {"write", "claimed", "found"} =>
       lock[tx[p].user] = p /\ tx[p].balance = cache[tx[p].user]
  /\ tx[p].pc = "claimed" => claim[tx[p].purchase] = p
  /\ tx[p].pc \in {"found", "owner", "refund"} => receipts[tx[p].purchase] # NoReceipt
  /\ tx[p].pc = "refund" =>
       LET u == receipts[tx[p].purchase].owner
       IN  lock[u] = p /\ tx[p].balance = cache[u]

(***************************************************************************)
(* What a transaction is about to commit: an entry that continues the      *)
(* chain of a user it has locked, for one of four reasons.                 *)
(***************************************************************************)
Continues(p, w) ==
  /\ w.user \in Users
  /\ lock[w.user] = p
  /\ w.after = cache[w.user] + w.delta
  /\ w.at < clock
  /\ \A i \in 1 .. Len(ledger[w.user]) : ledger[w.user][i].at < w.at

Moves(w) == w.entry /\ w.purchase = NoOne /\ (w.delta \in Grants \/ -w.delta \in Costs)

Credits(p, w) ==
  /\ w.entry /\ w.purchase \in Purchases /\ claim[w.purchase] = p
  /\ w.delta = Worth[w.purchase]
  /\ w.receipt = [owner |-> w.user, granted |-> Worth[w.purchase], refunded |-> FALSE,
                  shortfall |-> 0]

Forestalls(p, w) ==
  /\ ~w.entry /\ w.purchase \in Purchases /\ claim[w.purchase] = p
  /\ w.receipt.owner \in Users
  /\ w.receipt = [owner |-> w.receipt.owner, granted |-> 0, refunded |-> TRUE, shortfall |-> 0]

Refunds(p, w) ==
  LET r == receipts[w.purchase]
      taken == Debited(r.granted, cache[r.owner])
  IN  /\ w.purchase \in Purchases /\ r # NoReceipt
      /\ lock[r.owner] = p
      /\ ~r.refunded
      /\ w.entry <=> taken > 0
      /\ w.entry => w.user = r.owner /\ w.delta = -taken
      /\ w.receipt = [owner |-> r.owner, granted |-> r.granted, refunded |-> TRUE,
                      shortfall |-> r.granted - taken]

Drafted(p) ==
  LET w == tx[p].write
  IN  tx[p].pc = "commit" =>
        /\ w.entry => Continues(p, w)
        /\ Moves(w) \/ Credits(p, w) \/ Forestalls(p, w) \/ Refunds(p, w)

TxInv(p) == Purpose(p) /\ Holds(p) /\ Drafted(p)

LedgerInv ==
  /\ TypeOK
  /\ Ordered
  /\ Chained
  /\ Owned
  /\ \A p \in Txs : TxInv(p)

--------------------------------------------------------------------------------
\* The last of an ordered user's entries is the latest (lockedCoinBalance).
LEMMA LatestIsLast ==
  ASSUME TypeOK, Ordered, NEW u \in Users, Len(ledger[u]) > 0
  PROVE  Latest(u) = Len(ledger[u])
<1> DEFINE n == Len(ledger[u])
<1>1. n \in Nat \ {0} /\ DOMAIN ledger[u] = 1 .. n
  BY DEF TypeOK
<1>2. \A i \in 1 .. n : ledger[u][i].at \in Int
  <2>1. ledger[u] \in Seq(Entries)
    BY DEF TypeOK
  <2>2. \A i \in 1 .. n : ledger[u][i] \in Entries
    BY <2>1, <1>1
  <2> QED
    BY <2>2 DEF Entries
<1>3. \A k \in 1 .. n : ledger[u][k].at <= ledger[u][n].at
  <2> SUFFICES ASSUME NEW k \in 1 .. n PROVE ledger[u][k].at <= ledger[u][n].at
    OBVIOUS
  <2>1. CASE k = n
    BY <2>1, <1>1, <1>2
  <2>2. CASE k < n
    BY <2>2, <1>1, <1>2 DEF Ordered
  <2> QED
    BY <2>1, <2>2, <1>1
<1>4. \A i \in 1 .. n :
        (\A k \in 1 .. n : ledger[u][k].at <= ledger[u][i].at) => i = n
  <2> SUFFICES ASSUME NEW i \in 1 .. n, i # n
               PROVE  ~(ledger[u][n].at <= ledger[u][i].at)
    BY <1>1
  <2>1. ledger[u][i].at < ledger[u][n].at
    BY <1>1 DEF Ordered
  <2> QED
    BY <2>1, <1>1, <1>2
<1> QED
  BY <1>1, <1>3, <1>4 DEF Latest

\* The balance read under the lock is the cached one.
LEMMA BalanceIsCache ==
  ASSUME TypeOK, Ordered, Chained, NEW u \in Users
  PROVE  Balance(u) = cache[u]
<1>1. CASE ledger[u] = <<>>
  BY <1>1 DEF Balance
<1>2. CASE ledger[u] # <<>>
  <2>1. Len(ledger[u]) > 0
    BY <1>2 DEF TypeOK
  <2> QED
    BY <2>1, <1>2, LatestIsLast DEF Balance, Chained
<1> QED
  BY <1>1, <1>2

(***************************************************************************)
(* A transaction keeps what it relies on through another's step, if the    *)
(* step leaves alone the users it has locked and the purchases it claims,  *)
(* and the receipts that name a user it has locked.                        *)
(***************************************************************************)
Spares(q) ==
  /\ tx'[q] = tx[q]
  /\ clock' \in Nat /\ clock <= clock'
  /\ \A u \in Users : lock[u] = q =>
       lock'[u] = q /\ cache'[u] = cache[u] /\ ledger'[u] = ledger[u]
  /\ \A t \in Purchases : claim[t] = q => claim'[t] = q
  /\ \A t \in Purchases : receipts[t] # NoReceipt =>
       /\ receipts'[t] # NoReceipt
       /\ receipts'[t].owner = receipts[t].owner
       /\ lock[receipts[t].owner] = q => receipts'[t] = receipts[t]

\* Nothing about the transaction is lost in a step that spares it.
LEMMA SparedKeeps ==
  ASSUME TypeOK, Owned, NEW q \in Txs, TxInv(q), Spares(q)
  PROVE  TxInv(q)'
<1>1. Purpose(q)'
  BY DEF TxInv, Purpose, Spares
<1>2. Holds(q)'
  <2>1. tx[q].pc \in {"write", "claimed", "found"} => Holds(q)'
    <3>1. tx[q].kind \in {"none", "move", "credit", "refund"}
      BY DEF TypeOK, Transactions
    <3>2. tx[q].pc \in {"claimed", "found"} => tx[q].purchase \in Purchases
      BY <3>1 DEF TxInv, Purpose
    <3>3. tx[q].pc \in {"write", "claimed", "found"} => tx[q].user \in Users
      BY DEF TxInv, Purpose
    <3> QED
      BY <3>2, <3>3 DEF TxInv, Holds, Spares
  <2>2. tx[q].pc \in {"owner", "refund"} => Holds(q)'
    BY DEF TxInv, Purpose, Holds, Spares, Owned
  <2> QED
    BY <2>1, <2>2 DEF Holds, Spares
<1>3. Drafted(q)'
  <2> SUFFICES ASSUME tx[q].pc = "commit" PROVE Drafted(q)'
    BY DEF Drafted, Spares
  <2> DEFINE w == tx[q].write
  <2>1. w' = w
    BY DEF Spares
  <2>2. ASSUME Continues(q, w) PROVE Continues(q, w)'
    <3>1. w.at \in Nat /\ clock \in Nat
      BY DEF TypeOK, Transactions, Writes
    <3> QED
      BY <2>1, <2>2, <3>1 DEF Continues, Spares
  <2>3. ASSUME Moves(w) PROVE Moves(w)'
    BY <2>1, <2>3 DEF Moves
  <2>4. ASSUME Credits(q, w) PROVE Credits(q, w)'
    BY <2>1, <2>4 DEF Credits, Spares
  <2>5. ASSUME Forestalls(q, w) PROVE Forestalls(q, w)'
    BY <2>1, <2>5 DEF Forestalls, Spares
  <2>6. ASSUME Refunds(q, w) PROVE Refunds(q, w)'
    <3> DEFINE r == receipts[w.purchase]
    <3>1. w.purchase \in Purchases /\ r # NoReceipt /\ lock[r.owner] = q
      BY <2>6 DEF Refunds
    <3>2. r.owner \in Users
      BY <3>1 DEF Owned
    <3>3. receipts'[w.purchase] = r
      BY <3>1 DEF Spares
    <3>4. lock'[r.owner] = q /\ cache'[r.owner] = cache[r.owner]
      BY <3>1, <3>2 DEF Spares
    <3> QED
      BY <2>1, <2>6, <3>1, <3>3, <3>4 DEF Refunds, Debited, NoReceipt
  <2> QED
    BY <2>1, <2>2, <2>3, <2>4, <2>5, <2>6 DEF Drafted, TxInv
<1> QED
  BY <1>1, <1>2, <1>3 DEF TxInv

--------------------------------------------------------------------------------
\* A step of p keeps the invariant if it keeps p's part and spares the others.
LEMMA StepKeeps ==
  ASSUME LedgerInv, NEW p \in Txs, TypeOK', Ordered', Chained', Owned', TxInv(p)',
         \A q \in Txs \ {p} : Spares(q)
  PROVE  LedgerInv'
<1>1. ASSUME NEW q \in Txs PROVE TxInv(q)'
  <2>1. CASE q = p
    BY <2>1
  <2>2. CASE q # p
    BY <2>2, SparedKeeps DEF LedgerInv
  <2> QED
    BY <2>1, <2>2
<1> QED
  BY <1>1 DEF LedgerInv

\* What is committed stays in order while only time passes.
LEMMA StoredStays ==
  ASSUME TypeOK, Ordered, Chained, UNCHANGED <<cache, ledger>>, clock' \in Nat, clock <= clock'
  PROVE  Ordered' /\ Chained'
<1>1. Chained'
  BY DEF Chained
<1>2. ASSUME NEW u \in Users, NEW i \in 1 .. Len(ledger[u]) PROVE ledger[u][i].at < clock'
  <2>1. ledger[u] \in Seq(Entries)
    BY DEF TypeOK
  <2>2. ledger[u][i] \in Entries
    BY <2>1
  <2>3. ledger[u][i].at \in Nat
    BY <2>2 DEF Entries
  <2> QED
    BY <2>3 DEF Ordered, TypeOK
<1>3. Ordered'
  BY <1>2 DEF Ordered
<1> QED
  BY <1>1, <1>3

\* A transaction writes nothing before it is drafted.
LEMMA WriteTypes ==
  /\ NoReceipt \in Receipts
  /\ NoWrite \in Writes
  /\ NoTx \in Transactions
BY DEF NoReceipt, NoWrite, NoTx, Receipts, Writes, Transactions

\* A transaction starts with nothing locked and nothing read.
LEMMA BeginKeeps ==
  ASSUME LedgerInv, NEW p \in Txs, NEW request \in Transactions, Begin(p, request),
         request.kind # "none",
         request.kind = "move" =>
           request.pc = "lock" /\ (request.amount \in Grants \/ -request.amount \in Costs),
         request.kind \in {"credit", "refund"} => request.purchase \in Purchases,
         \/ request.pc = "lock" /\ request.user \in Users
         \/ request.pc = "find" /\ request.kind = "refund"
  PROVE  LedgerInv'
<1> USE LedgerAssumption
<1>1. clock \in Nat /\ clock' = clock + 1 /\ UNCHANGED <<cache, ledger, receipts, lock, claim>>
  BY DEF LedgerInv, TypeOK, Begin, stored
<1> DEFINE new == [request EXCEPT !.began = clock]
<1>2. tx' = [tx EXCEPT ![p] = new]
  BY DEF Begin
<1>3. new \in Transactions
  BY <1>1 DEF Transactions
<1>4. tx'[p] = new
  BY <1>2 DEF LedgerInv, TypeOK
<1>5. TypeOK'
  BY <1>1, <1>2, <1>3 DEF LedgerInv, TypeOK
<1>6. TxInv(p)'
  <2>1. /\ tx'[p].pc = request.pc /\ tx'[p].kind = request.kind /\ tx'[p].user = request.user
        /\ tx'[p].purchase = request.purchase /\ tx'[p].amount = request.amount
    BY <1>4 DEF Transactions
  <2> QED
    BY <2>1 DEF TxInv, Purpose, Holds, Drafted
<1>7. \A q \in Txs \ {p} : Spares(q)
  BY <1>1, <1>2 DEF LedgerInv, TypeOK, Spares
<1>8. Ordered' /\ Chained' /\ Owned'
  BY <1>1, StoredStays DEF LedgerInv, Owned
<1> QED
  BY <1>5, <1>6, <1>7, <1>8, StepKeeps

\* Grants, spends, purchases and refunds, as the app and the stores ask for them.
LEMMA StartsKeep ==
  ASSUME LedgerInv, NEW p \in Txs,
         \/ \E u \in Users : \/ \E n \in Grants : StartGrant(p, u, n)
                             \/ \E n \in Costs : StartSpend(p, u, n)
                             \/ \E t \in Purchases : StartCredit(p, u, t)
         \/ \E u \in Users \cup {NoOne}, t \in Purchases : StartRefund(p, u, t)
  PROVE  LedgerInv'
<1> USE LedgerAssumption, WriteTypes
<1>1. ASSUME NEW u \in Users, NEW n \in Grants, StartGrant(p, u, n) PROVE LedgerInv'
  <2> DEFINE r == [NoTx EXCEPT !.pc = "lock", !.kind = "move", !.user = u, !.amount = n]
  <2>1. r \in Transactions
    <3>1. n \in Int /\ -n \in Int
      BY LedgerAssumption
    <3> QED
      BY <3>1 DEF Transactions, NoTx
  <2>2. r.pc = "lock" /\ r.kind = "move" /\ r.user = u /\ r.amount = n
    BY DEF NoTx
  <2>3. Begin(p, r)
    BY <1>1 DEF StartGrant
  <2> HIDE DEF r
  <2> QED
    BY <2>1, <2>2, <2>3, BeginKeeps
<1>2. ASSUME NEW u \in Users, NEW n \in Costs, StartSpend(p, u, n) PROVE LedgerInv'
  <2> DEFINE r == [NoTx EXCEPT !.pc = "lock", !.kind = "move", !.user = u, !.amount = -n]
  <2>1. r \in Transactions
    <3>1. n \in Int /\ -n \in Int
      BY LedgerAssumption
    <3> QED
      BY <3>1 DEF Transactions, NoTx
  <2>2. r.pc = "lock" /\ r.kind = "move" /\ r.user = u /\ r.amount = -n
    BY DEF NoTx
  <2>3. Begin(p, r)
    BY <1>2 DEF StartSpend
  <2>4. -r.amount \in Costs
    BY <2>2
  <2> HIDE DEF r
  <2> QED
    BY <2>1, <2>2, <2>3, <2>4, BeginKeeps
<1>3. ASSUME NEW u \in Users, NEW t \in Purchases, StartCredit(p, u, t) PROVE LedgerInv'
  <2> DEFINE r == [NoTx EXCEPT !.pc = "lock", !.kind = "credit", !.user = u, !.purchase = t]
  <2>1. r \in Transactions
    BY DEF Transactions, NoTx
  <2>2. r.pc = "lock" /\ r.kind = "credit" /\ r.user = u /\ r.purchase = t
    BY DEF NoTx
  <2>3. Begin(p, r)
    BY <1>3 DEF StartCredit
  <2> HIDE DEF r
  <2> QED
    BY <2>1, <2>2, <2>3, BeginKeeps
<1>4. ASSUME NEW u \in Users \cup {NoOne}, NEW t \in Purchases, StartRefund(p, u, t)
      PROVE  LedgerInv'
  <2> DEFINE r == [NoTx EXCEPT !.pc = "find", !.kind = "refund", !.user = u, !.purchase = t]
  <2>1. r \in Transactions
    BY DEF Transactions, NoTx
  <2>2. r.pc = "find" /\ r.kind = "refund" /\ r.user = u /\ r.purchase = t
    BY DEF NoTx
  <2>3. Begin(p, r)
    BY <1>4 DEF StartRefund
  <2> HIDE DEF r
  <2> QED
    BY <2>1, <2>2, <2>3, BeginKeeps
<1> QED
  BY <1>1, <1>2, <1>3, <1>4

\* A balance is read into a transaction; the rest of it stays.
LEMMA ReadInto ==
  ASSUME NEW r \in Transactions, NEW pos, NEW b
  PROVE  LET s == [r EXCEPT !.pc = pos, !.balance = b]
         IN  /\ s.pc = pos /\ s.balance = b
             /\ s.kind = r.kind /\ s.user = r.user /\ s.purchase = r.purchase
             /\ s.amount = r.amount
BY DEF Transactions

\* A lock that nobody else holds is taken together with the balance.
LEMMA LockKeeps ==
  ASSUME LedgerInv, NEW p \in Txs, NEW u \in Users, NEW pos, pos \in {"write", "refund"},
         Granted(p, u),
         lock' = [lock EXCEPT ![u] = p],
         tx' = [tx EXCEPT ![p].pc = pos, ![p].balance = Balance(u)],
         UNCHANGED <<clock, stored, claim>>,
         pos = "write" => tx[p].pc = "lock" /\ tx[p].user = u,
         pos = "refund" => tx[p].pc = "owner" /\ receipts[tx[p].purchase].owner = u
  PROVE  LedgerInv'
<1> USE LedgerAssumption
<1>1. clock \in Nat /\ UNCHANGED <<clock, cache, ledger, receipts, claim>>
  BY DEF LedgerInv, TypeOK, stored
<1>2. Balance(u) = cache[u] /\ cache[u] \in Nat
  BY BalanceIsCache DEF LedgerInv, TypeOK
<1>3. tx[p] \in Transactions
  BY DEF LedgerInv, TypeOK
<1>4. tx' = [tx EXCEPT ![p] = [tx[p] EXCEPT !.pc = pos, !.balance = cache[u]]]
  BY <1>2
<1>5. /\ tx'[p].pc = pos /\ tx'[p].kind = tx[p].kind /\ tx'[p].user = tx[p].user
      /\ tx'[p].purchase = tx[p].purchase /\ tx'[p].amount = tx[p].amount
      /\ tx'[p].balance = cache[u]
      /\ lock'[u] = p
  <2> DEFINE s == [tx[p] EXCEPT !.pc = pos, !.balance = cache[u]]
  <2>1. tx'[p] = s
    BY <1>4 DEF LedgerInv, TypeOK
  <2>2. lock'[u] = p
    BY DEF LedgerInv, TypeOK
  <2>3. /\ s.pc = pos /\ s.balance = cache[u]
        /\ s.kind = tx[p].kind /\ s.user = tx[p].user /\ s.purchase = tx[p].purchase
        /\ s.amount = tx[p].amount
    BY <1>3, ReadInto
  <2> HIDE DEF s
  <2> QED
    BY <2>1, <2>2, <2>3
<1>6. [tx[p] EXCEPT !.pc = pos, !.balance = cache[u]] \in Transactions
  BY <1>2, <1>3 DEF Transactions
<1>7. TypeOK'
  BY <1>1, <1>4, <1>6, ZenonT(30) DEF LedgerInv, TypeOK
<1>8. TxInv(p)'
  <2>1. Purpose(p)'
    BY <1>5 DEF LedgerInv, TxInv, Purpose
  <2>2. Holds(p)'
    <3>1. CASE pos = "write"
      BY <1>1, <1>5, <3>1 DEF Holds
    <3>2. CASE pos = "refund"
      BY <1>1, <1>5, <3>2 DEF LedgerInv, TxInv, Holds, NoReceipt
    <3> QED
      BY <3>1, <3>2
  <2>3. Drafted(p)'
    BY <1>5 DEF Drafted
  <2> QED
    BY <2>1, <2>2, <2>3 DEF TxInv
<1>9. \A q \in Txs \ {p} : Spares(q)
  BY <1>1, <1>4 DEF LedgerInv, TypeOK, Spares, Granted
<1>10. Ordered' /\ Chained' /\ Owned'
  BY <1>1, StoredStays DEF LedgerInv, Owned
<1> QED
  BY <1>7, <1>8, <1>9, <1>10, StepKeeps

\* lockedCoinBalance, for the user of the request
LEMMA LockUserKeeps ==
  ASSUME LedgerInv, NEW p \in Txs, LockUser(p)
  PROVE  LedgerInv'
<1> DEFINE u == tx[p].user
<1>1. u \in Users
  BY DEF LedgerInv, TxInv, Purpose, LockUser
<1> QED
  BY <1>1, LockKeeps DEF LockUser

\* lockedCoinBalance, for the owner of the receipt
LEMMA LockOwnerKeeps ==
  ASSUME LedgerInv, NEW p \in Txs, LockOwner(p)
  PROVE  LedgerInv'
<1> DEFINE t == tx[p].purchase
           u == receipts[t].owner
<1>1. t \in Purchases /\ receipts[t] # NoReceipt
  BY DEF LedgerInv, TxInv, Purpose, Holds, LockOwner
<1>2. u \in Users
  BY <1>1 DEF LedgerInv, Owned
<1> QED
  BY <1>2, LockKeeps DEF LockOwner

\* Only the position of a transaction moves, and perhaps its claim.
LEMMA Moved ==
  ASSUME NEW r \in Transactions, NEW pos
  PROVE  LET s == [r EXCEPT !.pc = pos]
         IN  /\ s.pc = pos /\ s.balance = r.balance
             /\ s.kind = r.kind /\ s.user = r.user /\ s.purchase = r.purchase
             /\ s.amount = r.amount
BY DEF Transactions

\* Steps of a transaction between its locks and its writes.
LEMMA PositionKeeps ==
  ASSUME LedgerInv, NEW p \in Txs, NEW pos,
         UNCHANGED <<clock, stored, lock>>,
         tx' = [tx EXCEPT ![p].pc = pos],
         \/ /\ pos = "claimed"
            /\ tx[p].pc = "write" /\ tx[p].kind # "move"
            /\ claim[tx[p].purchase] = NoOne /\ receipts[tx[p].purchase] = NoReceipt
            /\ claim' = [claim EXCEPT ![tx[p].purchase] = p]
         \/ /\ pos = "found"
            /\ tx[p].pc = "write" /\ tx[p].kind # "move"
            /\ receipts[tx[p].purchase] # NoReceipt
            /\ UNCHANGED claim
         \/ /\ pos = "owner"
            /\ tx[p].kind = "refund" /\ receipts[tx[p].purchase] # NoReceipt
            /\ UNCHANGED claim
         \/ /\ pos = "lock"
            /\ tx[p].kind = "refund" /\ tx[p].user \in Users
            /\ UNCHANGED claim
  PROVE  LedgerInv'
<1> USE LedgerAssumption
<1>1. clock \in Nat /\ UNCHANGED <<clock, cache, ledger, receipts, lock>>
  BY DEF LedgerInv, TypeOK, stored
<1>2. tx[p] \in Transactions
  BY DEF LedgerInv, TypeOK
<1>3. /\ tx[p].kind \in {"none", "move", "credit", "refund"}
      /\ tx[p].pc = "write" => tx[p].kind # "none"
  BY <1>2 DEF LedgerInv, TxInv, Purpose, Transactions
<1>4. tx[p].purchase \in Purchases
  BY <1>3 DEF LedgerInv, TxInv, Purpose
<1> DEFINE s == [tx[p] EXCEPT !.pc = pos]
<1>5. tx' = [tx EXCEPT ![p] = s] /\ tx'[p] = s
  BY DEF LedgerInv, TypeOK
<1>6. /\ s.pc = pos /\ s.balance = tx[p].balance
      /\ s.kind = tx[p].kind /\ s.user = tx[p].user /\ s.purchase = tx[p].purchase
      /\ s.amount = tx[p].amount
  BY <1>2, Moved
<1>7. s \in Transactions
  BY <1>2 DEF Transactions
<1> HIDE DEF s
<1>8. TypeOK'
  BY <1>1, <1>5, <1>7, ZenonT(30) DEF LedgerInv, TypeOK
<1>9. TxInv(p)'
  <2>1. Purpose(p)'
    BY <1>3, <1>4, <1>5, <1>6 DEF LedgerInv, TxInv, Purpose
  <2>2. Holds(p)'
    <3>1. pos = "claimed" => claim'[tx[p].purchase] = p
      BY <1>4 DEF LedgerInv, TypeOK
    <3>2. pos \in {"claimed", "found"} =>
            lock[tx[p].user] = p /\ tx[p].balance = cache[tx[p].user]
      BY DEF LedgerInv, TxInv, Holds
    <3>3. pos \in {"found", "owner"} => receipts[tx[p].purchase] # NoReceipt
      OBVIOUS
    <3>4. pos \in {"claimed", "found", "owner", "lock"}
      OBVIOUS
    <3> QED
      BY <1>1, <1>5, <1>6, <3>1, <3>2, <3>3, <3>4 DEF Holds, NoReceipt
  <2>3. Drafted(p)'
    BY <1>5, <1>6 DEF Drafted
  <2> QED
    BY <2>1, <2>2, <2>3 DEF TxInv
<1>10. \A q \in Txs \ {p} : Spares(q)
  BY <1>1, <1>5 DEF LedgerInv, TypeOK, Spares
<1>11. Owned'
  <2>1. CASE UNCHANGED claim
    BY <1>1, <2>1 DEF LedgerInv, Owned
  <2>2. CASE ~UNCHANGED claim
    BY <1>1, <1>4, <2>2 DEF LedgerInv, TypeOK, Owned, NoReceipt
  <2> QED
    BY <2>1, <2>2
<1>12. Ordered' /\ Chained'
  BY <1>1, StoredStays DEF LedgerInv
<1> QED
  BY <1>8, <1>9, <1>10, <1>11, <1>12, StepKeeps

\* What a transaction is to write, replaced; the rest of it stays.
LEMMA WriteInto ==
  ASSUME NEW r \in Transactions, NEW w
  PROVE  LET s == [r EXCEPT !.pc = "commit", !.write = w]
         IN  /\ s.pc = "commit" /\ s.write = w
             /\ s.kind = r.kind /\ s.purchase = r.purchase /\ s.amount = r.amount
BY DEF Transactions

\* A transaction has drafted an entry that continues a chain, for one of the four reasons.
LEMMA DraftKeeps ==
  ASSUME LedgerInv, NEW p \in Txs, NEW w \in Writes, tx[p].pc # "idle",
         Draft(p, w),
         UNCHANGED <<stored, lock, claim>>,
         clock' = clock \/ clock' = clock + 1,
         w.entry => /\ w.user \in Users /\ lock[w.user] = p
                    /\ w.after = cache[w.user] + w.delta
                    /\ w.at = clock /\ clock' = clock + 1,
         Moves(w) \/ Credits(p, w) \/ Forestalls(p, w) \/ Refunds(p, w)
  PROVE  LedgerInv'
<1> USE LedgerAssumption
<1>1. /\ clock \in Nat /\ clock' \in Nat /\ clock <= clock'
      /\ UNCHANGED <<cache, ledger, receipts, lock, claim>>
  BY DEF LedgerInv, TypeOK, stored
<1>2. tx[p] \in Transactions
  BY DEF LedgerInv, TypeOK
<1> DEFINE s == [tx[p] EXCEPT !.pc = "commit", !.write = w]
<1>3. tx' = [tx EXCEPT ![p] = s] /\ tx'[p] = s
  BY DEF LedgerInv, TypeOK, Draft
<1>4. /\ s.pc = "commit" /\ s.write = w
      /\ s.kind = tx[p].kind /\ s.purchase = tx[p].purchase /\ s.amount = tx[p].amount
  BY <1>2, WriteInto
<1>5. s \in Transactions
  BY <1>2 DEF Transactions
<1> HIDE DEF s
<1>6. TypeOK'
  BY <1>1, <1>3, <1>5 DEF LedgerInv, TypeOK
<1>7. TxInv(p)'
  <2>1. Purpose(p)'
    BY <1>3, <1>4 DEF LedgerInv, TxInv, Purpose
  <2>2. Holds(p)'
    BY <1>3, <1>4 DEF Holds
  <2>3. w.entry => Continues(p, w)'
    BY <1>1 DEF Continues, LedgerInv, Ordered
  <2>4. Moves(w)' \/ Credits(p, w)' \/ Forestalls(p, w)' \/ Refunds(p, w)'
    BY <1>1 DEF Moves, Credits, Forestalls, Refunds
  <2>5. Drafted(p)'
    BY <1>3, <1>4, <2>3, <2>4, ZenonT(30) DEF Drafted, Continues, Moves, Credits, Forestalls, Refunds
  <2> QED
    BY <2>1, <2>2, <2>5 DEF TxInv
<1>8. \A q \in Txs \ {p} : Spares(q)
  BY <1>1, <1>3 DEF LedgerInv, TypeOK, Spares
<1>9. Ordered' /\ Chained' /\ Owned'
  BY <1>1, StoredStays DEF LedgerInv, Owned
<1> QED
  BY <1>6, <1>7, <1>8, <1>9, StepKeeps

\* The end of a transaction keeps what the others hold.
LEMMA EndKeeps ==
  ASSUME LedgerInv, NEW p \in Txs, End(p)
  PROVE  LedgerInv'
<1> USE LedgerAssumption
<1>1. clock \in Nat /\ UNCHANGED <<clock, cache, ledger, receipts>>
  BY DEF LedgerInv, TypeOK, End, stored
<1>2. tx' = [tx EXCEPT ![p] = NoTx] /\ tx'[p] = NoTx
  BY DEF LedgerInv, TypeOK, End, Release
<1>3. /\ \A u \in Users : lock'[u] = IF lock[u] = p THEN NoOne ELSE lock[u]
      /\ \A t \in Purchases : claim'[t] = IF claim[t] = p THEN NoOne ELSE claim[t]
  BY DEF End, Release
<1>4. lock' \in [Users -> Txs \cup {NoOne}] /\ claim' \in [Purchases -> Txs \cup {NoOne}]
  BY DEF LedgerInv, TypeOK, End, Release
<1>5. TypeOK'
  BY <1>1, <1>2, <1>4, WriteTypes DEF LedgerInv, TypeOK
<1>6. TxInv(p)'
  BY <1>2 DEF TxInv, Purpose, Holds, Drafted, NoTx
<1>7. \A q \in Txs \ {p} : Spares(q)
  BY <1>1, <1>2, <1>3 DEF LedgerInv, TypeOK, Spares
<1>8. Ordered' /\ Chained' /\ Owned'
  <2>1. Owned'
    BY <1>1, <1>3 DEF LedgerInv, Owned, NoReceipt
  <2> QED
    BY <1>1, <2>1, StoredStays DEF LedgerInv
<1> QED
  BY <1>5, <1>6, <1>7, <1>8, StepKeeps

\* What a ledger entry is to say (appendCoinLedger).
LEMMA EntrySays ==
  ASSUME NEW p \in Txs, NEW u \in Users, NEW delta \in Int,
         tx[p].balance + delta \in Nat, clock \in Nat, NEW e, e = Entry(p, u, delta)
  PROVE  /\ e \in Writes
         /\ e.user = u /\ e.entry /\ e.delta = delta /\ e.after = tx[p].balance + delta
         /\ e.at = clock /\ e.purchase = NoOne
<1>1. NoReceipt \in Receipts
  BY WriteTypes
<1> QED
  BY <1>1 DEF Entry, NoWrite, Stamp, Writes

\* A receipt of a credited purchase, and one of a purchase refunded before any credit.
LEMMA ReceiptSays ==
  ASSUME NEW u \in Users, NEW n \in Nat
  PROVE  /\ [NoReceipt EXCEPT !.owner = u, !.granted = n] =
              [owner |-> u, granted |-> n, refunded |-> FALSE, shortfall |-> 0]
         /\ [NoReceipt EXCEPT !.owner = u, !.refunded = TRUE] =
              [owner |-> u, granted |-> 0, refunded |-> TRUE, shortfall |-> 0]
<1> DEFINE c == [NoReceipt EXCEPT !.owner = u, !.granted = n]
           f == [NoReceipt EXCEPT !.owner = u, !.refunded = TRUE]
<1>1. \A r \in Receipts :
        r = [owner |-> r.owner, granted |-> r.granted, refunded |-> r.refunded,
             shortfall |-> r.shortfall]
  BY DEF Receipts
<1>2. c \in Receipts /\ f \in Receipts
  BY DEF NoReceipt, Receipts
<1>3. c.owner = u /\ c.granted = n /\ c.refunded = FALSE /\ c.shortfall = 0
  BY DEF NoReceipt
<1>4. f.owner = u /\ f.granted = 0 /\ f.refunded = TRUE /\ f.shortfall = 0
  BY DEF NoReceipt
<1> HIDE DEF c, f
<1>5. c = [owner |-> u, granted |-> n, refunded |-> FALSE, shortfall |-> 0]
  BY <1>1, <1>2, <1>3, Zenon
<1>6. f = [owner |-> u, granted |-> 0, refunded |-> TRUE, shortfall |-> 0]
  BY <1>1, <1>2, <1>4, Zenon
<1> QED
  BY <1>5, <1>6 DEF c, f

\* Grants, and spends that the balance covers (grantCoins, spendCoins, placeOrder, ...).
LEMMA MoveCoinsKeeps ==
  ASSUME LedgerInv, NEW p \in Txs, MoveCoins(p)
  PROVE  LedgerInv'
<1> DEFINE u == tx[p].user
           n == tx[p].amount
<1>1. CASE tx[p].balance + n < 0
  BY <1>1, EndKeeps DEF MoveCoins
<1>2. CASE ~(tx[p].balance + n < 0)
  <2> DEFINE w == Entry(p, u, n)
  <2>1. /\ clock \in Nat /\ tx[p].pc = "write" /\ clock' = clock + 1
        /\ Draft(p, w)
        /\ UNCHANGED <<stored, lock, claim>>
    BY <1>2 DEF LedgerInv, TypeOK, MoveCoins, Tock
  <2>2. tx[p].balance \in Nat /\ n \in Int
    BY DEF LedgerInv, TypeOK, Transactions
  <2>3. tx[p].kind = "move"
    BY DEF MoveCoins
  <2>4. /\ u \in Users /\ lock[u] = p /\ tx[p].balance = cache[u]
        /\ n \in Grants \/ -n \in Costs
    BY <2>1, <2>3 DEF LedgerInv, TxInv, Purpose, Holds
  <2>5. tx[p].balance + n \in Nat
    BY <1>2, <2>2
  <2>6. w = Entry(p, u, n)
    OBVIOUS
  <2> HIDE DEF w
  <2>7. /\ w \in Writes
        /\ w.user = u /\ w.entry /\ w.delta = n /\ w.after = tx[p].balance + n
        /\ w.at = clock /\ w.purchase = NoOne
    BY <2>1, <2>2, <2>4, <2>5, <2>6, EntrySays
  <2>8. Moves(w)
    BY <2>4, <2>7 DEF Moves
  <2> QED
    BY <2>1, <2>4, <2>7, <2>8, DraftKeeps
<1> QED
  BY <1>1, <1>2

\* The insert of a receipt, or what it finds.
LEMMA ClaimKeeps ==
  ASSUME LedgerInv, NEW p \in Txs, Claim(p)
  PROVE  LedgerInv'
<1>1. CASE receipts[tx[p].purchase] = NoReceipt
  BY <1>1, PositionKeeps DEF Claim
<1>2. CASE receipts[tx[p].purchase] # NoReceipt
  BY <1>2, PositionKeeps DEF Claim
<1> QED
  BY <1>1, <1>2

\* creditCoinPurchase, after its insert
LEMMA CreditPurchaseKeeps ==
  ASSUME LedgerInv, NEW p \in Txs, CreditPurchase(p)
  PROVE  LedgerInv'
<1> USE LedgerAssumption
<1> DEFINE u == tx[p].user
           t == tx[p].purchase
           e == Entry(p, u, Worth[t])
           r == [NoReceipt EXCEPT !.owner = u, !.granted = Worth[t]]
           w == [e EXCEPT !.purchase = t, !.receipt = r]
<1>1. /\ clock \in Nat /\ tx[p].pc = "claimed" /\ tx[p].kind = "credit" /\ clock' = clock + 1
      /\ Draft(p, w)
      /\ UNCHANGED <<stored, lock, claim>>
  BY DEF LedgerInv, TypeOK, CreditPurchase, Tock
<1>2. /\ t \in Purchases /\ u \in Users
      /\ lock[u] = p /\ claim[t] = p /\ tx[p].balance = cache[u]
  BY <1>1 DEF LedgerInv, TxInv, Purpose, Holds
<1>3. Worth[t] \in Nat /\ cache[u] \in Nat
  BY <1>2 DEF LedgerInv, TypeOK
<1>4. tx[p].balance + Worth[t] \in Nat /\ e = Entry(p, u, Worth[t])
  BY <1>2, <1>3
<1>5. r = [owner |-> u, granted |-> Worth[t], refunded |-> FALSE, shortfall |-> 0]
  BY <1>2, <1>3, ReceiptSays
<1> HIDE DEF e, r
<1>6. r \in Receipts
  BY <1>2, <1>3, <1>5 DEF Receipts
<1>7. /\ e \in Writes
      /\ e.user = u /\ e.entry /\ e.delta = Worth[t]
      /\ e.after = tx[p].balance + Worth[t] /\ e.at = clock
  BY <1>1, <1>2, <1>3, <1>4, EntrySays
<1>8. w = [e EXCEPT !.purchase = t, !.receipt = r]
  OBVIOUS
<1> HIDE DEF w
<1>9. /\ w \in Writes
      /\ w.user = u /\ w.entry /\ w.delta = Worth[t] /\ w.after = cache[u] + Worth[t]
      /\ w.at = clock /\ w.purchase = t /\ w.receipt = r
  BY <1>2, <1>6, <1>7, <1>8 DEF Writes
<1>10. Credits(p, w)
  BY <1>2, <1>5, <1>9 DEF Credits
<1> QED
  BY <1>1, <1>2, <1>9, <1>10, DraftKeeps

\* refundCoinPurchase, when there is no receipt
LEMMA TombstoneKeeps ==
  ASSUME LedgerInv, NEW p \in Txs, Tombstone(p)
  PROVE  LedgerInv'
<1> USE LedgerAssumption
<1> DEFINE u == tx[p].user
           t == tx[p].purchase
           r == [NoReceipt EXCEPT !.owner = u, !.refunded = TRUE]
           w == [NoWrite EXCEPT !.purchase = t, !.receipt = r]
<1>1. /\ tx[p].pc = "claimed" /\ tx[p].kind = "refund" /\ clock' = clock
      /\ Draft(p, w)
      /\ UNCHANGED <<stored, lock, claim>>
  BY DEF Tombstone
<1>2. t \in Purchases /\ u \in Users /\ claim[t] = p
  BY <1>1 DEF LedgerInv, TxInv, Purpose, Holds
<1>3. r = [owner |-> u, granted |-> 0, refunded |-> TRUE, shortfall |-> 0]
  BY <1>2, ReceiptSays
<1> HIDE DEF r
<1>4. r \in Receipts
  BY <1>2, <1>3 DEF Receipts
<1>5. NoWrite \in Writes /\ ~NoWrite.entry
  BY WriteTypes DEF NoWrite
<1>6. w = [NoWrite EXCEPT !.purchase = t, !.receipt = r]
  OBVIOUS
<1> HIDE DEF w
<1>7. w \in Writes /\ ~w.entry /\ w.purchase = t /\ w.receipt = r
  BY <1>2, <1>4, <1>5, <1>6 DEF Writes
<1>8. Forestalls(p, w)
  BY <1>2, <1>3, <1>7 DEF Forestalls
<1> QED
  BY <1>1, <1>7, <1>8, DraftKeeps

\* refundCoinPurchase, up to its locks
LEMMA FindPurchaseKeeps ==
  ASSUME LedgerInv, NEW p \in Txs, FindPurchase(p)
  PROVE  LedgerInv'
<1>1. tx[p].pc = "find" /\ tx[p].kind = "refund" /\ tx[p].user \in Users \cup {NoOne}
  BY DEF LedgerInv, TypeOK, Transactions, TxInv, Purpose, FindPurchase
<1>2. CASE receipts[tx[p].purchase] # NoReceipt
  BY <1>1, <1>2, PositionKeeps DEF FindPurchase
<1>3. CASE receipts[tx[p].purchase] = NoReceipt /\ tx[p].user = NoOne
  BY <1>3, EndKeeps DEF FindPurchase
<1>4. CASE receipts[tx[p].purchase] = NoReceipt /\ tx[p].user # NoOne
  BY <1>1, <1>4, PositionKeeps DEF FindPurchase
<1> QED
  BY <1>2, <1>3, <1>4

\* refundCoinPurchase, when its insert found a receipt
LEMMA RefindPurchaseKeeps ==
  ASSUME LedgerInv, NEW p \in Txs, RefindPurchase(p)
  PROVE  LedgerInv'
BY PositionKeeps DEF LedgerInv, TxInv, Holds, RefindPurchase

\* What is debited is covered by the balance and by the pack.
LEMMA DebitedBounds ==
  ASSUME NEW g \in Nat, NEW b \in Nat
  PROVE  Debited(g, b) \in Nat /\ b + -Debited(g, b) \in Nat /\ g - Debited(g, b) \in Nat
BY DEF Debited

\* A receipt of a refunded purchase.
LEMMA RefundSays ==
  ASSUME NEW row \in Receipts, NEW n \in Nat
  PROVE  /\ [row EXCEPT !.refunded = TRUE, !.shortfall = n] \in Receipts
         /\ [row EXCEPT !.refunded = TRUE, !.shortfall = n] =
              [owner |-> row.owner, granted |-> row.granted, refunded |-> TRUE, shortfall |-> n]
<1> DEFINE d == [row EXCEPT !.refunded = TRUE, !.shortfall = n]
<1>1. \A r \in Receipts :
        r = [owner |-> r.owner, granted |-> r.granted, refunded |-> r.refunded,
             shortfall |-> r.shortfall]
  BY DEF Receipts
<1>2. d \in Receipts
  BY DEF Receipts
<1>3. d.owner = row.owner /\ d.granted = row.granted /\ d.refunded = TRUE /\ d.shortfall = n
  BY DEF Receipts
<1> HIDE DEF d
<1>4. d = [owner |-> row.owner, granted |-> row.granted, refunded |-> TRUE, shortfall |-> n]
  BY <1>1, <1>2, <1>3, Zenon
<1> QED
  BY <1>2, <1>4 DEF d

\* refundCoinPurchase, with the owner's row locked
LEMMA RefundPurchaseKeeps ==
  ASSUME LedgerInv, NEW p \in Txs, RefundPurchase(p)
  PROVE  LedgerInv'
<1> USE LedgerAssumption
<1> DEFINE t == tx[p].purchase
           row == receipts[t]
           u == row.owner
           taken == Debited(row.granted, tx[p].balance)
           r == [row EXCEPT !.refunded = TRUE, !.shortfall = row.granted - taken]
<1>1. tx[p].pc = "refund" /\ tx[p].kind = "refund" /\ clock \in Nat
  BY DEF LedgerInv, TypeOK, RefundPurchase, TxInv, Purpose
<1>2. /\ t \in Purchases /\ row # NoReceipt /\ u \in Users
      /\ lock[u] = p /\ tx[p].balance = cache[u]
  BY <1>1 DEF LedgerInv, TxInv, Purpose, Holds, Owned
<1>3. row \in Receipts /\ row.granted \in Nat /\ cache[u] \in Nat
  BY <1>2 DEF LedgerInv, TypeOK, Receipts
<1>4. taken \in Nat /\ tx[p].balance + -taken \in Nat /\ row.granted - taken \in Nat
  BY <1>2, <1>3, DebitedBounds
<1>5. /\ r \in Receipts
      /\ r = [owner |-> u, granted |-> row.granted, refunded |-> TRUE,
              shortfall |-> row.granted - taken]
  BY <1>3, <1>4, RefundSays
<1>6. CASE row.refunded
  BY <1>6, EndKeeps DEF RefundPurchase, AlreadyRefunded
<1>7. CASE ~row.refunded /\ taken > 0
  <2> DEFINE e == Entry(p, u, -taken)
             w == [e EXCEPT !.purchase = t, !.receipt = r]
  <2>1. clock' = clock + 1 /\ Draft(p, w) /\ UNCHANGED <<stored, lock, claim>>
    BY <1>7 DEF RefundPurchase, AlreadyRefunded, Tock
  <2>2. e = Entry(p, u, -taken) /\ w = [e EXCEPT !.purchase = t, !.receipt = r]
    OBVIOUS
  <2> HIDE DEF e, w, taken, r
  <2>3. -taken \in Int
    BY <1>4
  <2>4. /\ e \in Writes
        /\ e.user = u /\ e.entry /\ e.delta = -taken
        /\ e.after = tx[p].balance + -taken /\ e.at = clock
    BY <1>1, <1>2, <1>4, <2>2, <2>3, EntrySays
  <2>5. /\ w \in Writes
        /\ w.user = u /\ w.entry /\ w.delta = -taken
        /\ w.after = cache[u] + w.delta
        /\ w.at = clock /\ w.purchase = t /\ w.receipt = r
    BY <1>2, <1>5, <2>2, <2>4 DEF Writes
  <2>6. taken = Debited(row.granted, cache[u])
    BY <1>2 DEF taken
  <2>7. Refunds(p, w)
    BY <1>2, <1>5, <1>7, <2>5, <2>6 DEF Refunds
  <2> QED
    BY <1>1, <1>2, <2>1, <2>5, <2>7, DraftKeeps
<1>8. CASE ~row.refunded /\ ~(taken > 0)
  <2> DEFINE w == [NoWrite EXCEPT !.purchase = t, !.receipt = r]
  <2>1. clock' = clock /\ Draft(p, w) /\ UNCHANGED <<stored, lock, claim>>
    BY <1>8 DEF RefundPurchase, AlreadyRefunded
  <2>2. w = [NoWrite EXCEPT !.purchase = t, !.receipt = r]
    OBVIOUS
  <2> HIDE DEF w, taken, r
  <2>3. NoWrite \in Writes /\ ~NoWrite.entry
    BY WriteTypes DEF NoWrite
  <2>4. w \in Writes /\ ~w.entry /\ w.purchase = t /\ w.receipt = r
    BY <1>2, <1>5, <2>2, <2>3 DEF Writes
  <2>5. taken = Debited(row.granted, cache[u])
    BY <1>2 DEF taken
  <2>6. Refunds(p, w)
    BY <1>2, <1>5, <1>8, <2>4, <2>5 DEF Refunds
  <2> QED
    BY <1>1, <2>1, <2>4, <2>6, DraftKeeps
<1> QED
  BY <1>6, <1>7, <1>8

\* The new entry of a commit continues the chain of its user, and no other chain changes.
LEMMA Appended ==
  ASSUME LedgerInv, NEW p \in Txs, NEW w \in Writes, Continues(p, w),
         NEW e \in Entries, e.delta = w.delta, e.after = w.after, e.at = w.at,
         ledger'[w.user] = Append(ledger[w.user], e),
         cache'[w.user] = w.after,
         \A u \in Users : u # w.user => ledger'[u] = ledger[u] /\ cache'[u] = cache[u],
         clock' = clock
  PROVE  Ordered' /\ Chained'
<1> DEFINE v == w.user
           n == Len(ledger[v])
<1>1. v \in Users /\ w.after \in Nat /\ w.at \in Nat /\ w.after = cache[v] + w.delta
  BY DEF Continues, Writes
<1>2. ledger[v] \in Seq(Entries) /\ n \in Nat
  BY <1>1 DEF LedgerInv, TypeOK
<1>3. ledger'[v] = Append(ledger[v], e) /\ cache'[v] = w.after
  OBVIOUS
<1>4. \A u \in Users : u # v => ledger'[u] = ledger[u] /\ cache'[u] = cache[u]
  OBVIOUS
<1>7. /\ Len(ledger'[v]) = n + 1
      /\ ledger'[v][n + 1] = e
      /\ \A i \in 1 .. n : ledger'[v][i] = ledger[v][i]
  BY <1>2, <1>3
<1>8. Ordered'
  <2> SUFFICES ASSUME NEW u \in Users
               PROVE  /\ \A i \in 1 .. Len(ledger'[u]) : ledger'[u][i].at < clock
                      /\ \A i, k \in 1 .. Len(ledger'[u]) :
                           i < k => ledger'[u][i].at < ledger'[u][k].at
    BY DEF Ordered
  <2>1. CASE u # v
    BY <2>1, <1>4 DEF LedgerInv, Ordered
  <2>2. CASE u = v
    <3>1. \A i \in 1 .. n : ledger[v][i].at < clock /\ ledger[v][i].at < e.at
      BY <1>1 DEF LedgerInv, Ordered, Continues
    <3>2. \A i, k \in 1 .. n : i < k => ledger[v][i].at < ledger[v][k].at
      BY <1>1 DEF LedgerInv, Ordered
    <3>3. e.at < clock
      BY DEF Continues
    <3>4. ASSUME NEW i \in 1 .. n + 1 PROVE ledger'[v][i].at < clock
      BY <1>2, <1>7, <3>1, <3>3
    <3>5. ASSUME NEW i \in 1 .. n + 1, NEW k \in 1 .. n + 1, i < k
          PROVE  ledger'[v][i].at < ledger'[v][k].at
      <4>1. i \in 1 .. n
        BY <3>5, <1>2
      <4>2. CASE k = n + 1
        BY <4>1, <4>2, <1>7, <3>1
      <4>3. CASE k # n + 1
        BY <4>1, <4>3, <1>2, <1>7, <3>2, <3>5
      <4> QED
        BY <4>2, <4>3
    <3> QED
      BY <2>2, <1>7, <3>4, <3>5
  <2> QED
    BY <2>1, <2>2
<1>9. Chained'
  <2> SUFFICES ASSUME NEW u \in Users
               PROVE  /\ Len(ledger'[u]) > 0 => ledger'[u][Len(ledger'[u])].after = cache'[u]
                      /\ \A i \in 2 .. Len(ledger'[u]) :
                           ledger'[u][i].after = ledger'[u][i - 1].after + ledger'[u][i].delta
    BY DEF Chained
  <2>1. CASE u # v
    BY <2>1, <1>4 DEF LedgerInv, Chained
  <2>2. CASE u = v
    <3>1. n > 0 => ledger[v][n].after = cache[v]
      BY <1>1 DEF LedgerInv, Chained
    <3>2. \A i \in 2 .. n : ledger[v][i].after = ledger[v][i - 1].after + ledger[v][i].delta
      BY <1>1 DEF LedgerInv, Chained
    <3>3. ASSUME NEW i \in 2 .. n + 1
          PROVE  ledger'[v][i].after = ledger'[v][i - 1].after + ledger'[v][i].delta
      <4>1. i - 1 \in 1 .. n /\ ledger'[v][i - 1] = ledger[v][i - 1]
        BY <3>3, <1>2, <1>7
      <4>2. CASE i = n + 1
        BY <4>1, <4>2, <1>1, <1>2, <1>7, <3>1
      <4>3. CASE i # n + 1
        BY <4>1, <4>3, <1>2, <1>7, <3>2, <3>3
      <4> QED
        BY <4>2, <4>3
    <3> QED
      BY <2>2, <1>2, <1>3, <1>7, <3>3
  <2> QED
    BY <2>1, <2>2
<1> QED
  BY <1>8, <1>9

(***************************************************************************)
(* What a commit changes: the chain of one user, whom it has locked, and   *)
(* the receipt of one purchase, which it has claimed or whose owner it has *)
(* locked.                                                                 *)
(***************************************************************************)
LEMMA CommitChanges ==
  ASSUME LedgerInv, NEW p \in Txs, NEW w, w = tx[p].write, Commit(p)
  PROVE  /\ w \in Writes
         /\ ledger' \in [Users -> Seq(Entries)] /\ cache' \in [Users -> Nat]
         /\ Ordered' /\ Chained'
         /\ Moves(w) \/ Credits(p, w) \/ Forestalls(p, w) \/ Refunds(p, w)
         /\ w.entry => /\ w.user \in Users /\ lock[w.user] = p
                       /\ cache'[w.user] = cache[w.user] + w.delta
         /\ \A u \in Users :
              ~(w.entry /\ u = w.user) => ledger'[u] = ledger[u] /\ cache'[u] = cache[u]
         /\ \A t \in Purchases :
              receipts'[t] = IF t = w.purchase THEN w.receipt ELSE receipts[t]
<1>1. tx[p] \in Transactions
  BY DEF LedgerInv, TypeOK
<1>2. w \in Writes
  BY <1>1 DEF Transactions
<1>3. /\ w.entry => Continues(p, w)
      /\ Moves(w) \/ Credits(p, w) \/ Forestalls(p, w) \/ Refunds(p, w)
  BY DEF LedgerInv, TxInv, Drafted, Commit
<1>4. \A t \in Purchases : receipts'[t] = IF t = w.purchase THEN w.receipt ELSE receipts[t]
  BY DEF Commit
<1>5. CASE w.entry
  <2> DEFINE e == [delta |-> w.delta, after |-> w.after, at |-> w.at, purchase |-> w.purchase]
  <2>1. e \in Entries /\ e.delta = w.delta /\ e.after = w.after /\ e.at = w.at
    BY <1>2 DEF Entries, Writes
  <2>2. /\ ledger' = [ledger EXCEPT ![w.user] = Append(@, e)]
        /\ cache' = [cache EXCEPT ![w.user] = w.after]
        /\ clock' = clock
    BY <1>5 DEF Commit
  <2> HIDE DEF e
  <2>3. w.user \in Users /\ lock[w.user] = p
    BY <1>3, <1>5 DEF Continues
  <2>4. w.after \in Nat /\ w.after = cache[w.user] + w.delta
    BY <1>2, <1>3, <1>5 DEF Continues, Writes
  <2>5. ledger' \in [Users -> Seq(Entries)] /\ cache' \in [Users -> Nat]
    BY <2>1, <2>2, <2>3, <2>4 DEF LedgerInv, TypeOK
  <2>6. /\ ledger'[w.user] = Append(ledger[w.user], e)
        /\ cache'[w.user] = w.after
        /\ \A u \in Users : u # w.user => ledger'[u] = ledger[u] /\ cache'[u] = cache[u]
    BY <2>2, <2>3 DEF LedgerInv, TypeOK
  <2>7. Continues(p, w)
    BY <1>3, <1>5
  <2>8. Ordered' /\ Chained'
    BY <1>2, <2>1, <2>2, <2>6, <2>7, Appended
  <2> QED
    BY <1>2, <1>3, <1>4, <1>5, <2>3, <2>4, <2>5, <2>6, <2>8
<1>6. CASE ~w.entry
  <2>1. UNCHANGED <<ledger, cache, clock>>
    BY <1>6 DEF Commit
  <2>2. Ordered' /\ Chained'
    BY <2>1, StoredStays DEF LedgerInv, TypeOK
  <2> QED
    BY <1>2, <1>3, <1>4, <1>6, <2>1, <2>2 DEF LedgerInv, TypeOK
<1> QED
  BY <1>5, <1>6

\* A receipt is written over none, or over one whose owner is locked, who stays.
LEMMA ReceiptWritten ==
  ASSUME LedgerInv, NEW p \in Txs, NEW w \in Writes, w.purchase \in Purchases,
         Moves(w) \/ Credits(p, w) \/ Forestalls(p, w) \/ Refunds(p, w),
         w.entry => w.user \in Users
  PROVE  /\ w.receipt \in Receipts /\ w.receipt # NoReceipt /\ w.receipt.owner \in Users
         /\ \/ receipts[w.purchase] = NoReceipt /\ claim[w.purchase] = p
            \/ /\ receipts[w.purchase] # NoReceipt
               /\ w.receipt.owner = receipts[w.purchase].owner
               /\ lock[receipts[w.purchase].owner] = p
<1> USE LedgerAssumption
<1>1. w.receipt \in Receipts
  BY DEF Writes
<1>2. ~Moves(w)
  BY DEF Moves
<1>3. CASE Credits(p, w)
  <2>1. w.receipt.owner = w.user /\ w.user \in Users
    BY <1>3 DEF Credits
  <2>2. receipts[w.purchase] = NoReceipt /\ claim[w.purchase] = p
    BY <1>3 DEF Credits, LedgerInv, Owned
  <2> QED
    BY <1>1, <2>1, <2>2 DEF NoReceipt
<1>4. CASE Forestalls(p, w)
  <2>1. w.receipt.owner \in Users
    BY <1>4 DEF Forestalls
  <2>2. receipts[w.purchase] = NoReceipt /\ claim[w.purchase] = p
    BY <1>4 DEF Forestalls, LedgerInv, Owned
  <2> QED
    BY <1>1, <2>1, <2>2 DEF NoReceipt
<1>5. CASE Refunds(p, w)
  <2>1. receipts[w.purchase] # NoReceipt /\ lock[receipts[w.purchase].owner] = p
    BY <1>5 DEF Refunds
  <2>2. w.receipt.owner = receipts[w.purchase].owner
    BY <1>5 DEF Refunds
  <2>3. receipts[w.purchase].owner \in Users
    BY <2>1 DEF LedgerInv, Owned
  <2> QED
    BY <1>1, <2>1, <2>2, <2>3 DEF NoReceipt
<1> QED
  BY <1>2, <1>3, <1>4, <1>5

\* A commit spares the transactions whose users and purchases are others.
LEMMA CommitKeeps ==
  ASSUME LedgerInv, NEW p \in Txs, Commit(p)
  PROVE  LedgerInv'
<1> USE LedgerAssumption
<1> DEFINE w == tx[p].write
<1>1. clock \in Nat /\ clock' = clock
  BY DEF LedgerInv, TypeOK, Commit
<1>2. /\ w \in Writes
      /\ ledger' \in [Users -> Seq(Entries)] /\ cache' \in [Users -> Nat]
      /\ Ordered' /\ Chained'
      /\ Moves(w) \/ Credits(p, w) \/ Forestalls(p, w) \/ Refunds(p, w)
      /\ w.entry => w.user \in Users /\ lock[w.user] = p
      /\ \A u \in Users :
           ~(w.entry /\ u = w.user) => ledger'[u] = ledger[u] /\ cache'[u] = cache[u]
      /\ \A t \in Purchases :
           receipts'[t] = IF t = w.purchase THEN w.receipt ELSE receipts[t]
  BY CommitChanges
<1>3. tx' = [tx EXCEPT ![p] = NoTx] /\ tx'[p] = NoTx
  BY DEF LedgerInv, TypeOK, Commit, Release
<1>4. /\ \A u \in Users : lock'[u] = IF lock[u] = p THEN NoOne ELSE lock[u]
      /\ \A t \in Purchases : claim'[t] = IF claim[t] = p THEN NoOne ELSE claim[t]
  BY DEF Commit, Release
<1>5. lock' \in [Users -> Txs \cup {NoOne}] /\ claim' \in [Purchases -> Txs \cup {NoOne}]
  BY DEF LedgerInv, TypeOK, Commit, Release
<1>6. receipts' = [t \in Purchases |-> IF t = w.purchase THEN w.receipt ELSE receipts[t]]
  BY DEF Commit
<1> HIDE DEF w
<1>7. w.purchase \in Purchases =>
        /\ w.receipt \in Receipts /\ w.receipt # NoReceipt /\ w.receipt.owner \in Users
        /\ \/ receipts[w.purchase] = NoReceipt /\ claim[w.purchase] = p
           \/ /\ receipts[w.purchase] # NoReceipt
              /\ w.receipt.owner = receipts[w.purchase].owner
              /\ lock[receipts[w.purchase].owner] = p
  BY <1>2, ReceiptWritten
<1>8. receipts' \in [Purchases -> Receipts]
  BY <1>6, <1>7 DEF LedgerInv, TypeOK
<1>9. TypeOK'
  BY <1>1, <1>2, <1>3, <1>5, <1>8, WriteTypes DEF LedgerInv, TypeOK
<1>10. TxInv(p)'
  BY <1>3 DEF TxInv, Purpose, Holds, Drafted, NoTx
<1>11. ASSUME NEW q \in Txs \ {p} PROVE Spares(q)
  <2>1. tx'[q] = tx[q]
    BY <1>3 DEF LedgerInv, TypeOK
  <2>2. \A u \in Users : lock[u] = q =>
          lock'[u] = q /\ cache'[u] = cache[u] /\ ledger'[u] = ledger[u]
    BY <1>2, <1>4
  <2>3. \A t \in Purchases : claim[t] = q => claim'[t] = q
    BY <1>4
  <2>4. ASSUME NEW t \in Purchases, receipts[t] # NoReceipt
        PROVE  /\ receipts'[t] # NoReceipt
               /\ receipts'[t].owner = receipts[t].owner
               /\ lock[receipts[t].owner] = q => receipts'[t] = receipts[t]
    <3>1. CASE t # w.purchase
      BY <2>4, <3>1, <1>2
    <3>2. CASE t = w.purchase
      BY <2>4, <3>2, <1>2, <1>7
    <3> QED
      BY <3>1, <3>2
  <2> QED
    BY <1>1, <2>1, <2>2, <2>3, <2>4 DEF Spares
<1>12. Owned'
  <2> SUFFICES ASSUME NEW t \in Purchases
               PROVE  /\ receipts'[t] # NoReceipt => receipts'[t].owner \in Users
                      /\ claim'[t] # NoOne => receipts'[t] = NoReceipt
    BY DEF Owned, NoReceipt
  <2>1. CASE t # w.purchase
    BY <2>1, <1>2, <1>4 DEF LedgerInv, Owned
  <2>2. CASE t = w.purchase
    BY <2>2, <1>2, <1>4, <1>7 DEF LedgerInv, Owned
  <2> QED
    BY <2>1, <2>2
<1> QED
  BY <1>2, <1>9, <1>10, <1>11, <1>12, StepKeeps

--------------------------------------------------------------------------------
\* No transactions, no entries, no receipts.
LEMMA InitLedger == Init => LedgerInv
<1> SUFFICES ASSUME Init PROVE LedgerInv
  OBVIOUS
<1> USE LedgerAssumption
<1>1. TypeOK
  <2>1. \A u \in Users : <<>> \in Seq(Entries)
    OBVIOUS
  <2> QED
    BY <2>1, WriteTypes DEF Init, TypeOK
<1>2. \A u \in Users : Len(ledger[u]) = 0
  BY DEF Init
<1>3. Ordered /\ Chained
  BY <1>2 DEF Ordered, Chained
<1>4. Owned
  BY DEF Init, Owned
<1>5. \A p \in Txs : TxInv(p)
  BY DEF Init, NoTx, TxInv, Purpose, Holds, Drafted
<1> QED
  BY <1>1, <1>3, <1>4, <1>5 DEF LedgerInv

\* One step per action.
LEMMA NextLedger == LedgerInv /\ [Next]_vars => LedgerInv'
<1> SUFFICES ASSUME LedgerInv, [Next]_vars PROVE LedgerInv'
  OBVIOUS
<1>1. ASSUME NEW p \in Txs,
             \/ \E u \in Users : \/ \E n \in Grants : StartGrant(p, u, n)
                                 \/ \E n \in Costs : StartSpend(p, u, n)
                                 \/ \E t \in Purchases : StartCredit(p, u, t)
             \/ \E u \in Users \cup {NoOne}, t \in Purchases : StartRefund(p, u, t)
      PROVE  LedgerInv'
  BY <1>1, StartsKeep
<1>2. ASSUME NEW p \in Txs, LockUser(p) PROVE LedgerInv'
  BY <1>2, LockUserKeeps
<1>3. ASSUME NEW p \in Txs, MoveCoins(p) PROVE LedgerInv'
  BY <1>3, MoveCoinsKeeps
<1>4. ASSUME NEW p \in Txs, Claim(p) PROVE LedgerInv'
  BY <1>4, ClaimKeeps
<1>5. ASSUME NEW p \in Txs, CreditPurchase(p) PROVE LedgerInv'
  BY <1>5, CreditPurchaseKeeps
<1>6. ASSUME NEW p \in Txs, CreditRepeated(p) PROVE LedgerInv'
  BY <1>6, EndKeeps DEF CreditRepeated
<1>7. ASSUME NEW p \in Txs, FindPurchase(p) PROVE LedgerInv'
  BY <1>7, FindPurchaseKeeps
<1>8. ASSUME NEW p \in Txs, Tombstone(p) PROVE LedgerInv'
  BY <1>8, TombstoneKeeps
<1>9. ASSUME NEW p \in Txs, RefindPurchase(p) PROVE LedgerInv'
  BY <1>9, RefindPurchaseKeeps
<1>10. ASSUME NEW p \in Txs, LockOwner(p) PROVE LedgerInv'
  BY <1>10, LockOwnerKeeps
<1>11. ASSUME NEW p \in Txs, RefundPurchase(p) PROVE LedgerInv'
  BY <1>11, RefundPurchaseKeeps
<1>12. ASSUME NEW p \in Txs, Commit(p) PROVE LedgerInv'
  BY <1>12, CommitKeeps
<1>13. ASSUME NEW p \in Txs, Rollback(p) PROVE LedgerInv'
  BY <1>13, EndKeeps DEF Rollback
<1>14. CASE UNCHANGED vars
  <2>1. clock \in Nat /\ UNCHANGED <<clock, cache, ledger, receipts, lock, claim, tx>>
    BY <1>14 DEF vars, LedgerInv, TypeOK
  <2>2. TypeOK' /\ Owned'
    BY <2>1 DEF LedgerInv, TypeOK, Owned, NoReceipt
  <2>3. Ordered' /\ Chained'
    BY <2>1, StoredStays DEF LedgerInv
  <2>4. \A q \in Txs : Spares(q)
    BY <2>1 DEF Spares
  <2> QED
    BY <2>2, <2>3, <2>4, SparedKeeps DEF LedgerInv
<1> QED
  BY <1>1, <1>2, <1>3, <1>4, <1>5, <1>6, <1>7, <1>8, <1>9, <1>10, <1>11, <1>12, <1>13, <1>14
    DEF Next

\* What the transactions rely on holds throughout.
LEMMA LedgerInvHolds == Spec => []LedgerInv
BY InitLedger, NextLedger, PTL DEF Spec

(***************************************************************************)
(* No balance, entry or receipt leaves its type: in particular, nobody's   *)
(* coins ever go below zero (the check in appendCoinLedger).               *)
(***************************************************************************)
THEOREM LedgerTypes == Spec => []TypeOK
<1>1. LedgerInv => TypeOK
  BY DEF LedgerInv
<1> QED
  BY <1>1, LedgerInvHolds, PTL

(***************************************************************************)
(* Every user's entries form a chain that ends in the cached balance       *)
(* (lockedCoinBalance and appendCoinLedger).                               *)
(***************************************************************************)
THEOREM Chains == Spec => []LedgerChains
<1>1. ASSUME LedgerInv PROVE LedgerChains
  BY <1>1, BalanceIsCache DEF LedgerInv, LedgerChains, Chained
<1> QED
  BY <1>1, LedgerInvHolds, PTL

--------------------------------------------------------------------------------
\* The balances that CoinWallet speaks of are the cached ones.
LEMMA BalancesAreCache == LedgerInv => [u \in Users |-> Balance(u)] = cache
<1> SUFFICES ASSUME LedgerInv PROVE [u \in Users |-> Balance(u)] = cache
  OBVIOUS
<1>1. \A u \in Users : Balance(u) = cache[u]
  BY BalanceIsCache DEF LedgerInv
<1> QED
  BY <1>1 DEF LedgerInv, TypeOK

\* Only a commit changes what is stored.
LEMMA OnlyCommitWrites ==
  ASSUME [Next]_vars
  PROVE  UNCHANGED stored \/ \E p \in Txs : Commit(p)
<1>1. \A p \in Txs : \A request : Begin(p, request) => UNCHANGED stored
  BY DEF Begin
<1>2. ASSUME NEW p \in Txs,
             \/ \E u \in Users : \/ \E n \in Grants : StartGrant(p, u, n)
                                 \/ \E n \in Costs : StartSpend(p, u, n)
                                 \/ \E t \in Purchases : StartCredit(p, u, t)
             \/ \E u \in Users \cup {NoOne}, t \in Purchases : StartRefund(p, u, t)
      PROVE  UNCHANGED stored
  BY <1>1, <1>2 DEF StartGrant, StartSpend, StartCredit, StartRefund
<1>3. ASSUME NEW p \in Txs, End(p) PROVE UNCHANGED stored
  BY <1>3 DEF End
<1>4. ASSUME NEW p \in Txs, LockUser(p) \/ MoveCoins(p) \/ Claim(p) \/ LockOwner(p)
      PROVE  UNCHANGED stored
  BY <1>3, <1>4 DEF LockUser, MoveCoins, Claim, LockOwner
<1>5. ASSUME NEW p \in Txs, CreditPurchase(p) \/ CreditRepeated(p) \/ Rollback(p)
      PROVE  UNCHANGED stored
  BY <1>3, <1>5 DEF CreditPurchase, CreditRepeated, Rollback
<1>6. ASSUME NEW p \in Txs, FindPurchase(p) \/ Tombstone(p) \/ RefindPurchase(p)
      PROVE  UNCHANGED stored
  BY <1>3, <1>6 DEF FindPurchase, Tombstone, RefindPurchase
<1>7. ASSUME NEW p \in Txs, RefundPurchase(p) PROVE UNCHANGED stored
  BY <1>3, <1>7 DEF RefundPurchase
<1>8. CASE UNCHANGED vars
  BY <1>8 DEF vars, stored
<1> QED
  BY <1>2, <1>4, <1>5, <1>6, <1>7, <1>8 DEF Next

\* A commit is a step of CoinWallet, by the reason of what it writes.
LEMMA CommitImplements ==
  ASSUME LedgerInv, LedgerInv', NEW p \in Txs, Commit(p),
         ([u \in Users |-> Balance(u)] = cache)'
  PROVE  Wallet!Next
<1> USE LedgerAssumption
<1> DEFINE w == tx[p].write
<1>1. [u \in Users |-> Balance(u)] = cache
  BY BalancesAreCache
<1>2. /\ w \in Writes
      /\ Moves(w) \/ Credits(p, w) \/ Forestalls(p, w) \/ Refunds(p, w)
      /\ w.entry => w.user \in Users /\ lock[w.user] = p /\ cache'[w.user] = cache[w.user] + w.delta
      /\ \A u \in Users : ~(w.entry /\ u = w.user) => cache'[u] = cache[u]
      /\ \A t \in Purchases :
           receipts'[t] = IF t = w.purchase THEN w.receipt ELSE receipts[t]
  BY CommitChanges
<1>3. cache \in [Users -> Nat] /\ cache' \in [Users -> Nat]
  BY DEF LedgerInv, TypeOK
<1>4. receipts \in [Purchases -> Receipts] /\ receipts' \in [Purchases -> Receipts]
  BY DEF LedgerInv, TypeOK
<1> HIDE DEF w
<1>5. w.delta \in Int
  BY <1>2 DEF Writes
<1>6. w.entry => cache' = [cache EXCEPT ![w.user] = @ + w.delta]
  BY <1>2, <1>3
<1>7. ~w.entry => cache' = cache
  BY <1>2, <1>3
<1>8. w.purchase \in Purchases => receipts' = [receipts EXCEPT ![w.purchase] = w.receipt]
  BY <1>2, <1>4
<1>9. CASE Moves(w)
  <2>1. receipts' = receipts
    BY <1>2, <1>4, <1>9 DEF Moves
  <2>2. w.user \in Users /\ cache' = [cache EXCEPT ![w.user] = @ + w.delta]
    BY <1>2, <1>6, <1>9 DEF Moves
  <2>3. CASE w.delta \in Grants
    <3>1. Wallet!Grant(w.user, w.delta)
      BY <1>1, <2>1, <2>2 DEF Wallet!Grant
    <3> QED
      BY <2>2, <2>3, <3>1 DEF Wallet!Next
  <2>4. CASE -w.delta \in Costs
    <3> DEFINE n == -w.delta
    <3>1. cache[w.user] + w.delta \in Nat
      BY <1>2, <1>3, <1>9 DEF Moves
    <3>2. cache[w.user] \in Nat /\ cache[w.user] - n = cache[w.user] + w.delta
      BY <1>3, <1>5, <2>2
    <3>3. cache[w.user] >= n
      BY <1>5, <3>1, <3>2
    <3>4. cache' = [cache EXCEPT ![w.user] = @ - n]
      BY <2>2, <3>2
    <3>5. Wallet!Spend(w.user, n)
      BY <1>1, <2>1, <3>3, <3>4 DEF Wallet!Spend
    <3> QED
      BY <2>2, <2>4, <3>5 DEF Wallet!Next
  <2> QED
    BY <1>9, <2>3, <2>4 DEF Moves
<1>10. CASE Credits(p, w)
  <2> DEFINE t == w.purchase
             u == w.user
  <2>1. t \in Purchases /\ u \in Users /\ receipts[t] = NoReceipt /\ Worth[t] \in Nat
    BY <1>2, <1>10 DEF Credits, LedgerInv, Owned
  <2>2. w.receipt = [NoReceipt EXCEPT !.owner = u, !.granted = Worth[t]]
    BY <1>10, <2>1, ReceiptSays DEF Credits
  <2>3. receipts' = [receipts EXCEPT ![t] = [receipts[t] EXCEPT !.owner = u, !.granted = Worth[t]]]
    BY <1>8, <2>1, <2>2
  <2>4. receipts' = [receipts EXCEPT ![t].owner = u, ![t].granted = Worth[t]]
    BY <1>4, <2>1, <2>3
  <2>5. cache' = [cache EXCEPT ![u] = @ + Worth[t]]
    BY <1>6, <1>10 DEF Credits
  <2>6. Wallet!Credit(u, t)
    BY <1>1, <2>1, <2>4, <2>5 DEF Wallet!Credit, Wallet!NoReceipt, NoReceipt
  <2> QED
    BY <2>1, <2>6 DEF Wallet!Next
<1>11. CASE Forestalls(p, w)
  <2> DEFINE t == w.purchase
             u == w.receipt.owner
  <2>1. t \in Purchases /\ u \in Users /\ receipts[t] = NoReceipt
    BY <1>11 DEF Forestalls, LedgerInv, Owned
  <2>2. w.receipt = [NoReceipt EXCEPT !.owner = u, !.refunded = TRUE]
    BY <1>11, <2>1, ReceiptSays DEF Forestalls
  <2>3. receipts' = [receipts EXCEPT ![t] = [receipts[t] EXCEPT !.owner = u, !.refunded = TRUE]]
    BY <1>8, <2>1, <2>2
  <2>4. receipts' = [receipts EXCEPT ![t].owner = u, ![t].refunded = TRUE]
    BY <1>4, <2>1, <2>3
  <2>5. cache' = cache
    BY <1>7, <1>11 DEF Forestalls
  <2>6. Wallet!Forestall(u, t)
    BY <1>1, <2>1, <2>4, <2>5 DEF Wallet!Forestall, Wallet!NoReceipt, NoReceipt
  <2> QED
    BY <2>1, <2>6 DEF Wallet!Next
<1>12. CASE Refunds(p, w)
  <2> DEFINE t == w.purchase
             row == receipts[t]
             u == row.owner
             taken == Debited(row.granted, cache[u])
  <2>1. /\ t \in Purchases /\ row # NoReceipt /\ ~row.refunded
        /\ w.entry <=> taken > 0
        /\ w.entry => w.user = u /\ w.delta = -taken
        /\ w.receipt = [owner |-> u, granted |-> row.granted, refunded |-> TRUE,
                        shortfall |-> row.granted - taken]
    BY <1>12 DEF Refunds
  <2>2. u \in Users /\ u # NoOne
    BY <2>1 DEF LedgerInv, Owned
  <2>3. row \in Receipts /\ row.granted \in Nat /\ cache[u] \in Nat
    BY <1>3, <1>4, <2>1, <2>2 DEF Receipts
  <2>4. taken \in Nat /\ row.granted - taken \in Nat
    BY <2>3, DebitedBounds
  <2>5. taken = IF row.granted <= cache[u] THEN row.granted ELSE cache[u]
    BY DEF Debited
  <2> HIDE DEF taken
  <2>6. w.receipt = [row EXCEPT !.refunded = TRUE, !.shortfall = row.granted - taken]
    BY <2>1, <2>3, <2>4, RefundSays
  <2>7. receipts' = [receipts EXCEPT
                       ![t] = [row EXCEPT !.refunded = TRUE, !.shortfall = row.granted - taken]]
    BY <1>8, <2>1, <2>6
  <2>8. receipts' = [receipts EXCEPT ![t].refunded = TRUE, ![t].shortfall = row.granted - taken]
    BY <1>4, <2>1, <2>7
  <2>9. cache' = [cache EXCEPT ![u] = @ - taken]
    <3>1. CASE w.entry
      BY <1>3, <1>6, <2>1, <2>2, <2>4, <3>1
    <3>2. CASE ~w.entry
      BY <1>3, <1>7, <2>1, <2>2, <2>4, <3>2
    <3> QED
      BY <3>1, <3>2
  <2>10. Wallet!Refund(t)
    BY <1>1, <2>1, <2>2, <2>5, <2>8, <2>9 DEF Wallet!Refund
  <2> QED
    BY <2>1, <2>10 DEF Wallet!Next
<1> QED
  BY <1>2, <1>9, <1>10, <1>11, <1>12

(***************************************************************************)
(* The transactions of any number of servers, however they interleave and  *)
(* whichever are rolled back, implement CoinWallet: a transaction is one   *)
(* indivisible step at its commit, and nothing before and otherwise.       *)
(***************************************************************************)
THEOREM LedgerImplementsWallet == Spec => ImplementsWallet
<1> DEFINE bal == [u \in Users |-> Balance(u)]
<1>1. Init => Wallet!Init
  <2> SUFFICES ASSUME Init PROVE Wallet!Init
    OBVIOUS
  <2>1. bal = cache /\ cache \in [Users -> 0 .. Coins]
    BY InitLedger, BalancesAreCache DEF Init
  <2> QED
    BY <2>1 DEF Init, Wallet!Init, Wallet!NoReceipt, NoReceipt
<1>2. LedgerInv /\ LedgerInv' /\ [Next]_vars => [Wallet!Next]_<<bal, receipts>>
  <2> SUFFICES ASSUME LedgerInv, LedgerInv', [Next]_vars
               PROVE  Wallet!Next \/ UNCHANGED <<bal, receipts>>
    OBVIOUS
  <2>1. (bal = cache)'
    BY BalancesAreCache, PTL
  <2>2. CASE UNCHANGED stored
    BY <2>1, <2>2, BalancesAreCache DEF stored
  <2>3. CASE \E p \in Txs : Commit(p)
    BY <2>1, <2>3, CommitImplements
  <2> QED
    BY <2>2, <2>3, OnlyCommitWrites
<1> QED
  BY <1>1, <1>2, LedgerInvHolds, PTL DEF Spec, ImplementsWallet, Wallet!Spec

--------------------------------------------------------------------------------
(***************************************************************************)
(* Purchases settle: relative to LedgerInv, the property is inductive.     *)
(***************************************************************************)
\* A user's new entry is about its purchase, the entries before it are what they were.
LEMMA AboutAppended ==
  ASSUME LedgerInv, NEW u \in Users, NEW e, ledger'[u] = Append(ledger[u], e),
         NEW t \in Purchases
  PROVE  LET n == Len(ledger[u])
         IN  /\ n \in Nat /\ n + 1 \notin About(u, t)
             /\ About(u, t)' = About(u, t) \cup (IF e.purchase = t THEN {n + 1} ELSE {})
             /\ ledger'[u][n + 1] = e
             /\ \A i \in About(u, t) : ledger'[u][i] = ledger[u][i]
<1> DEFINE n == Len(ledger[u])
<1>1. ledger[u] \in Seq(Entries) /\ n \in Nat /\ DOMAIN ledger[u] = 1 .. n
  BY DEF LedgerInv, TypeOK
<1>2. /\ DOMAIN ledger'[u] = 1 .. n + 1
      /\ ledger'[u][n + 1] = e
      /\ \A i \in 1 .. n : ledger'[u][i] = ledger[u][i]
  BY <1>1
<1>3. 1 .. n + 1 = (1 .. n) \cup {n + 1} /\ n + 1 \notin 1 .. n
  BY <1>1
<1> QED
  BY <1>1, <1>2, <1>3 DEF About

\* Entries and receipts that stay are settled as they were.
LEMMA SettledStays ==
  ASSUME NEW u, NEW t, Settled(u, t), receipts'[t] = receipts[t],
         About(u, t)' = About(u, t), \A i \in About(u, t) : ledger'[u][i] = ledger[u][i]
  PROVE  Settled(u, t)'
BY DEF Settled

\* Each of the four writes of a commit keeps the purchase it is about settled.
LEMMA CommitSettles ==
  ASSUME LedgerInv, NEW p \in Txs, Commit(p), PurchasesSettle
  PROVE  PurchasesSettle'
<1> USE LedgerAssumption
<1> SUFFICES ASSUME NEW u \in Users, NEW t \in Purchases PROVE Settled(u, t)'
  BY DEF PurchasesSettle
<1> DEFINE w == tx[p].write
           e == [delta |-> w.delta, after |-> w.after, at |-> w.at, purchase |-> w.purchase]
           n == Len(ledger[u])
<1>1. /\ w \in Writes
      /\ Moves(w) \/ Credits(p, w) \/ Forestalls(p, w) \/ Refunds(p, w)
      /\ w.entry => w.user \in Users
      /\ ~(w.entry /\ u = w.user) => ledger'[u] = ledger[u]
      /\ receipts'[t] = IF t = w.purchase THEN w.receipt ELSE receipts[t]
  BY CommitChanges
<1>2. w.entry /\ u = w.user => ledger'[u] = Append(ledger[u], e)
  BY DEF Commit, LedgerInv, TypeOK
<1>3. e.delta = w.delta /\ e.purchase = w.purchase
  OBVIOUS
<1>4. Settled(u, t)
  BY DEF PurchasesSettle
<1> HIDE DEF w, e
<1>5. ~(w.entry /\ u = w.user) =>
        /\ About(u, t)' = About(u, t)
        /\ \A i \in About(u, t) : ledger'[u][i] = ledger[u][i]
  BY <1>1 DEF About
<1>6. w.entry /\ u = w.user =>
        /\ n + 1 \notin About(u, t)
        /\ About(u, t)' = About(u, t) \cup (IF w.purchase = t THEN {n + 1} ELSE {})
        /\ ledger'[u][n + 1].delta = w.delta
        /\ \A i \in About(u, t) : ledger'[u][i] = ledger[u][i]
  BY <1>2, <1>3, AboutAppended
<1>7. CASE t # w.purchase
  <2>1. /\ receipts'[t] = receipts[t]
        /\ About(u, t)' = About(u, t)
        /\ \A i \in About(u, t) : ledger'[u][i] = ledger[u][i]
    BY <1>1, <1>5, <1>6, <1>7
  <2> QED
    BY <1>4, <2>1, SettledStays
<1>8. CASE t = w.purchase /\ Credits(p, w)
  <2>1. receipts[t] = NoReceipt /\ Worth[t] > 0 /\ w.entry /\ w.delta = Worth[t]
    BY <1>8 DEF Credits, LedgerInv, Owned
  <2>2. About(u, t) = {}
    BY <1>4, <2>1 DEF Settled, NoReceipt
  <2>3. /\ receipts'[t].owner = w.user /\ receipts'[t].granted = Worth[t]
        /\ ~receipts'[t].refunded
    BY <1>1, <1>8 DEF Credits
  <2>4. CASE u # w.user
    BY <1>5, <2>2, <2>3, <2>4 DEF Settled
  <2>5. CASE u = w.user
    <3>1. About(u, t)' = {n + 1} /\ ledger'[u][n + 1].delta = Worth[t]
      BY <1>6, <1>8, <2>1, <2>2, <2>5
    <3> QED
      BY <2>1, <2>3, <2>5, <3>1 DEF Settled
  <2> QED
    BY <2>4, <2>5
<1>9. CASE t = w.purchase /\ Forestalls(p, w)
  <2>1. receipts[t] = NoReceipt /\ ~w.entry
    BY <1>9 DEF Forestalls, LedgerInv, Owned
  <2>2. About(u, t)' = {}
    BY <1>4, <1>5, <2>1 DEF Settled, NoReceipt
  <2>3. receipts'[t].granted = 0
    BY <1>1, <1>9 DEF Forestalls
  <2> QED
    BY <2>2, <2>3 DEF Settled
<1>10. CASE t = w.purchase /\ Refunds(p, w)
  <2> DEFINE row == receipts[t]
             taken == Debited(row.granted, cache[row.owner])
  <2>1. /\ row # NoReceipt /\ ~row.refunded
        /\ w.entry <=> taken > 0
        /\ w.entry => w.user = row.owner /\ w.delta = -taken
        /\ w.receipt = [owner |-> row.owner, granted |-> row.granted, refunded |-> TRUE,
                        shortfall |-> row.granted - taken]
    BY <1>10 DEF Refunds
  <2>2. row.granted \in Nat /\ cache[row.owner] \in Nat
    BY <2>1 DEF LedgerInv, TypeOK, Receipts, Owned
  <2>3. taken \in Nat /\ taken <= row.granted
    BY <2>2 DEF Debited
  <2> HIDE DEF taken
  <2>4. /\ receipts'[t].owner = row.owner /\ receipts'[t].granted = row.granted
        /\ receipts'[t].refunded
        /\ receipts'[t].granted - receipts'[t].shortfall = taken
    BY <1>1, <1>10, <2>1, <2>2, <2>3
  <2>5. CASE u # row.owner \/ row.granted = 0
    <3>1. About(u, t) = {} /\ ~(w.entry /\ u = w.user)
      BY <1>4, <2>1, <2>3, <2>5 DEF Settled
    <3> QED
      BY <1>5, <2>4, <2>5, <3>1 DEF Settled
  <2>6. CASE ~(u # row.owner \/ row.granted = 0)
    <3>1. PICK c \in About(u, t) :
            /\ {i \in About(u, t) : ledger[u][i].delta > 0} = {c}
            /\ ledger[u][c].delta = row.granted
            /\ {i \in About(u, t) : ledger[u][i].delta < 0} = {}
      BY <1>4, <2>1, <2>6 DEF Settled
    <3>2. CASE taken = 0
      <4>1. /\ About(u, t)' = About(u, t)
            /\ \A i \in About(u, t) : ledger'[u][i] = ledger[u][i]
        BY <1>5, <2>1, <3>2
      <4> QED
        BY <2>4, <2>6, <3>1, <3>2, <4>1 DEF Settled
    <3>3. CASE taken > 0
      <4>1. /\ n + 1 \notin About(u, t)
            /\ About(u, t)' = About(u, t) \cup {n + 1}
            /\ ledger'[u][n + 1].delta = -taken
            /\ \A i \in About(u, t) : ledger'[u][i] = ledger[u][i]
        BY <1>6, <1>10, <2>1, <2>6, <3>3
      <4>2. {i \in About(u, t)' : ledger'[u][i].delta > 0} = {c}
        BY <2>3, <3>1, <3>3, <4>1
      <4>3. {i \in About(u, t)' : ledger'[u][i].delta < 0} = {n + 1}
        BY <2>3, <3>1, <3>3, <4>1
      <4> QED
        BY <2>4, <2>6, <3>1, <3>3, <4>1, <4>2, <4>3 DEF Settled
    <3> QED
      BY <2>3, <3>2, <3>3
  <2> QED
    BY <2>5, <2>6
<1> QED
  BY <1>1, <1>7, <1>8, <1>9, <1>10 DEF Moves

(***************************************************************************)
(* A purchase is credited at most once, to the owner of its receipt, and   *)
(* its refund takes back all but the recorded shortfall, once              *)
(* (creditCoinPurchase, refundCoinPurchase).                               *)
(***************************************************************************)
THEOREM Settles == Spec => []PurchasesSettle
<1>1. Init => PurchasesSettle
  BY DEF Init, PurchasesSettle, Settled, About, NoReceipt
<1>2. LedgerInv /\ PurchasesSettle /\ [Next]_vars => PurchasesSettle'
  <2> SUFFICES ASSUME LedgerInv, PurchasesSettle, [Next]_vars PROVE PurchasesSettle'
    OBVIOUS
  <2>1. CASE UNCHANGED stored
    BY <2>1 DEF stored, PurchasesSettle, Settled, About
  <2>2. CASE \E p \in Txs : Commit(p)
    BY <2>2, CommitSettles
  <2> QED
    BY <2>1, <2>2, OnlyCommitWrites
<1> QED
  BY <1>1, <1>2, LedgerInvHolds, PTL DEF Spec
================================================================================
