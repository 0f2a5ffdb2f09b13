---------------------------- MODULE MoneyLedger ----------------------------
(***************************************************************************)
(* Gift cards and store credit: packages/db/src/queries/money.ts, and the  *)
(* routes that move money with it (routes/credits.ts, lib/credit-merge.ts, *)
(* lib/balance-check.ts, routes/households.ts, lib/money-reconcile.ts).    *)
(*                                                                         *)
(* A client serves one request at a time.  The reads before a transaction  *)
(* are one step; the transaction begins, takes its row locks one by one,   *)
(* then writes and commits in one step: nobody sees its writes before the  *)
(* commit, nor changes a row it holds.  A transaction can fail, its commit *)
(* can go unheard, and the process can crash between any two steps.        *)
(*                                                                         *)
(* One owner and one household member.  Merchants, kinds and currencies    *)
(* are left out; money is small numbers of minor units.                    *)
(***************************************************************************)
EXTENDS Integers, FiniteSetsExt

CONSTANTS
  Accounts,     \* account ids: numbers, locked in their order
  Opening,      \* the first deposit of the accounts in DOMAIN Opening
  Keys,         \* idempotency keys and return ids
  Clients,      \* request handlers
  Requests,     \* what clients ask for; asking for one again is a retry
  Cap,          \* the member's spendCapMinor
  None,         \* no account, or no client
  MaxEvents     \* bound on requests, failed transactions, unheard commits, crashes and edits

Kinds == {"none", "spend", "undo", "merge", "vault", "add", "check", "fix", "delete", "refund"}

Request == [kind : Kinds, acc : Accounts \cup {None}, to : Accounts \cup {None},
            amount : Nat, key : Keys \cup {None}]

ASSUME MoneyAssumption ==
  /\ Accounts \subseteq Nat
  /\ DOMAIN Opening \subseteq Accounts /\ \A a \in DOMAIN Opening : Opening[a] \in Nat
  /\ Requests \subseteq Request
  /\ \A r \in Requests :
       /\ r.kind # "none"
       /\ r.kind \notin {"add", "refund"} => r.acc \in Accounts
       /\ r.kind = "merge" => r.to \in Accounts \ {r.acc}
  /\ None \notin Accounts \cup Clients \cup Keys /\ IsFiniteSet(Clients)
  /\ Cap \in Nat /\ MaxEvents \in Nat

VARIABLES
  status,   \* money_accounts.status, "NONE" for no row
  cache,    \* money_accounts.balanceCacheMinor
  ledger,   \* money_ledger: a set of rows
  posted,   \* SUM(delta) of each account's rows
  clock,    \* transactions begun: a row's created_at is its transaction's now()
  lock,     \* the client whose transaction holds the account's row lock
  vault,    \* household_vault_settings.spentMinor, and what the member was charged
  client,   \* the clients
  events,   \* how many of MaxEvents there were
  edited    \* accounts whose cache was edited by hand

stored == <<status, cache, ledger, posted>>
bounds == <<events, edited>>
money == <<stored, clock, lock, vault, client, bounds>>

NoRequest == [kind |-> "none", acc |-> None, to |-> None, amount |-> 0, key |-> None]

NoClient == [pc |-> "idle", req |-> NoRequest, began |-> 0, seen |-> [a \in Accounts |-> 0]]

\* Accounts created by the app have a row of their deposit; an older one may have none.
OpeningRows ==
  {[acc |-> a, delta |-> Opening[a], type |-> "DEPOSIT", tag |-> "add", ref |-> <<a>>,
    after |-> Opening[a], at |-> 0] : a \in DOMAIN Opening}

MoneyInit ==
  /\ status \in {s \in [Accounts -> {"NONE", "ACTIVE"}] : \A a \in DOMAIN Opening : s[a] = "ACTIVE"}
  /\ cache = [a \in Accounts |-> IF a \in DOMAIN Opening THEN Opening[a] ELSE 0]
  /\ ledger = OpeningRows
  /\ posted = cache
  /\ lock = [a \in Accounts |-> None] /\ clock = 0
  /\ vault = [spent |-> 0, charged |-> 0, unheard |-> 0]
  /\ client = [p \in Clients |-> NoClient]
  /\ events = 0 /\ edited = {}

(***************************************************************************)
(* Reads of the ledger.                                                    *)
(***************************************************************************)
RowsOf(a) == {r \in ledger : r.acc = a}

\* findLedgerByRef: at most one row, by the unique index on (user_id, ref_id, type)
Found(type, ref) == {r \in ledger : r.type = type /\ r.ref = ref}

\* Mutant: no unique index.
TakenNever(type, ref) == FALSE

\* An insert of the ref fails on that index.
Taken(type, ref) == Found(type, ref) # {}

\* setAccountBalance's latest row, by created_at
LastAt(a) == Max({r.at : r \in RowsOf(a)} \cup {0})

(***************************************************************************)
(* Requests, and the steps that end them.  The pc of a client at rest is   *)
(* "idle", or its last answer, "paid" or "refused".                        *)
(***************************************************************************)
\* One of the events that MaxEvents bounds
Counted == events < MaxEvents /\ events' = events + 1

AtRest == {"idle", "paid", "refused"}

Ask(p, r) ==
  /\ client[p].pc \in AtRest
  /\ Counted
  /\ client' = [client EXCEPT ![p] = [NoClient EXCEPT !.pc = "find", !.req = r]]
  /\ UNCHANGED <<stored, clock, lock, vault, edited>>

Held(p) == {a \in Accounts : lock[a] = p}

Unlocked(p) == [a \in Accounts |-> IF lock[a] = p THEN None ELSE lock[a]]

\* The client's next step, outside of or at the end of a transaction; a refusal is the end of it.
Goes(p, pc) ==
  /\ client' = [client EXCEPT ![p] =
       [NoClient EXCEPT !.pc = pc, !.req = IF pc = "refused" THEN NoRequest ELSE client[p].req]]
  /\ lock' = Unlocked(p)

\* Only the client moves on.
Steps(p, pc) == Goes(p, pc) /\ UNCHANGED <<stored, clock, vault, bounds>>

\* db.transaction: BEGIN, on account a for the refund's choice of one
Begins(p, a) ==
  /\ clock' = clock + 1
  /\ client' = [client EXCEPT ![p].pc = "lock", ![p].began = clock', ![p].req.acc = a]
  /\ UNCHANGED <<stored, lock, bounds>>

Begin(p) == Begins(p, client[p].req.acc) /\ UNCHANGED vault

(***************************************************************************)
(* The reads before the transaction, one disjunct an outcome.              *)
(***************************************************************************)
Finding(p, kind) == client[p].pc = "find" /\ client[p].req.kind = kind

\* The spend of the key on the account
SpendOf(r) == {x \in Found("SPEND", r.key) : x.acc = r.acc}

\* POST /credits/:id/spend: a key used before is answered from its row.
FindSpend(p) ==
  LET r == client[p].req
      fresh == status[r.acc] # "NONE" /\ ~Taken("SPEND", r.key)
  IN  /\ Finding(p, "spend")
      /\ \/ fresh /\ Begin(p)
         \/ ~fresh /\ Steps(p, IF SpendOf(r) # {} THEN "paid" ELSE "refused")

\* The undo already posted for the key on the account
Undone(r) == \E x \in Found("DEPOSIT", r.key) : x.tag = "undo" /\ x.acc = r.acc

\* POST /credits/:id/undo-spend; the 60 s window may be over.
FindUndo(p) ==
  LET r == client[p].req
  IN  /\ Finding(p, "undo")
      /\ \/ status[r.acc] # "NONE" /\ Undone(r) /\ Steps(p, "paid")
         \/ (status[r.acc] = "NONE" \/ ~Undone(r)) /\ Steps(p, "refused")
         \/ status[r.acc] # "NONE" /\ ~Undone(r) /\ SpendOf(r) # {} /\ Begin(p)

\* mergeCreditAccounts: assertCreditsMergeable lets a closed source through, for a retry.
FindMerge(p) ==
  LET r == client[p].req
      refused == "NONE" \in {status[r.acc], status[r.to]} \/ status[r.to] = "CLOSED"
  IN  /\ Finding(p, "merge")
      /\ \/ refused /\ Steps(p, "refused")
         \/ ~refused /\ Begin(p)

\* The vault spend of the key, on the account and of the amount
VaultSpendOf(r) == {x \in SpendOf(r) : x.tag = "vault" /\ x.delta = -r.amount}

\* POST /households/:id/vault/spend: the replay of a key used before
FindVault(p) ==
  LET r == client[p].req
      fresh == status[r.acc] # "NONE" /\ ~Taken("SPEND", r.key)
  IN  /\ Finding(p, "vault")
      /\ \/ fresh /\ Steps(p, "reserve")
         \/ ~fresh /\ Steps(p, IF VaultSpendOf(r) # {} THEN "paid" ELSE "refused")

\* Mutant: reservations that do not look at the cap.
UnderCapUnchecked(p) == TRUE

\* tryReserveHouseholdVaultSpend's condition
UnderCap(p) == vault.spent + client[p].req.amount <= Cap

\* tryReserveHouseholdVaultSpend: one conditional update, then the post begins.
Reserve(p) ==
  LET r == client[p].req
  IN  /\ client[p].pc = "reserve"
      /\ \/ ~UnderCap(p) /\ Steps(p, "refused")
         \/ /\ UnderCap(p)
            /\ Begins(p, r.acc)
            /\ vault' = [vault EXCEPT !.spent = @ + r.amount]

\* POST /credits: createAccountWithLedgerEntry's first lookup
FindAdd(p) ==
  LET r == client[p].req
  IN  /\ Finding(p, "add")
      /\ Steps(p, IF Taken("DEPOSIT", r.key) THEN "paid" ELSE "insert")

\* Balance checks (r.amount: what the merchant or the user says), reconciliation, and the
\* clean-up of a shell lock the account at once.
FindOther(p) ==
  /\ client[p].pc = "find" /\ client[p].req.kind \in {"check", "fix", "delete"}
  /\ Begin(p)

(***************************************************************************)
(* SELECT ... FOR UPDATE, and mergeAccountInto's two rows in id order.     *)
(***************************************************************************)
Wanted(p) ==
  LET r == client[p].req IN IF r.kind = "merge" THEN {r.acc, r.to} ELSE {r.acc}

Rest(p) == Wanted(p) \ Held(p)

\* Mutant: a merge locks its source first.
NextRowSourceFirst(p) ==
  IF client[p].req.acc \in Rest(p) THEN client[p].req.acc ELSE client[p].req.to

\* The row a transaction locks next
NextRow(p) == CHOOSE a \in Rest(p) : \A b \in Rest(p) : a <= b

\* Mutant: a plain SELECT.
GrantedUnlocked(p, a) == TRUE

\* FOR UPDATE
Granted(p, a) == lock[a] = None

Lock(p) ==
  LET a == NextRow(p)
  IN  /\ client[p].pc = "lock"
      /\ Granted(p, a)
      /\ lock' = [lock EXCEPT ![a] = p]
      /\ client' = [client EXCEPT ![p].seen[a] = cache[a],
                                  ![p].pc = IF Rest(p) = {a} THEN "write" ELSE "lock"]
      /\ UNCHANGED <<stored, clock, vault, bounds>>

(***************************************************************************)
(* The end of a transaction: rolled back, or committed with its rows.      *)
(***************************************************************************)
\* Mutant: a duplicate is taken for the request's own row.
AfterErrorTrusting(kind, duplicate) ==
  CASE duplicate -> "paid"
    [] kind = "vault" -> "release"
    [] OTHER -> "refused"

\* Mutant: the refund's return is moved whatever the post's error was.
AfterErrorMoving(kind, duplicate) ==
  CASE kind = "vault" -> "release"
    [] kind \in {"spend", "undo"} /\ duplicate -> "reread"
    [] kind = "refund" -> "move"
    [] OTHER -> "refused"

\* The handler of a post's error: the duplicate of a ref is looked up again, the reservation of
\* a vault spend is given back first, and a refund goes on to its return.
AfterError(kind, duplicate) ==
  CASE kind = "vault" -> "release"
    [] kind \in {"spend", "undo"} /\ duplicate -> "reread"
    [] kind = "refund" /\ duplicate -> "move"
    [] OTHER -> "refused"

Fails(p, duplicate) == Steps(p, AfterError(client[p].req.kind, duplicate))

AfterCommit(kind) == IF kind = "refund" THEN "move" ELSE "paid"

\* appendLedgerRow's row on an account whose cache was read under the lock
Row(p, a, delta, type, ref) ==
  [acc |-> a, delta |-> delta, type |-> type, tag |-> client[p].req.kind, ref |-> ref,
   after |-> client[p].seen[a] + delta, at |-> client[p].began]

Charge(p) == IF client[p].req.kind = "vault" THEN client[p].req.amount ELSE 0

\* The rows and caches of a commit, heard or not
Commit(p, rows) ==
  LET Of(a) == CHOOSE x \in rows : x.acc = a
      moved == {x.acc : x \in rows}
  IN  /\ ledger' = ledger \cup rows
      /\ cache' = [a \in Accounts |-> IF a \in moved THEN Of(a).after ELSE cache[a]]
      /\ posted' = [a \in Accounts |-> IF a \in moved THEN posted[a] + Of(a).delta ELSE posted[a]]
      /\ UNCHANGED <<clock, edited>>
      /\ \/ /\ Goes(p, AfterCommit(client[p].req.kind))
            /\ vault' = [vault EXCEPT !.charged = @ + Charge(p)]
            /\ UNCHANGED events
         \/ /\ Counted
            /\ Goes(p, AfterError(client[p].req.kind, FALSE))
            /\ vault' = [vault EXCEPT !.charged = @ + Charge(p), !.unheard = @ + Charge(p)]

Writing(p, kind) == client[p].pc = "write" /\ client[p].req.kind = kind

\* postLedgerEntry: lockAccount, computeBalanceAfter, the insert and the update
Post(p, delta, type) ==
  LET r == client[p].req
      row == Row(p, r.acc, delta, type, r.key)
      fits == status[r.acc] # "NONE" /\ row.after >= 0
  IN  \/ ~fits /\ Fails(p, FALSE)
      \/ fits /\ Taken(type, r.key) /\ Fails(p, TRUE)
      \/ fits /\ ~Taken(type, r.key) /\ Commit(p, {row}) /\ UNCHANGED status

WriteSpend(p) == Writing(p, "spend") /\ Post(p, -client[p].req.amount, "SPEND")

WriteVault(p) == Writing(p, "vault") /\ Post(p, -client[p].req.amount, "SPEND")

WriteRefund(p) == Writing(p, "refund") /\ Post(p, client[p].req.amount, "REFUND")

\* The amount is the spend's, as read before; rows do not change.
WriteUndo(p) ==
  /\ Writing(p, "undo")
  /\ \E x \in SpendOf(client[p].req) : Post(p, -x.delta, "DEPOSIT")

\* Mutant: only the checks before the transaction.
OpenUnchecked(s, t) == TRUE

\* mergeAccountInto's check of the locked rows
Open(s, t) == "CLOSED" \notin {status[s], status[t]}

\* mergeAccountInto: the ref is the pair's, so a retry finds the first merge's rows.
WriteMerge(p) ==
  LET s == client[p].req.acc
      t == client[p].req.to
      amount == client[p].seen[s]
      found == "NONE" \notin {status[s], status[t]}
      done == found /\ Taken("TRANSFER_OUT", <<s, t>>)
      mergeable == found /\ Open(s, t) /\ amount > 0 /\ client[p].seen[t] + amount >= 0
  IN  /\ Writing(p, "merge")
      /\ \/ done /\ Steps(p, "paid")
         \/ ~done /\ ~mergeable /\ Steps(p, "refused")
         \/ /\ ~done /\ mergeable
            /\ Commit(p, {Row(p, s, -amount, "TRANSFER_OUT", <<s, t>>),
                          Row(p, t, amount, "TRANSFER_IN", <<s, t>>)})
            /\ status' = [status EXCEPT ![s] = "CLOSED"]

\* setAccountBalance, with the ref of applyBalanceDelta: the latest row and the target
WriteCheck(p) ==
  LET r == client[p].req
      delta == r.amount - client[p].seen[r.acc]
      type == IF delta > 0 THEN "DEPOSIT" ELSE "SPEND"
      ref == <<r.acc, LastAt(r.acc), r.amount>>
      known == delta = 0 \/ Taken(type, ref)
  IN  /\ Writing(p, "check")
      /\ \/ status[r.acc] = "NONE" /\ Fails(p, FALSE)
         \/ status[r.acc] # "NONE" /\ known /\ Steps(p, "paid")
         \/ /\ status[r.acc] # "NONE" /\ ~known
            /\ Commit(p, {Row(p, r.acc, delta, type, ref)}) /\ UNCHANGED status

\* reconcileAccountCache with fix: the sum is read under the lock.
WriteFix(p) ==
  LET a == client[p].req.acc
      drift == RowsOf(a) # {} /\ client[p].seen[a] # posted[a]
  IN  /\ Writing(p, "fix")
      /\ cache' = IF drift THEN [cache EXCEPT ![a] = posted[a]] ELSE cache
      /\ Goes(p, "paid")
      /\ UNCHANGED <<status, ledger, posted, clock, vault, bounds>>

\* deleteOrphanMoneyAccount
WriteDelete(p) ==
  LET a == client[p].req.acc
      orphan == client[p].seen[a] = 0 /\ RowsOf(a) = {}
  IN  /\ Writing(p, "delete")
      /\ status' = IF orphan THEN [status EXCEPT ![a] = "NONE"] ELSE status
      /\ Goes(p, "paid")
      /\ UNCHANGED <<cache, ledger, posted, clock, vault, bounds>>

\* purgeOrphanMoneyAccounts: one statement, which waits for a locked row
Purge ==
  LET orphans == {a \in Accounts : status[a] # "NONE" /\ cache[a] = 0 /\ RowsOf(a) = {}}
  IN  /\ orphans # {} /\ \A a \in orphans : lock[a] = None
      /\ status' = [a \in Accounts |-> IF a \in orphans THEN "NONE" ELSE status[a]]
      /\ UNCHANGED <<cache, ledger, posted, clock, lock, vault, client, bounds>>

\* createAccountWithLedgerEntry's transaction: the account and its row, or nothing when a twin
\* committed the ref first and the account that holds it is looked up
Insert(p) ==
  LET r == client[p].req
      type == IF r.kind = "add" THEN "DEPOSIT" ELSE "REFUND"
  IN  /\ client[p].pc = "insert"
      /\ \/ Taken(type, r.key) /\ Steps(p, AfterCommit(r.kind))
         \/ /\ ~Taken(type, r.key)
            /\ \E a \in Accounts :
                 /\ status[a] = "NONE" /\ lock[a] = None
                 /\ status' = [status EXCEPT ![a] = "ACTIVE"]
                 /\ Commit(p, {Row(p, a, r.amount, type, r.key)})

(***************************************************************************)
(* After a post's error.                                                   *)
(***************************************************************************)
\* Mutant: given back by the handler and again on the way out, with no floor.
ReleasedTwice(spent, amount) == spent - 2 * amount

\* greatest(spentMinor - amount, 0)
Released(spent, amount) == IF spent > amount THEN spent - amount ELSE 0

\* releaseHouseholdVaultSpend
Release(p) ==
  /\ client[p].pc = "release"
  /\ vault' = [vault EXCEPT !.spent = Released(@, client[p].req.amount)]
  /\ Goes(p, "reread")
  /\ UNCHANGED <<stored, clock, bounds>>

\* The row that answers the request after all
Answered(r) ==
  CASE r.kind = "spend" -> SpendOf(r) # {}
    [] r.kind = "vault" -> VaultSpendOf(r) # {}
    [] r.kind = "undo"  -> Undone(r)
    [] OTHER -> FALSE

Reread(p) ==
  /\ client[p].pc = "reread"
  /\ Steps(p, IF Answered(client[p].req) THEN "paid" ELSE "refused")

(***************************************************************************)
(* Faults, and hands on the database.                                      *)
(***************************************************************************)
\* A transaction rolled back by the database: withTxRetry runs it again after 40001 and 40P01,
\* and rethrows any other error, or the last of three.
Aborts(p) ==
  /\ Counted
  /\ \/ /\ client[p].pc \in {"lock", "write"}
        /\ lock' = Unlocked(p)
        /\ clock' = clock + 1
        /\ client' = [client EXCEPT ![p].pc = "lock", ![p].began = clock']
     \/ /\ client[p].pc \in {"lock", "write", "insert"}
        /\ Goes(p, AfterError(client[p].req.kind, FALSE))
        /\ UNCHANGED clock
  /\ UNCHANGED <<stored, vault, edited>>

\* The process dies: an open transaction is rolled back, the request is not answered.
Crash(p) ==
  /\ client[p].pc \notin AtRest
  /\ Counted
  /\ lock' = Unlocked(p)
  /\ client' = [client EXCEPT ![p] = NoClient]
  /\ UNCHANGED <<stored, clock, vault, edited>>

\* The manual edit that reconciliation is for
Edit(a) ==
  /\ status[a] # "NONE" /\ lock[a] = None /\ a \notin edited
  /\ Counted
  /\ edited' = edited \cup {a}
  /\ \E n \in {cache[a] - 1, cache[a] + 1} \cap Nat : cache' = [cache EXCEPT ![a] = n]
  /\ UNCHANGED <<status, ledger, posted, clock, lock, vault, client>>

MoneyStep(p) ==
  \/ \E r \in Requests : Ask(p, r)
  \/ FindSpend(p) \/ FindUndo(p) \/ FindMerge(p) \/ FindVault(p) \/ FindAdd(p) \/ FindOther(p)
  \/ Reserve(p) \/ Lock(p) \/ Insert(p) \/ Release(p) \/ Reread(p)
  \/ WriteSpend(p) \/ WriteVault(p) \/ WriteRefund(p) \/ WriteUndo(p)
  \/ WriteMerge(p) \/ WriteCheck(p) \/ WriteFix(p) \/ WriteDelete(p)
  \/ Aborts(p) \/ Crash(p)

MoneyNext ==
  \/ \E p \in Clients : MoneyStep(p)
  \/ Purge
  \/ \E a \in Accounts : Edit(a)


(***************************************************************************)
(* Properties.                                                             *)
(***************************************************************************)
Pcs == AtRest \cup {"find", "reserve", "lock", "write", "insert", "release", "reread", "move"}

Rows(S) ==
  \A r \in S : r.acc \in Accounts /\ r.delta \in Int /\ r.after \in Int /\ r.at \in Nat

\* The state the queries read and write, and who is where in them.
MoneyTypeOK ==
  /\ status \in [Accounts -> {"NONE", "ACTIVE", "CLOSED"}]
  /\ cache \in [Accounts -> Int] /\ posted \in [Accounts -> Int] /\ Rows(ledger)
  /\ lock \in [Accounts -> Clients \cup {None}]
  /\ clock \in Nat /\ vault \in [spent : Nat, charged : Nat, unheard : Nat]
  /\ client \in [Clients -> [pc : Pcs, req : Request, began : Nat, seen : [Accounts -> Int]]]
  /\ events \in 0 .. MaxEvents /\ edited \subseteq Accounts

Drift(a) == cache[a] - posted[a]

\* No write of the app moves an account's cache away from the sum of its ledger: a drift made by
\* hand stays what it is, under any concurrent posts, until a reconciliation removes it whole.
\* A post from a stale balance, or a sum written over a concurrent spend, would change it.
DriftOnlyHealed ==
  [][\A a \in Accounts : a \in edited' \ edited \/ Drift(a)' \in {Drift(a), 0}]_money

WaitsFor(p, q) == client[p].pc = "lock" /\ lock[NextRow(p)] = q

\* A transaction waits for a lower row than the one its holder waits for, so transactions never
\* wait for each other in a circle: mergeAccountInto locks its two rows in id order.
LocksAscend ==
  \A p, q \in Clients :
    WaitsFor(p, q) /\ client[q].pc = "lock" => NextRow(p) < NextRow(q)

\* The member's reservations cover what was charged, through concurrent spends, replays, failed
\* posts and crashes, and stay under the cap.  The one exception is a commit whose answer was
\* lost: the handler takes it for a failed post and gives the reservation back.
CapCoversCharges ==
  /\ vault.charged <= vault.spent + vault.unheard
  /\ vault.spent <= Cap

\* Concurrent spends never take more from an account than was put on it, unless its cache was
\* edited by hand: the balance a post starts from is the one it replaces.
NeverOverdrawn == \A a \in Accounts \ edited : posted[a] >= 0

\* Merges never close every account, so merged money is on one that is listed: two merges in
\* opposite directions, or a retry after another merge, cannot both close their source.
MergesLeaveOneOpen ==
  (\E a \in Accounts : status[a] = "CLOSED") => \E a \in Accounts : status[a] = "ACTIVE"

\* A request answered as done is on the ledger, on the account it named, also when the answer
\* came from a replay, or from a row that another try with the same key posted first.
AnswersHold ==
  \A p \in Clients :
    LET r == client[p].req
    IN  client[p].pc = "paid" =>
          /\ r.kind \in {"spend", "vault", "undo"} => Answered(r)
          /\ r.kind = "undo" => \E x \in Found("DEPOSIT", r.key), y \in SpendOf(r) : x.delta = -y.delta
          /\ r.kind = "merge" => status[r.acc] = "CLOSED"
          /\ r.kind = "add" => Taken("DEPOSIT", r.key)
          /\ r.kind = "refund" => Taken("REFUND", r.key)

(***************************************************************************)
(* The transactions together behave as the indivisible steps of MoneyBook: *)
(* a request writes one row, or the two of a merge, for all its tries, on  *)
(* the balance of that moment, whatever ran, failed or was retried between *)
(* its reads, its locks and its commit.                                    *)
(***************************************************************************)
Book == INSTANCE MoneyBook WITH balance <- cache, sum <- posted, rows <- ledger
ImplementsBook == Book!Spec
=============================================================================
