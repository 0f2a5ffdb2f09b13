# Verification of the Worn API

TLA+ models of the parts of Worn where order, money and restarts meet: the
delivery of orders, the reveal renders, the coin ledger, the checkout, the
money ledger with the returns refunded to it, the sessions of a user, and the
queued jobs on a user's vault up to its erasure. TLC checks them on small
instances; TLAPS proves the theorems listed below for every value of the
constants.

Worn is a mobile "shopping game": a customer spends coins on a haul, the haul
is "delivered" over minutes or hours by timers in the API process, and on
delivery the API generates pictures of the customer wearing it, two free for
each item and the others behind a coin paywall. Beside it the app keeps a
customer's real gift cards, store credit, returns and wardrobe. The API is one
Node process (docs/DEPLOY.md: "One instance only") over PostgreSQL; a worker
process runs jobs that the API queues in Redis with BullMQ.

    DeliveryArc          states, rungs, promised times, rush plan (no state)
    OrderLifecycle       what the delivery of an order promises
    OrderArc             timers, chains, rushes, restarts     implements OrderLifecycle
    OrderArcProofs       its theorems
    RevealRenders        from DELIVERED to the reveal, unlocks, generated renders
    RevealRendersProofs  its theorems
    CoinWallet           what the coin ledger promises
    CoinLedger           coin transactions, by statement      implements CoinWallet
    CoinLedgerProofs     its theorems
    Checkout             cart, idempotent checkout, referral reward
    CheckoutProofs       its theorems
    MoneyBook            what the money ledger promises
    MoneyLedger          gift cards and store credit: posts, merges, checks, vault spends
                                                              implements MoneyBook
    Returns              returns and their refunds, on MoneyLedger
    ReturnsProofs        the theorems of both
    Sessions             sign-in, refresh tokens, the app's session and its copy on disk
    SessionsProofs       its theorems, and the lemmas of its steps
    Erasure              try-on pictures and DELETE /vault as queued jobs, on Sessions
    ErasureProofs        its theorems, and those of sessions that an erasure runs into
    SumProofs            lemmas about the sum of a function, for Checkout and MoneyLedger
    MC*                  instances for TLC, one module per component

## 1. Inventory

| Part | State | Operations | What is hard | What makes it correct |
|---|---|---|---|---|
| Delivery ladder (`lib/jobs/order-*.ts`, `lib/orders/state-machine.ts`) | `orders` row; timers and `orderChains` in memory | arm the ladder, timer fires, transition job | due-together timers, crash, errors in a job | one rung at a time, never early, pushes in order, always delivered |
| Rush (`lib/orders/rush.ts`) | `orders`, coins | plan, commit, re-arm | plan read before the lock, old timers stay | one charge, promises only brought forward, never refused for racing |
| Job queue (`lib/jobs/queue.ts`) | arrays and timers in memory | enqueue, run, report | a failed job is not run again | a step is always covered by a job |
| Start-up (`lib/jobs/resume.ts`, `index.ts`) | reads the database | requeue renders, check delivered orders, arm timers | runs before serving, may stop half-way | nothing in flight is lost or queued twice |
| Reveal renders (`lib/render/pipeline.ts`) | `renders`, `orders.state` | seed, run a job, check readiness | whole-row write-back, jobs that finish together, catch-all | announced once, ready exactly when free renders are done, eventually ready |
| Reveal purchases (`routes/reveal.ts`, `unlockOrderRenders`, `purchaseRender`) | `renders.unlocked`, `coin_ledger` | unlock, generate | retries, concurrent requests, jobs writing the same row | charged once for what is unlocked; what is paid gets made |
| Coin ledger (`postgres.ts` coin writes, `lib/coin-purchases.ts`, `lib/iap/notifications.ts`) | `coin_ledger`, `users.coin_balance_cache`, `iap_receipts` | grant, spend, credit, refund | concurrent transactions, repeated and overtaking notifications | entries chain, no negative balance, a purchase settles once |
| Checkout (`lib/orders/checkout.ts`, `routes/cart.ts`) | `cart_items`, `orders`, coins | add, remove, check out | retries, two devices, crash between steps | one order per key, charge equals order, reward once |
| Push (`lib/push/*.ts`) | `push_events` | send | slow, may be lost in a crash | never fails the job that sends |
| Money ledger (`packages/db/src/queries/money.ts`, `routes/credits.ts`, `lib/credit-merge.ts`, `lib/balance-check.ts`, `lib/money-reconcile.ts`) | `money_accounts`, `money_ledger` | post, undo, merge, check, add, reconcile, delete | retries, lost commits, lock order, drift | one row per ref, the cache moves with its ledger, no deadlock, no overdraft |
| Household vault (`routes/households.ts`, `tryReserveHouseholdVaultSpend`) | `household_vault_settings` | reserve, post, release, replay | post fails or is not heard of | what is charged stays under the cap |
| Returns (`routes/returns.ts`, `lib/return-jobs.ts`, `lib/returns/state-machine.ts`) | `return_requests` | open, move, expire, refund | reads before guarded updates, the refund and the move are two writes | refunded means credited, credited never reopens |
| Sign-in (`lib/auth`, `routes/auth.ts`) | `otp_codes`, `refresh_tokens`, `users` | send, verify, find or create, grant, rotate, revoke | concurrent sign-ins, crash between two writes | one grant, a token is good once |
| Mobile session (`api/client.ts`, `stores/session*.ts`, `lib/signOut.ts`) | the session store, the secure store | sign in, renew, sign out, save, reopen | calls that expire together, answers after the session ended, writes that overtake | the held pair is good, nobody keeps another, the copy catches up |
| Worker queues (`packages/shared/src/queues.ts`, `jobs/runner.ts`, `lib/queues/enqueue.ts`) | Redis, `job_dead_letters` | queue, attempt, time out, stall, settle | at-least-once delivery, attempts that outlive their time | every job ends and its row is settled |
| Previews (`jobs/wardrobe-tryon.ts`, `jobs/fit-preview.ts`, `routes/wardrobe.ts`) | `tryon_previews`, `fit_previews`, object storage | claim, render, put, finish, fail | stale claims, late finishes | a ready picture stays, none stuck in PROCESSING |
| Erasure (`routes/vault.ts`, `jobs/privacy-erase.ts`, `deleteAllUserData`) | `privacy_requests`, all rows and objects of a user | ask, collect, delete rows, delete objects | retries from any step, failed deletes, sign-ins at the same time | nothing forgotten, no session outlives its user, it ends |
| Swaps, EMI, cashback, exports, Gmail sources | rows of their own | guarded updates, jobs | retries | not modelled |

How they interact. Checkout charges coins and arms the ladder; the ladder's
last step hands the order to the reveal through `onDelivered`; the reveal's
purchases and the rush charge coins; the start-up re-arms ladder and reveal
from the rows. All of them share the user's row lock for coin writes, and one
event loop: two pieces of code interleave only where one of them awaits. A
refund, of a return or of a failed package, posts to the money ledger under the
return's id and then moves the return; household members spend from an owner's
accounts. The worker interleaves with the API at every statement, and an
erasure takes the user's row from under the sign-ins and renewals that are on
their way.

## 2. What is modelled, module by module

Every statement the code awaits is a step of its own, so whatever another
request, timer or job can do in between is explored. A transaction that locks
the rows it depends on is one step in OrderArc, RevealRenders and Checkout;
CoinLedger is where that is justified, statement by statement.

### DeliveryArc, OrderLifecycle, OrderArc

`state`, `tier`, `placedAt`, `eta` are the columns of `orders`, `eta` being
`state_eta`; `balance` is the user's coin balance. In memory: `jobPc`, `jobDue`
and `jobSeen` describe the jobs of `enqueueOrderTransition` (a timer that is
armed, a job waiting in its chain, between its read and its compare-and-set,
sending the push); `chain` is `orderChains`; `rush` holds the rush requests;
`arming` the checkouts between the order's transaction and
`scheduleOrderLadder`; `todo` what `resumeInFlightWork` still has to arm.

| Action | Code |
|---|---|
| PlaceOrder, ArmLadder | `placeOrder`, then `scheduleOrderLadder` in `checkoutOrder` |
| TimerFires | the `setTimeout` callback and `runOrderTransition` |
| ReadOrder, UpdateOrderState, SendPush | `handleOrderTransition` |
| JobFails | the `catch` of `runJob` |
| StartRush, PlanRush, CommitRush, ArmRush, RushFails | `rushOrderToExpress` and its route |
| Restart, ResumeOrder, ResumeFails | `main` and `resumeInFlightWork` |

OrderLifecycle is the same delivery with no queue and no process. OrderArc
implements it with the identity mapping on `now`, the columns and `balance`
(`ImplementsLifecycle`).

Abstractions. Timers have the unit of `Timing`; a timer may fire any time after
it is due. `scheduleOrderLadder` reads the order and arms in one step: a read
that is stale arms steps already taken, whose jobs do nothing. An order whose
`state_eta` misses a step (older rows) is not modelled, nor are CANCELLED,
FAILED and PENDING, which nothing in the code moves an order to. The
"Order confirmed" push of the checkout is not in `sent`.

### RevealRenders

One order from ARRIVING_SOON on. `status` and `unlocked` are columns of
`renders`; `handoff` is how far the delivery step and the seeding have got;
`pending` is `renderPending`; `pc`, `job`, `snap` are the running jobs, `snap`
being the `unlocked` flag that `updateRender` has read and will write back;
`request` the unlock and generate requests that have committed and not queued
their jobs; `todo` what the start-up still has to queue. `charges` and
`usedKeys` are the ledger entries, per render and per unlock key.

| Action | Code |
|---|---|
| Deliver, SendDeliveredPush | `handleOrderTransition` for DELIVERED |
| SeedRead, SeedCreate, SeedEnqueue, SeedFails | `enqueueFreeRendersForOrder`, `seedOrderRenders` |
| StartJob ... MarkFailed, JobDbFails | `processRenderJob`, each `updateRender` as a read and a write |
| CheckRenders, MarkRevealReady, SendRevealPush | `checkAndMarkRevealReady` |
| Unlock, Generate, EnqueueRequested | `routes/reveal.ts`, `unlockOrderRenders`, `purchaseRender` |
| Restart, ListPendingRenders, Requeue, ResumeOrder, ResumeFails | `main`, `resumeInFlightWork` |

Abstractions. Any waiting job may start next and as many run as there are
`Workers`: the unlock and generate routes call `flushRenderJobs`, which acts as
one more worker. Refusals and replays change nothing and are left out. Pushes
go through `lib/push/expo.ts`, which never throws. The provider answers or fails
at once; how long it takes is when the next step happens. A generate request
without a key is one whose render nobody asks for again.

### CoinWallet, CoinLedger

A transaction (`tx`) is a program counter over the statements of `grantCoins`
(which stands for every coin write under the user's lock: `spendCoins`,
`placeOrder`, `rushOrderToExpress`, `unlockOrderRenders`, `purchaseRender`,
`claimStreak`), `creditCoinPurchase` or `refundCoinPurchase`. `lock` is the row
lock on `users`, `claim` an uncommitted row of `iap_receipts` that others wait
for on the unique index. What a transaction writes is kept in `tx.write` and
becomes visible at `Commit`; `Rollback` can come at any point, and stands for
errors, lost connections and the victim of a deadlock. `at` is `created_at`.
CoinLedger implements CoinWallet with the balance that `lockedCoinBalance`
would read (`ImplementsWallet`).

The receipt's own `for update` is left out: whoever takes it already holds the
owner's row lock.

### Checkout

One referred customer. A cart row is named by the request that inserted it, so
that two rows of one variant can exist, as the schema allows. `checkout` holds
the requests: the rows they read, where they are, what they answered. The
refusals of `checkoutOrder` (items off sale, cooling-off) are one step that may
happen to any checkout. Prices do not change (a row keeps its snapshot).

### MoneyLedger, Returns, and MoneyBook

`status` and `cache` are columns of `money_accounts`, `ledger` the rows of
`money_ledger`, and `posted` the sum that reconciliation computes from them.
`client` holds the requests under way: where they are, when their transaction
began (`began`, which becomes the row's `created_at`) and the balances read
under the locks (`seen`). `lock` is the row lock of `lockAccount`. `vault` is
`spent_minor`, and, as history, what members were charged and what of it was
charged by a commit nobody heard of. `ret` is `return_requests.state`; `late`
says whether its window is over.

| Action | Code |
|---|---|
| FindSpend, WriteSpend | `POST /credits/:id/spend`, `postLedgerEntry` |
| FindUndo, WriteUndo | `POST /credits/:id/undo-spend` |
| FindMerge, WriteMerge | `mergeCreditAccounts`, `mergeAccountInto` |
| FindVault, Reserve, WriteVault, Release | `POST /households/:id/vault/spend` and its reservation |
| FindAdd, Insert | `POST /credits`, `createAccountWithLedgerEntry` |
| FindOther, WriteCheck, WriteFix, WriteDelete, Purge | `setAccountBalance`, `reconcileAccountCache`, `deleteOrphanMoneyAccount`, `purgeOrphanMoneyAccounts` |
| Lock | `lockAccount`, and the ordered lock of `mergeAccountInto` |
| Reread | the handlers of a duplicate ref |
| Aborts, Crash, and the second half of Commit | `withTxRetry`, a dying process, a commit whose answer is lost |
| OpenReturn, Initiate, Pickup, Confirm, WindowEnds, CorrectWindow, ExpireOverdue | the routes of a return, each one guarded update |
| FindRefund, WriteRefund, MoveRefund | `POST /returns/:id/refund`, `reconcileRefund` |

Abstractions. The reads before a transaction are one step, and so are the
writes of a transaction with its commit: nobody sees them earlier, and it holds
the rows it changes. An account is of one merchant, kind and currency. `ref` of
a merge is the pair of accounts, that of a check is the account, its latest row
and the target, as the code builds them. A hand's edit of a cache (`Edit`) is
what `reconcileMoneyAccounts` exists for. A refund of nothing posts no row
(`return-jobs.ts:221`) and is excluded by `ReturnAssumption`.

MoneyBook is what all of this amounts to: one step writes a row (`Post`, `Open`)
or the two rows of a merge (`Merge`), new for its type and reference, on the
balance of that moment, and nothing else touches a balance but a reconciliation
and a hand. MoneyLedger implements it with `balance` as `cache`, `sum` as
`posted` and `rows` as `ledger`. Requests, locks, `seen`, the reads before a
transaction and what its answer does are not in it: each commit is one step of
MoneyBook, everything else none. A merge whose source has nothing, or whose
target is not open, is no step of it.

### Sessions

The server: `known` the rows of `users`, `grants` the onboarding grants, `code`
the codes that can be redeemed, `live` the rows of `refresh_tokens`, `expired`
the access tokens past their time, `handler` the requests under way. The app:
`session` is the session store, `renewal` the shared promise `renewing` of
`api/client.ts`, `call` the calls that are open, `store` the secure store with
the write under way and the value waiting for it. A pair of tokens is a number;
`who`, `mixed` and `withheld` are history. A renewal reads its answer in two
awaits: the headers (`Renewing`), where the session is compared, and the body
(`Body`, or `LeftBody` when the session has ended and the pair is to be revoked).

| Action | Code |
|---|---|
| SendCode, SignIn, Verify, Find, Insert, Grant, Save | `verifyAndLogin`, `loginWithGoogleProfile`, `createUser`, `issueTokens` |
| Consume, Save | `refreshAccessToken` |
| Revoke, LoseRevoke | `POST /auth/logout`, best effort |
| SignedIn, SignOut | `setSession`, `signOut` |
| Send, Reply, Renewing, Body, LeftBody | `apiFetch`, `refreshSession`, `renewSession` |
| Land | `saveStoredSession` and its writer |
| GiveUp, Kill | `fetchWithTimeout`, an app killed and opened again |
| DatabaseErrs, Crash | an await of a handler that throws (a 500), an API process that dies |

Abstractions. Access tokens expire at any time. Wrong codes, rate limits and the
week a refresh token lasts are left out: each is a refusal, which `Verify` and
`Consume` have. There is one device; `HasPairs` in Erasure also starts with a
pair on another one.

### Erasure

Sessions and the worker. `preview` is the item's row of `tryon_previews` and how
often it was claimed, which names its jobs; `storage` the objects; `request` the
ERASE rows of `privacy_requests`; `asking` the routes between their row and
their job; `job` what Redis knows of each job; `run` the handlers that run, with
what they keep in local variables, and whether the queue still awaits them.

| Action | Code |
|---|---|
| Claim, Queue, QueueFails | `POST /wardrobe/:id/tryon`, `claimWardrobeTryon`, `enqueueJob` and the release of the claim |
| AskErasure | `DELETE /vault`, `createPrivacyRequest` |
| Take, Errs, Returns, Throws, Settle | `createJobProcessor`, `isFinalAttempt`, `onFinalFailure` |
| Outlives, WorkerDies | `withTimeout`, stalled jobs, `attachStalledDeadLetters` |
| ReadPreview, Render, Put, Finish | `handleWardrobeTryon`, `failWardrobeTryonJob` |
| ReadRequest ... FinishErasure | `privacyErase`, one action per await |
| DeleteRows | `deleteAllUserData`, with the foreign keys' effect on sign-ins, and a renewal's that finds no user |

Abstractions. Redis keeps what it has accepted. Claims may be stale and failed
pictures retried at any time. The selects of `listUserStorageKeys` are one step,
as are the reads of a try-on. Gmail sources are left out of the erasure.

## 3. Runs

| Run | Instance | Shows |
|---|---|---|
| order_safety | one order, 2 rushes, 1 restart, 2 tiers | OrderArc implements OrderLifecycle; `PushesClimb`; `RushNeverGivesUp` |
| order_live | one order, 1 rush, 2 restarts, 1 error, fairness | `NextStepCovered`, `EventuallyDelivered` |
| reveal_safety | 2 free, 2 paid, 1 generated render, 2 requests, 2 workers, 2 restarts, 1 error | `ChargedOnceForWhatIsUnlocked`, `OneJobPerRender`, `RevealPushedOnce` |
| reveal_live | 2 free, 1 paid, 1 generated, 2 restarts, fairness | `RevealReadyMeansFreeDone`, `EventuallyRevealReady`, `PaidRenderFinishes` |
| coin_ledger | 2 users, 1 purchase, 2 transactions, 3 starts or so within 6 clock ticks | CoinLedger implements CoinWallet; `LedgerChains`, `PurchasesSettle` |
| checkout_safety | a checkout, its retry, a keyless one, 3 cart adds, 1 crash, 1 error | `OneOrderPerKey`, `ChargedWhatWasOrdered`, `RewardedOnce` |
| returns_safety | 3 accounts, 1 return, 2 clients, 11 requests, 3 events | `LocksAscend`, MoneyLedger implements MoneyBook; `CapCoversCharges`, `MergesLeaveOneOpen`, `AnswersHold`, `DriftOnlyHealed`, `RefundedMeansCredited`, `CreditedNeverReopens` |
| accounts | 1 user, 2 calls, 2 handlers, 3 pairs, 2 faults; 1 item, 2 workers, 2 attempts, 2 claims, 2 erasures, 2 mishaps; fairness | `HeldPairIsGood`, `OnlyHeldPairsLive`, `OnboardingGrantedOnce`, `StoreCatchesUp`, `CallsAnswered`, `PictureStays`, `NoPreviewForgotten`, `NothingForgotten`, `ErasureEnds` |
| reveal_seeding | no crash, no error | violated: a render generated before the seeding suppresses the free ones |
| reveal_failed_done | one database error | violated: REVEAL_READY with a free render FAILED |
| checkout_referral | no crash, no error | violated: overlapping first checkouts earn no reward |
| sessions_late_body | no fault, 2 users | violated: a renewal whose session ended becomes the session |

Why the bounds are enough. One order: orders share nothing but the balance,
and another order's charge is a lower starting balance, which the runs draw
from a range. Two tiers whose steps are 1,2,3,4 and 1,3,4,5: a rush then finds
every mix of steps behind, due and ahead, and equal times. Two rushes, free
renders, transactions or checkouts are what it takes to race; a third adds
orders of the same races. Two restarts: one while the first start-up is still
at work. `MaxTime` leaves an order placed at any time the room to be delivered
(`PlaceOrder` requires it); timers that are due still fire when the clock has
stopped. `MaxClock` bounds a coin run to a few transactions, enough for a
credit, a spend and a refund, in every order.

`returns_safety`: `MaxEvents` counts requests and faults together, so that three
requests, or two with a fault, or one with two, meet: a spend, its retry and a
lost commit; two merges and a third. Accounts 1 and 2 have money, 3 may be an
empty shell or not there. Keys are shared between requests of several kinds, as
clients may reuse them. `accounts`: `MaxBoth` allows three pairs with one fault
or two with two. `AccountInit` starts the bounds where they matter instead of
multiplying them: a fresh device; a device (or another one) that is signed in,
with an erasure on its way; a vault whose pictures, erasures, or both, use up
`MCBounds`. Two workers let an attempt that was given up meet the next one, two
attempts have a last one, two erasures let a request follow one that failed.

CHECK_DEADLOCK is off in all configurations, since the bounded systems do stop:
delivered orders, finished requests, a clock at its bound.

Fairness. `order_live`: the clock, armed and due timers, chained jobs, the
steps of a request and of the start-up. `reveal_live`: the same, and provider
calls, which end (they have timeouts; a failure is an end). This is what a
running event loop does; restarts are bounded and thus eventually stop.
`accounts`: the server's handlers as a whole, the app's step at the headers of
a renewal's answer, and Redis with the worker as a whole (`Works`): each is an
event loop that does something while there is something to do, not every job at
once. The bodies of answers have no fairness: `fetchWithTimeout` clears its
timer when the headers are there (`client.ts:232`, `239`), and `res.json()` is
awaited without a deadline (`client.ts:153`, `166`).
Customers' actions, crashes and database errors have no fairness. No strong
fairness is assumed.

What the liveness properties do not say. After a database error in a step's
job or in the start-up, the order waits for the next restart
(`EventuallyDelivered` allows it, `lost`). A free render that failed is never
run again, so its order stays DELIVERED (`EventuallyRevealReady` allows it).
`ErasureEnds` allows a job that a crash lost between its row and its queue (the
next DELETE queues it again), and attempts that overlap. `CallsAnswered` allows
calls to wait for good behind the body of a renewal's answer that never ends.

## 4. What the runs found

Each is an entry of "findings" in PROJECT.json with its run.

1. `seedOrderRenders` takes any row as "seeded": a render that the customer
   generates between DELIVERED and the seeding suppresses the free renders, and
   the order never becomes REVEAL_READY.
2. The check for readiness runs inside the job's `try`: an error there marks a
   finished free render FAILED, with the order possibly ready.
3. The referral reward is decided by counting orders after the commit: two
   overlapping first checkouts both count two.
4. `renewSession` compares the session with the one it renews before it awaits
   the answer's body, and replaces the session after it: a user who signs out
   (or a second who signs in) in between finds the first's tokens in the session
   (`client.ts:171`; the comment at `client.ts:149` says they are revoked).

Met while modelling, and kept as exceptions in the properties or as notes:

- A vault spend whose commit is not heard of is answered "Nothing was charged"
  (`households.ts:626`) and frees its reservation, though it may be charged
  (`vault.unheard` in `CapCoversCharges`). A crash between reservation and post
  keeps the reservation for good.
- Undo and refund post to an account that was closed by a merge after they
  chose it; the money is then on a closed account.
- `setAccountBalance` takes the row with the latest `created_at`, the start of
  its transaction, which need not be the last one committed.
- A credited return whose window ends before it is moved becomes EXPIRED and
  frees its purchase line, so a second return of the line can be credited too
  (`CreditedNeverReopens` allows EXPIRED for this).
- `expireNow` expires a return on a deadline read before it was corrected.
- `apiFetch` repeats a call that was answered 401 with whatever pair the session
  then has, which may be the next user's (`client.ts:255`).
- A body of a renewal's answer that neither arrives nor breaks off leaves
  `renewing` set: every call answered 401 from then on waits for it until the app
  is killed. TLC shows it at once when `CallsAnswered` loses `<>[]Reading`.
- An error of `getCoinBalance` or `grantCoins` (`tokens.ts:40`, `43`), or a crash
  before the grant, leaves a user's row without the onboarding coins: the next
  sign-in is not a new user's (`withheld` in `OnboardingGrantedOnce`).
- Attempts of one erasure that overlap, after a time-out or a stall, can write
  an empty outbox over a full one, and objects are then never deleted: TLC shows
  it at once when `NothingForgotten` loses its premise on `outlived`.
- A picture put into storage after the erasure collected its keys, or whose row
  was never finished, stays there after DONE. `due` holds what the erasure found.
- The outbox of an erasure that FAILED is not worked off by the request that
  follows it: the user's rows are gone, and the new request lists nothing.

## 5. Proofs

`tlapm` checks the modules from nothing. The assumptions are the named ASSUMEs
of the component modules (finite sets, disjoint kinds of renders, naturals,
coin packs that are worth something), which TLC evaluates in the runs.

**RevealRendersProofs.** `TypeCorrect`, `ChargedOnce`, `PushedOnce`, `NoSecondJob`,
`ReadyMeansDone`.
`ChargedOnceForWhatIsUnlocked` is not inductive: a render job writes back an
`unlocked` flag it read earlier, so an unlock that commits in between would be
undone, and seeding writes the flags of all rows. The invariant `Safe` adds why
this never happens: a job, from the moment somebody is about to queue it until
it ends, belongs to a render that is unlocked already (`RunningUnlocked`,
`WaitingUnlocked`), rows of free and generated renders are unlocked
(`RowsUnlocked`), and seeding only creates rows that are not there
(`SeedingCreates`). One step per action in `NextSafe`. `PushedOnce` needs `Once`: the
order leaves DELIVERED by one compare-and-set, so at most one process is ever
about to push, and none after a push or before REVEAL_READY. `NoSecondJob` needs
`Single`: a render's job is in one place, waiting, running, or with the one
process about to queue it. Whoever takes a render on finds it untouched: it was
locked until now, or had no row (`LockedUntouched`, from `Safe`), or the process
has just started. Seeding finds no rows of its own (`FirstRows`), which is why it
never queues what the start-up has queued.

`ReadyMeansDone` is `RevealReadyMeansFreeDone` until the database's first error
(run `reveal_failed_done` shows that it ends there). A render that is done must
not be written again by a job that runs late or twice. `Finished` says that one
about to write a status is of a render not done, and so is one the start-up still
has to queue; since a render has one job (`Single`), its end cannot be followed
by another's write. Whoever counts the free renders also needs them all there:
seeding writes them at once, so one that exists means that all do.

**CoinLedgerProofs.** `LedgerTypes`, `Chains`, `LedgerImplementsWallet`,
`Settles`. What a transaction writes at its commit was computed when it held
its locks, and the others commit in between. The invariant `LedgerInv` relates
the two times:

- `Holds`: a transaction that has read a balance holds the lock of that user,
  and the balance is still the cached one; one past its insert holds the claim
  of the purchase, and a claim that is not committed excludes a receipt
  (`Owned`).
- `Drafted`: what waits for its commit continues the chain of a locked user,
  as a move of coins, a credit, a refund before any credit, or a refund, which
  are the actions of CoinWallet.
- `Ordered`: an entry's time is read under the lock and is later than that of
  every entry before it, so the latest entry by time (`Latest`) is the last,
  and `Balance` is the cached one (`LatestIsLast`, `BalanceIsCache`). This
  needs two facts of the model: the clock moves at every insert, and the time
  is that of the insert and not of the transaction's start (the mutant
  `StampAtStart`).

`SparedKeeps` is the interference argument: a transaction keeps all of this
through any step that leaves alone the users it has locked and the purchases it
has claimed; each action then needs its own transaction's part and `Spares` of
the others (`StepKeeps`). For the refinement, only `Commit` changes what is
stored (`OnlyCommitWrites`), and it is one action of CoinWallet
(`CommitImplements`). `PurchasesSettle` is inductive relative to `LedgerInv`
(`CommitSettles`).

**OrderArcProofs.** `ArcImplementsLifecycle`, `ArcTypesHold`,
`PushesClimbAlways`, `RushAnswered`, `AlwaysCovered`, from `TierAssumption`
(every tier reaches the steps in ladder order) and `ArcAssumption`. The steps of
jobs have a few shapes (`Works`, `Ends`, `Arms`, a timer that fires; `Aside`: the
jobs stay). The invariant `OrderInv`:

- `Chained`: the chain of an order holds exactly the jobs whose timers fired,
  each once, and only its head works. Hence `Seen`: from its read to its end, a
  job's order does not move but by the job. The compare-and-set never fails.
- `ArmedOnce`: what is about to be armed is not armed yet, since only the one
  request that moved an order to Express arms its rush, and a restart leaves
  nothing. Without it an arming would reset a job that already runs.
- `Due`: a job that runs has waited for the promise, and promises only come
  forward. This is what the refinement needs at a compare-and-set, and `Plans`
  what it needs at a rush: a plan is that of the order as it is, unless another
  rush moved it; and a request's attempts are at most the rungs it saw climbed,
  hence `RushAnswered`.
- `Announcing`: an order is at or past every step it announced, and before the
  one it is about to announce, hence `PushesClimb`.

`AlwaysCovered` needs more (`Coverage`): the jobs of one arming stand for all
steps ahead, due in the order of the ladder, and one whose timer fired has those
of the steps before it ahead in the chain. Jobs of older armings may be consumed
too early, those of this one are not (`StaleJob`). Timers of one arming that are
due together must fire in ladder order (`FiresCoverage`).

**CheckoutProofs.** `OneOrder`, `OneReward`, `TypesHold`, `ChargedAsOrdered`. The lookup before the cart is read decides
nothing, since another checkout with the key may commit after it. The invariant
`KeyInv` says what does: a request has placed its order exactly when it is past
its transaction, which looks for the key again (`PlaceOrderKeeps`), it is
answered with a committed order of its own or of its key (`Fits`), and so no two
orders have one key (`KeysDiffer`). For the reward, a checkout counts the orders
after it has placed its own, and orders are never removed: two checkouts that
count a single order have placed the same one (`OwnOrderOnly`), so at most one is
ever about to reward, and none once the reward is given (`RewardInv`).

`ChargedWhatWasOrdered` and `TypeOK` hold together (`SpendInv`, on `KeyInv`): an
order's total is that of the lines it was given with it, a sum of naturals, and
the one step that places an order takes that total from a balance which covers
it. All other orders keep theirs, so the sum of the totals grows by what the
balance loses (`SumOfUpdate`).

**SumProofs.** What `SumFunction` of the community modules yields: a natural
number for naturals (`SumType`), zero for zeros, and how it changes when a value
does (`SumOfUpdate`, `SumChanges`). It is a fold, that is, a function chosen for
meeting its recursive equation, so one must be shown to exist. The library's
induction theorems take an operator, which the provers cannot use; the induction
is therefore stated over a set of naturals (`InductionOnNat`, from the least
element of its complement) and the subsets of the domain by their cardinality
(`InductionOnSubsets`). The module assumes nothing but a finite domain.

**ReturnsProofs.** `MoneyTypes`, `LocksInOrder`, `Overdrafts`, `Merges`,
`Drifts`, `Refunds`, `Credits`, `Answers`, `Caps`, `LedgerImplementsBook`. All twenty-odd actions of MoneyLedger have one
of a few shapes, which the first half shows: only clients move
(`ClientsMove`), a transaction books rows on accounts it holds (`Booked`),
accounts are closed or deleted (`Closing`), the ledger grows (`LedgerGrows`),
returns move (`ReturnsMove`). The rest speaks of shapes. The invariant `Inv`:

- per client, `Placed` (what a program counter says of the request), `Holds` (a
  transaction holds exactly the rows it has locked so far, in order, and what it
  has seen there is what is there) and `Credited` (a refund about to move its
  return has its row). `Holds` is what makes a balance computed from `seen`
  current, hence `Drifts` and `Overdrafts`, and what makes the lock order
  `LocksInOrder`.
- per account, `Balanced`: an account nobody edited has the cache of its rows,
  which is not negative, and an account with rows is not deleted.
- `OneListed`, for `Merges`: a merge closes its source under the lock of a
  target that is open.
- `RefundedMeansCredited` and `CreditedNeverReopens` themselves.

`Overdrafts` (`NeverOverdrawn`: no account that nobody edited has less than
nothing on its rows) is a consequence of `Balanced` and has no run of its own.
Three more rest on `Inv`:

- `LedgerImplementsBook`. Each action either leaves the ledger, the accounts and
  the balances alone or is one step of MoneyBook (`Bookkeeping`, one lemma per
  action). What makes a commit a step: its row is new, since the unique index
  was looked at in the same step; it continues the balance, since `Holds` makes
  what was read under the lock current (`RowWritten`); and the rows of a merge
  are new for both types, since a TRANSFER_IN is never without its TRANSFER_OUT
  (`Honest`).
- `Answers`. Rows stay and closed accounts are not opened again, so an answer
  once true stays true (`Truthful`, the shape of every step); what a step has to
  show is the row of the one request it answers, which is its own, or one found
  by the request's key and then compared as the code compares it. `Honest` keeps
  that an undo's row is the opposite of a spend's.
- `Caps`. What is reserved by requests under way is a sum over the clients:
  `Covered` says that charges and reservations together stay within what is
  spent, and `Banking` that a step changes one client's term by no more than the
  rest. `MoneyAssumption` has finitely many clients for it, which are the request
  handlers of one process.

**SessionsProofs.** `PairStaysGood` and `NoPairLeftOver`, of `Spec`, from an
invariant `Undisturbed` that holds until the first fault:

- `Heard`: the server works on at most two requests, the sign-in's and the
  renewal's, and each is waited for; a request that takes a pair is the
  renewal's, and takes the pair it renews.
- `Apart`: a pair is in one place: one answer, the renewal's hands, the session,
  or on its way to be revoked. A new pair is `Len(owner) + 1`, which nothing
  names yet.
- `Rotated`: a renewal past its request's first step has spent its pair and
  brings another, for the session or to be revoked. So its answer is a refusal only if the pair was spent before
  it began, and a session's pair never was (`HeldGood`).
- `SignsIn`: until a late renewal overtakes one, a sign-in finds the device
  signed out, and so replaces no pair (`HeldOnly`).

The properties speak of states without a fault, so a step that counts one needs
nothing shown (`FaultsCount`). The module also holds what Sessions' own steps
preserve of the types, `UsersSound` and `StoreSound` (below).

**ErasureProofs.** `AccountTypes`, `CoinsOnce`, `StoreIsSession`,
`PicturesCovered`, `PicturesStay`, `ErasureRemembers`, all of `AccountSpec`, so
with the erasure running into the sessions. Types are kept apart by what
changes them (`Ledgers`, `RequestsFit`, `AppFits`, `VaultTypes`); what the
sessions' own steps preserve is cited from SessionsProofs, and one more lemma
(`RowsGo`) carries the sessions through the deletion of their user.

- `UsersSound`: a request that is about to write on a user's row has the row
  (`RowsThere`; the deletion fails those it takes it from), and of one user at
  most one grant is under way, with nothing granted yet (`GrantsSound`: only the
  insert that made the row goes to the grant).
- `StoreSound`: the newest of what waits, is being written, and was written is
  the session.
- `Awaits`: an attempt that is awaited has its job active, alone. From it,
  `Covered` and `Fresh`: a job ends only by a handler that leaves its item's row
  settled, and a new claim has a job of its own. A handler's steps have four
  shapes (`HandlerMoves`, `HandlerRows`, `HandlerRequests`, `HandlerGoes`).
- `GoneWhen`: objects are deleted only when the rows are gone, also by a later
  attempt that skips the rows because a request says so; with `StoredFirst`, a
  ready picture keeps its object until then.
- `OutboxSound`: what an attempt holds in memory of its request's outbox, at
  every step (`KnowsOutbox`). It needs that no other attempt writes the request,
  hence `~outlived`, and `DueShrinks`, since a try-on may store a picture again
  while the outbox is worked off. `Remembered` follows (`OutboxKept`).

`CoinsOnce` rests on `UsersSound`: a sign-in that inserted its user's row grants
next, or a fault stops it there and `withheld` names the user (`UsersStay`).

Only model-checked: all liveness (fairness and ENABLED are beyond the prover).
`HeldPairIsGood` and `OnlyHeldPairsLive` are checked and proved for sessions
without an erasure beside them: they speak of states without a fault, and the
erasures of `accounts` start with a fault spent.

## 6. Not modelled

Store verification, subscriptions: answers of external services decide which
calls arrive. Of the money ledger: freezing and expiry of accounts, listings,
alerts. Of returns: exchanges, chasing, tracking. Swaps, EMI and cashback are
single guarded updates. The export of a vault, Gmail sources and their token
revocation (`disconnectEmailSources` clears a source connected after it listed
them without queueing its revocation). Deferred and scheduled jobs, the table of
dead letters. Fit previews and listing try-ons run the code of wardrobe try-ons
on tables of their own. Closet, styling, catalog, analytics: pure functions and
reads over one user's data. The rest of the clients: the modules take every
request a client can send. The in-memory repository (`memory.ts`) mirrors
`postgres.ts` for tests.

## 7. Plan

Done, in this order, each with proofs: DeliveryArc, OrderLifecycle and OrderArc;
RevealRenders; CoinWallet and CoinLedger; Checkout; MoneyLedger and Returns;
Sessions and Erasure.

Left:

1. Gmail sources and their revocation in Erasure; the export.
2. The push outbox and its dedupe key; exchanges of returns.
