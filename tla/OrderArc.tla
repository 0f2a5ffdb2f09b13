-------------------------------- MODULE OrderArc --------------------------------
(***************************************************************************)
(* How the API process walks orders up the delivery ladder                 *)
(* (apps/api/src/lib/jobs and lib/orders): in-memory timers armed at       *)
(* checkout, at a rush and at start-up; one chain of jobs per order; a job *)
(* reads the order, moves it on with a compare-and-set and sends the push; *)
(* a rush reads the order, plans, and commits against what it read; a      *)
(* restart drops every timer, chain and request, and resumeInFlightWork    *)
(* arms the orders in transit again from the database.                     *)
(*                                                                         *)
(* A statement the code awaits is a step of its own.  "now" is the wall    *)
(* clock, in the units of Timing.                                          *)
(***************************************************************************)
EXTENDS DeliveryArc, Sequences

CONSTANTS
  Orders,       \* the orders of one user
  Rushers,      \* concurrent "rush to express" requests of that user
  RushCost,     \* RUSH_TO_EXPRESS_COST_COINS
  Coins,        \* bound on the user's coins at the start
  MaxTime,      \* bound on the clock
  MaxCrashes,   \* bound on restarts
  MaxFailures   \* bound on database errors

ASSUME ArcAssumption ==
  /\ RushCost \in Nat /\ Coins \in Nat /\ MaxTime \in Nat
  /\ MaxCrashes \in Nat /\ MaxFailures \in Nat

(***************************************************************************)
(* A step of an order can be armed twice in the life of a process: by the  *)
(* checkout or the start-up ("ladder"), and by the one rush of the order.  *)
(***************************************************************************)
Jobs == [order : Orders, target : Steps, by : {"ladder", "rush"}]

JobsOf(o) == {j \in Jobs : j.order = o}

\* Too few: a rush gives up though the order was only moving on.
MaxAttemptsShort == 4

\* MAX_ATTEMPTS of rush.ts
MaxAttempts == 4 + 1

VARIABLES
  now, state, tier, placedAt, eta, balance,  \* the clock and the database
  sent,         \* pushes sent for each order, oldest first
  arming,       \* orders placed by checkouts that have not armed the ladder yet
  jobPc,        \* none, armed (timer pending), queued, cas, push
  jobDue,       \* when the timer of the job fires
  jobSeen,      \* the state the job read
  chain,        \* orderChains: the jobs of an order whose timers fired
  rush,         \* the rush requests
  todo,         \* orders resumeInFlightWork still has to arm; it is over when none
  lost,         \* orders for which an error dropped a step since the start
  crashes, failures

db == <<state, tier, placedAt, eta, balance>>
memory == <<arming, jobPc, jobDue, jobSeen, chain, rush, todo, lost>>
bounds == <<crashes, failures>>
jobVars == <<jobPc, jobDue, jobSeen>>
vars == <<now, db, sent, memory, bounds>>

NoPlan == BuildStateEta(0, Express)

Idle == [pc |-> "idle", order |-> None, from |-> None, plan |-> NoPlan,
         attempt |-> 0, answer |-> None]

Init ==
  /\ now = 0
  /\ state = [o \in Orders |-> None]
  /\ tier = [o \in Orders |-> Express]
  /\ placedAt = [o \in Orders |-> 0]
  /\ eta = [o \in Orders |-> NoPlan]
  /\ balance \in 0 .. Coins
  /\ sent = [o \in Orders |-> <<>>]
  /\ arming = {}
  /\ jobPc = [j \in Jobs |-> "none"]
  /\ jobDue = [j \in Jobs |-> 0]
  /\ jobSeen = [j \in Jobs |-> None]
  /\ chain = [o \in Orders |-> <<>>]
  /\ rush = [r \in Rushers |-> Idle]
  /\ todo = {}
  /\ lost = {}
  /\ crashes = 0
  /\ failures = 0

\* The server listens only once resumeInFlightWork is over.
Serving == todo = {}

Tick ==
  /\ now < MaxTime
  /\ now' = now + 1
  /\ UNCHANGED <<db, sent, memory, bounds>>

(***************************************************************************)
(* scheduleOrderLadderJobs: the steps still ahead of the order, each at    *)
(* its stateEta time, at once when that has passed.                        *)
(***************************************************************************)
Armed(o, by) ==
  {j \in JobsOf(o) : j.by = by /\ j.target \in Ahead[state[o]]}

ScheduleOrderLadder(o, by) ==
  /\ jobPc' = [j \in Jobs |-> IF j \in Armed(o, by) THEN "armed" ELSE jobPc[j]]
  /\ jobDue' = [j \in Jobs |-> IF j \in Armed(o, by)
                                 THEN Later(eta[o][j.target], now) ELSE jobDue[j]]
  /\ UNCHANGED jobSeen

(***************************************************************************)
(* Checkout, as far as delivery goes: the transaction that creates the     *)
(* order, then the call that arms its ladder.  The clock's bound leaves    *)
(* every order room to be delivered.                                       *)
(***************************************************************************)
PlaceOrder(o, t) ==
  /\ Serving
  /\ state[o] = None
  /\ now + Timing[t]["DELIVERED"] <= MaxTime
  /\ state' = [state EXCEPT ![o] = "PROCESSING"]
  /\ tier' = [tier EXCEPT ![o] = t]
  /\ placedAt' = [placedAt EXCEPT ![o] = now]
  /\ eta' = [eta EXCEPT ![o] = BuildStateEta(now, t)]
  /\ arming' = arming \cup {o}
  /\ UNCHANGED <<now, balance, sent, jobVars, chain, rush, todo, lost, bounds>>

ArmLadder(o) ==
  /\ o \in arming
  /\ arming' = arming \ {o}
  /\ ScheduleOrderLadder(o, "ladder")
  /\ UNCHANGED <<now, db, sent, chain, rush, todo, lost, bounds>>

ArmLadderFails(o) ==
  /\ o \in arming
  /\ failures < MaxFailures
  /\ failures' = failures + 1
  /\ arming' = arming \ {o}
  /\ lost' = lost \cup {o}
  /\ UNCHANGED <<now, db, sent, jobVars, chain, rush, todo, crashes>>

(***************************************************************************)
(* Timers fire in the order they come due; those of one scheduling call    *)
(* that are due together fire in ladder order.                             *)
(***************************************************************************)
\* Timers due together fire in any order.
FiresBeforeByTime(k, j) == jobDue[k] < jobDue[j]

FiresBefore(k, j) ==
  \/ jobDue[k] < jobDue[j]
  \/ jobDue[k] = jobDue[j] /\ k.by = j.by /\ j.target \in Ahead[k.target]

TimerFires(j) ==
  /\ jobPc[j] = "armed"
  /\ jobDue[j] <= now
  /\ ~ \E k \in JobsOf(j.order) : jobPc[k] = "armed" /\ FiresBefore(k, j)
  /\ jobPc' = [jobPc EXCEPT ![j] = "queued"]
  /\ chain' = [chain EXCEPT ![j.order] = Append(@, j)]
  /\ UNCHANGED <<now, db, sent, arming, jobDue, jobSeen, rush, todo, lost, bounds>>

(***************************************************************************)
(* handleOrderTransition, run for the job at the head of the chain.        *)
(***************************************************************************)
\* Without orderChains: a job runs as soon as its timer has fired.
AtHeadUnchained(j) == chain[j.order] # <<>>

AtHead(j) == chain[j.order] # <<>> /\ Head(chain[j.order]) = j

Finish(j) ==
  /\ jobPc' = [jobPc EXCEPT ![j] = "none"]
  /\ jobSeen' = [jobSeen EXCEPT ![j] = None]
  /\ jobDue' = [jobDue EXCEPT ![j] = 0]
  /\ chain' = [chain EXCEPT ![j.order] = Tail(@)]

ReadOrder(j) ==
  /\ jobPc[j] = "queued"
  /\ AtHead(j)
  /\ IF IsValidTransition(state[j.order], j.target)
       THEN /\ jobSeen' = [jobSeen EXCEPT ![j] = state[j.order]]
            /\ jobPc' = [jobPc EXCEPT ![j] = "cas"]
            /\ UNCHANGED <<jobDue, chain>>
       ELSE Finish(j)
  /\ UNCHANGED <<now, db, sent, arming, rush, todo, lost, bounds>>

\* updateOrderState with { from }: no row comes back when the order has moved.
UpdateOrderState(j) ==
  /\ jobPc[j] = "cas"
  /\ IF state[j.order] = jobSeen[j]
       THEN /\ state' = [state EXCEPT ![j.order] = j.target]
            /\ jobPc' = [jobPc EXCEPT ![j] = "push"]
            /\ UNCHANGED <<jobDue, jobSeen, chain>>
       ELSE Finish(j) /\ UNCHANGED state
  /\ UNCHANGED <<now, tier, placedAt, eta, balance, sent, arming, rush, todo, lost, bounds>>

\* push.send, up to ten seconds long; it never throws.
SendPush(j) ==
  /\ jobPc[j] = "push"
  /\ sent' = [sent EXCEPT ![j.order] = Append(@, j.target)]
  /\ Finish(j)
  /\ UNCHANGED <<now, db, arming, rush, todo, lost, bounds>>

\* runJob reports the error and the chain goes on with the next job.
JobFails(j) ==
  /\ jobPc[j] \in {"queued", "cas"}
  /\ AtHead(j)
  /\ failures < MaxFailures
  /\ failures' = failures + 1
  /\ lost' = lost \cup {j.order}
  /\ Finish(j)
  /\ UNCHANGED <<now, db, sent, arming, rush, todo, crashes>>

(***************************************************************************)
(* rushOrderToExpress                                                      *)
(***************************************************************************)
Answered(a) == [Idle EXCEPT !.pc = "done", !.answer = a]

Answer(r, a) == rush' = [rush EXCEPT ![r] = Answered(a)]

StartRush(r, o) ==
  /\ Serving
  /\ rush[r].pc = "idle"
  /\ state[o] # None
  /\ rush' = [rush EXCEPT ![r].pc = "read", ![r].order = o]
  /\ UNCHANGED <<now, db, sent, arming, jobVars, chain, todo, lost, bounds>>

PlanRush(r) ==
  LET o == rush[r].order
  IN  /\ rush[r].pc = "read"
      /\ IF tier[o] = Express THEN Answer(r, "ALREADY_EXPRESS")
         ELSE IF state[o] \notin InTransit THEN Answer(r, "NOT_IN_TRANSIT")
         ELSE IF ~SpeedsUp(state[o], placedAt[o], eta[o], now) THEN Answer(r, "NO_SPEEDUP")
         ELSE rush' = [rush EXCEPT ![r].pc = "tx", ![r].from = state[o],
                                   ![r].plan = RushedEta(state[o], placedAt[o], eta[o])]
      /\ UNCHANGED <<now, db, sent, arming, jobVars, chain, todo, lost, bounds>>

\* The order moved on, or was rushed, since the plan: look again.
RetryRush(r) ==
  IF rush[r].attempt + 1 < MaxAttempts
    THEN rush' = [rush EXCEPT ![r].pc = "read", ![r].attempt = @ + 1]
    ELSE Answer(r, "ORDER_CHANGED")

\* A comparison of states only: two rushes of one order both go through.
OrderChangedIgnoringTier(r) == state[rush[r].order] # rush[r].from

OrderChanged(r) ==
  state[rush[r].order] # rush[r].from \/ tier[rush[r].order] = Express

\* The balance read before the lock, not checked again.
CanPayUnchecked(cost) == TRUE

CanPay(cost) == balance >= cost

CommitRush(r) ==
  LET o == rush[r].order
  IN  /\ rush[r].pc = "tx"
      /\ IF OrderChanged(r)
           THEN RetryRush(r) /\ UNCHANGED <<tier, eta, balance>>
         ELSE IF ~CanPay(RushCost)
           THEN Answer(r, "INSUFFICIENT_COINS") /\ UNCHANGED <<tier, eta, balance>>
         ELSE /\ tier' = [tier EXCEPT ![o] = Express]
              /\ eta' = [eta EXCEPT ![o] = rush[r].plan]
              /\ balance' = balance - RushCost
              /\ rush' = [rush EXCEPT ![r].pc = "arm"]
      /\ UNCHANGED <<now, state, placedAt, sent, arming, jobVars, chain, todo, lost, bounds>>

ArmRush(r) ==
  /\ rush[r].pc = "arm"
  /\ ScheduleOrderLadder(rush[r].order, "rush")
  /\ Answer(r, "RUSHED")
  /\ UNCHANGED <<now, db, sent, arming, chain, todo, lost, bounds>>

RushFails(r) ==
  /\ rush[r].pc \in {"read", "tx", "arm"}
  /\ failures < MaxFailures
  /\ failures' = failures + 1
  /\ Answer(r, "ERROR")
  /\ lost' = IF rush[r].pc = "arm" THEN lost \cup {rush[r].order} ELSE lost
  /\ UNCHANGED <<now, db, sent, arming, jobVars, chain, todo, crashes>>

(***************************************************************************)
(* A crash at any point, and the start-up that follows it.                 *)
(***************************************************************************)
\* The list of states to resume from, one short.
InFlightShort == {o \in Orders : state[o] \in InTransit \ {"ARRIVING_SOON"}}

InFlight == {o \in Orders : state[o] \in InTransit}

Restart ==
  /\ crashes < MaxCrashes
  /\ crashes' = crashes + 1
  /\ arming' = {}
  /\ jobPc' = [j \in Jobs |-> "none"]
  /\ jobDue' = [j \in Jobs |-> 0]
  /\ jobSeen' = [j \in Jobs |-> None]
  /\ chain' = [o \in Orders |-> <<>>]
  /\ rush' = [r \in Rushers |-> IF rush[r].pc \in {"idle", "done"} THEN rush[r]
                                ELSE Answered("ERROR")]
  /\ todo' = InFlight
  /\ lost' = {}
  /\ UNCHANGED <<now, db, sent, failures>>

ResumeOrder(o) ==
  /\ o \in todo
  /\ todo' = todo \ {o}
  /\ ScheduleOrderLadder(o, "ladder")
  /\ UNCHANGED <<now, db, sent, arming, chain, rush, lost, bounds>>

\* The error is logged and the server listens all the same.
ResumeFails ==
  /\ todo # {}
  /\ failures < MaxFailures
  /\ failures' = failures + 1
  /\ lost' = lost \cup todo
  /\ todo' = {}
  /\ UNCHANGED <<now, db, sent, arming, jobVars, chain, rush, crashes>>

--------------------------------------------------------------------------------
JobStep(j) == TimerFires(j) \/ ReadOrder(j) \/ UpdateOrderState(j) \/ SendPush(j)

RushStep(r) == PlanRush(r) \/ CommitRush(r) \/ ArmRush(r)

Next ==
  \/ Tick
  \/ \E o \in Orders : \/ \E t \in Tiers : PlaceOrder(o, t)
                       \/ ArmLadder(o)
                       \/ ArmLadderFails(o)
                       \/ ResumeOrder(o)
  \/ \E j \in Jobs : JobStep(j) \/ JobFails(j)
  \/ \E r \in Rushers : \/ \E o \in Orders : StartRush(r, o)
                        \/ RushStep(r)
                        \/ RushFails(r)
  \/ Restart
  \/ ResumeFails

Spec == Init /\ [][Next]_vars

(***************************************************************************)
(* The event loop runs timers that are due, promise callbacks and the      *)
(* start-up to the end, and time passes; users, crashes and errors are not *)
(* obliged to happen.                                                      *)
(***************************************************************************)
FairSpec ==
  /\ Spec
  /\ WF_vars(Tick)
  /\ \A o \in Orders : WF_vars(ArmLadder(o)) /\ WF_vars(ResumeOrder(o))
  /\ \A j \in Jobs : WF_vars(JobStep(j))
  /\ \A r \in Rushers : WF_vars(RushStep(r))

--------------------------------------------------------------------------------
Requests ==
  [pc : {"idle", "read", "tx", "arm", "done"}, order : Orders \cup {None},
   from : InTransit \cup {None}, plan : [Steps -> Nat],
   attempt : 0 .. MaxAttempts,
   answer : {None, "ALREADY_EXPRESS", "NOT_IN_TRANSIT", "NO_SPEEDUP", "ORDER_CHANGED",
             "INSUFFICIENT_COINS", "RUSHED", "ERROR"}]

\* The types of the variables.
TypeOK ==
  /\ now \in Nat
  /\ state \in [Orders -> {None} \cup InTransit \cup {"DELIVERED"}]
  /\ tier \in [Orders -> Tiers]
  /\ placedAt \in [Orders -> Nat]
  /\ eta \in [Orders -> [Steps -> Nat]]
  /\ balance \in Nat
  /\ sent \in [Orders -> Seq(Steps)]
  /\ arming \subseteq Orders /\ todo \subseteq Orders /\ lost \subseteq Orders
  /\ jobPc \in [Jobs -> {"none", "armed", "queued", "cas", "push"}]
  /\ jobDue \in [Jobs -> Nat]
  /\ jobSeen \in [Jobs -> {None} \cup InTransit \cup {"DELIVERED"}]
  /\ chain \in [Orders -> Seq(Jobs)]
  /\ rush \in [Rushers -> Requests]
  /\ crashes \in Nat /\ failures \in Nat

(***************************************************************************)
(* The queue, the rush loop and the restarts together deliver what         *)
(* OrderLifecycle promises: one rung at a time, no step before its         *)
(* promised time, one charge for one rush, promises only brought forward   *)
(* (order-scheduler.ts, order-processing.ts, rush.ts).                     *)
(***************************************************************************)
Lifecycle == INSTANCE OrderLifecycle
ImplementsLifecycle == Lifecycle!Spec

(***************************************************************************)
(* A customer's pushes about an order climb the ladder: no step is         *)
(* announced twice, and none after a later one, whatever timers, rushes    *)
(* and restarts come due together (queue.ts, orderChains).                 *)
(***************************************************************************)
PushesClimb ==
  \A o \in Orders : \A i \in 1 .. Len(sent[o]) :
    \A k \in 1 .. (i - 1) : sent[o][i] \in Ahead[sent[o][k]]

(***************************************************************************)
(* A rush is never refused only because the order kept moving under it:    *)
(* the attempts outlast the ladder (rush.ts, "this is plenty").            *)
(***************************************************************************)
RushNeverGivesUp == \A r \in Rushers : rush[r].answer # "ORDER_CHANGED"

(***************************************************************************)
(* While the server runs, an order in transit always has a job for its     *)
(* next step, due no later than the time promised (or now, if that has     *)
(* passed): no interleaving of old timers, rush timers and steps consumes  *)
(* the job of a step before the order is ready for it.  An error may: then *)
(* the order waits for a restart.                                          *)
(***************************************************************************)
BeingArmed(o) ==
  \/ o \in arming \cup todo
  \/ \E r \in Rushers : rush[r].pc = "arm" /\ rush[r].order = o

NextStepCovered ==
  \A o \in Orders :
    state[o] \in InTransit /\ o \notin lost /\ ~BeingArmed(o) =>
      \E j \in JobsOf(o) :
        /\ j.target = NextState[state[o]]
        /\ jobPc[j] \in {"armed", "queued", "cas"}
        /\ jobDue[j] <= Later(eta[o][j.target], now)

(***************************************************************************)
(* Every order that is placed is delivered, through rushes and restarts    *)
(* (docs/DEPLOY.md: timers "resume after a restart"), unless a database    *)
(* error drops one of its steps and no restart follows.                    *)
(***************************************************************************)
EventuallyDelivered ==
  \A o \in Orders : state[o] \in InTransit ~> (state[o] = "DELIVERED" \/ o \in lost)

================================================================================
