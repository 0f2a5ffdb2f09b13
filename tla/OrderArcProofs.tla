----------------------------- MODULE OrderArcProofs -----------------------------
(***************************************************************************)
(* Theorems about OrderArc, for any number of orders, rushes, restarts and *)
(* errors, and any times of the tiers: it implements OrderLifecycle, its   *)
(* pushes climb, its rushes are answered (OrderInv), and an order in       *)
(* transit has a job for its next step (Coverage).                         *)
(***************************************************************************)
EXTENDS OrderArc, SequenceTheorems, TLAPS

(***************************************************************************)
(* The ladder.                                                             *)
(***************************************************************************)
Placed == {"PROCESSING"} \cup Steps

LEMMA Ladder ==
  /\ Placed = InTransit \cup {"DELIVERED"} /\ None \notin Placed
  /\ \A s \in Placed : Ahead[s] \subseteq Steps /\ s \notin Ahead[s]
  /\ \A s \in Placed : \A t \in Ahead[s] : Ahead[t] \subseteq Ahead[s]
  /\ \A s, t \in Steps : s = t \/ s \in Ahead[t] \/ t \in Ahead[s]
BY DEF Placed, Steps, InTransit, None, Ahead

\* A step that is valid is the next one.
LEMMA NextRung ==
  ASSUME NEW s \in Placed, NEW t \in Steps, IsValidTransition(s, t)
  PROVE  /\ s \in InTransit /\ t = NextState[s]
         /\ t \in Ahead[s] /\ Ahead[s] = Ahead[t] \cup {t}
BY DEF Placed, Steps, InTransit, None, Ahead, IsValidTransition, NextState

LEMMA RungAhead ==
  ASSUME NEW s \in InTransit
  PROVE  /\ NextState[s] \in Ahead[s] /\ NextState[s] \in Steps
         /\ IsValidTransition(s, NextState[s])
         /\ \A t \in Ahead[s] : t = NextState[s] \/ t \in Ahead[NextState[s]]
BY DEF Steps, InTransit, Ahead, NextState, IsValidTransition

\* A rush brings promises forward, and keeps those ahead in the order of the ladder.
LEMMA RushForward ==
  ASSUME NEW s \in InTransit, NEW p \in Nat, NEW e \in [Steps -> Nat]
  PROVE  /\ RushedEta(s, p, e) \in [Steps -> Nat]
         /\ \A t \in Steps : RushedEta(s, p, e)[t] <= e[t]
         /\ (\A t, u \in Ahead[s] : u \in Ahead[t] => e[t] <= e[u]) =>
              \A t, u \in Ahead[s] : u \in Ahead[t] => RushedEta(s, p, e)[t] <= RushedEta(s, p, e)[u]
<1> DEFINE x == BuildStateEta(p, Express)
<1>1. x \in [Steps -> Nat]
  BY TierAssumption DEF BuildStateEta
<1>2. \A t, u \in Steps : u \in Ahead[t] => x[t] <= x[u]
  BY TierAssumption DEF BuildStateEta, Steps, Ahead
<1>3. Ahead[s] \subseteq Steps
  BY Ladder
<1> HIDE DEF x
<1>4. RushedEta(s, p, e) = [t \in Steps |-> IF t \in Ahead[s] /\ x[t] < e[t] THEN x[t] ELSE e[t]]
  BY <1>3 DEF RushedEta, Sooner, x
<1> QED BY <1>1, <1>2, <1>3, <1>4

(***************************************************************************)
(* Types, by what changes them together.                                   *)
(***************************************************************************)
DbTypes ==
  /\ now \in Nat
  /\ state \in [Orders -> {None} \cup Placed]
  /\ tier \in [Orders -> Tiers]
  /\ placedAt \in [Orders -> Nat]
  /\ eta \in [Orders -> [Steps -> Nat]]
  /\ balance \in Nat
  /\ crashes \in Nat /\ failures \in Nat

SetTypes == arming \subseteq Orders /\ todo \subseteq Orders /\ lost \subseteq Orders

JobTypes ==
  /\ jobPc \in [Jobs -> {"none", "armed", "queued", "cas", "push"}]
  /\ jobDue \in [Jobs -> Nat]
  /\ jobSeen \in [Jobs -> {None} \cup Placed]

ChainTypes ==
  /\ chain \in [Orders -> Seq(Jobs)]
  /\ sent \in [Orders -> Seq(Steps)]

RushTypes == rush \in [Rushers -> Requests]

\* The jobs in a chain are its order's, each once; the one that works is the first.
Chained ==
  /\ \A o \in Orders : \A i \in 1 .. Len(chain[o]) :
       chain[o][i].order = o /\ jobPc[chain[o][i]] \in {"queued", "cas", "push"}
  /\ \A o \in Orders : \A i, k \in 1 .. Len(chain[o]) : chain[o][i] = chain[o][k] => i = k
  /\ \A j \in Jobs : jobPc[j] \in {"cas", "push"} => chain[j.order] # <<>> /\ Head(chain[j.order]) = j
  /\ \A j \in Jobs : jobPc[j] = "queued" => \E i \in 1 .. Len(chain[j.order]) : chain[j.order][i] = j

\* What is about to be armed is not armed yet: the ladder by a checkout or the start-up, the rush by
\* the one request that moved the order to Express.
Unarmed(o, by) == \A j \in JobsOf(o) : j.by = by => jobPc[j] = "none"

RushArming(o) == \E r \in Rushers : rush[r].pc = "arm" /\ rush[r].order = o

ArmedOnce ==
  /\ todo # {} => arming = {}
  /\ \A o \in arming \cup todo : state[o] # None /\ Unarmed(o, "ladder")
  /\ \A o \in Orders : RushArming(o) => tier[o] = Express /\ Unarmed(o, "rush")
  /\ \A q, r \in Rushers : rush[q].pc = "arm" /\ rush[r].pc = "arm" /\ rush[q].order = rush[r].order => q = r
  /\ \A o \in Orders : tier[o] # Express => Unarmed(o, "rush")
  /\ \A o \in Orders : state[o] = None => Unarmed(o, "ladder") /\ Unarmed(o, "rush") /\ sent[o] = <<>>
  /\ \A r \in Rushers : rush[r].pc \in {"read", "tx", "arm"} =>
       rush[r].order \in Orders /\ state[rush[r].order] # None

\* A job waits at least for the time promised; one that runs has waited.
Due ==
  \A j \in Jobs : /\ jobPc[j] # "none" => eta[j.order][j.target] <= jobDue[j]
                  /\ jobPc[j] \in {"queued", "cas", "push"} => jobDue[j] <= now

\* The state a job read, or wrote, is still the order's.
Seen ==
  \A j \in Jobs : /\ jobPc[j] = "cas" => /\ jobSeen[j] = state[j.order]
                                         /\ IsValidTransition(state[j.order], j.target)
                  /\ jobPc[j] = "push" => state[j.order] = j.target

\* An order is at the step it announced last, or past it; before it, as long as the push is under way.
Reached(o) ==
  \A i \in 1 .. Len(sent[o]) : state[o] = sent[o][i] \/ state[o] \in Ahead[sent[o][i]]

Announcing ==
  /\ \A o \in Orders : Reached(o)
  /\ \A j \in Jobs : jobPc[j] = "push" =>
       \A i \in 1 .. Len(sent[j.order]) : j.target \in Ahead[sent[j.order][i]]

\* A plan is that of the order, unless another rush moved it.
Rung == [PROCESSING |-> 0, PACKED |-> 1, OUT_FOR_DELIVERY |-> 2, ARRIVING_SOON |-> 3, DELIVERED |-> 4]

Planned(r) ==
  LET o == r.order
  IN  /\ r.pc = "idle" => r.attempt = 0
      /\ r.pc = "read" => tier[o] = Express \/ r.attempt <= Rung[state[o]]
      /\ r.pc = "tx" =>
           /\ r.from \in InTransit /\ r.attempt <= Rung[r.from]
           /\ state[o] = r.from \/ state[o] \in Ahead[r.from]
           /\ tier[o] # Express => r.plan = RushedEta(r.from, placedAt[o], eta[o])
      /\ r.answer # "ORDER_CHANGED"

Plans == \A r \in Rushers : Planned(rush[r])

(***************************************************************************)
(* An order in transit has the jobs of one arming for all steps ahead, in  *)
(* the order of the ladder, so that a step's job is not consumed before    *)
(* the order is ready for it.  An older arming's may be.                   *)
(***************************************************************************)
Precedes(j, k) ==
  \E i, m \in 1 .. Len(chain[j.order]) : i < m /\ chain[j.order][i] = j /\ chain[j.order][m] = k

InLadderOrder(j, k) == jobDue[j] <= jobDue[k] /\ (jobPc[k] # "armed" => Precedes(j, k))

Full(o, by) ==
  /\ \A j \in Armed(o, by) : jobPc[j] \in {"armed", "queued", "cas"}
  /\ \A j, k \in Armed(o, by) : k.target \in Ahead[j.target] => InLadderOrder(j, k)

Timely(o, by) == \A j \in Armed(o, by) : jobDue[j] <= Later(eta[o][j.target], now)

Covered(o, by) == Full(o, by) /\ (RushArming(o) \/ Timely(o, by))

EtasClimb(o) == \A t, u \in Ahead[state[o]] : u \in Ahead[t] => eta[o][t] <= eta[o][u]

Coverage ==
  /\ \A o \in Orders : state[o] # None => EtasClimb(o)
  /\ \A o \in Orders : state[o] \in InTransit /\ o \notin lost \cup arming \cup todo =>
       \E by \in {"ladder", "rush"} : Covered(o, by)

ArcTypes == DbTypes /\ SetTypes /\ JobTypes /\ ChainTypes /\ RushTypes

LEMMA TypesAreParts == ArcTypes => TypeOK
BY Ladder DEF ArcTypes, DbTypes, SetTypes, JobTypes, ChainTypes, RushTypes, TypeOK

LEMMA JobFields ==
  ASSUME NEW j \in Jobs
  PROVE  j.order \in Orders /\ j.target \in Steps /\ j.by \in {"ladder", "rush"} /\ j \in JobsOf(j.order)
BY DEF Jobs, JobsOf

LEMMA PromisedTimes ==
  ASSUME NEW t \in Tiers, NEW p \in Nat
  PROVE  BuildStateEta(p, t) \in [Steps -> Nat]
BY TierAssumption DEF BuildStateEta

LEMMA ArmTypes ==
  ASSUME DbTypes, JobTypes, NEW o \in Orders, NEW by, ScheduleOrderLadder(o, by)
  PROVE  JobTypes'
<1>1. eta[o] \in [Steps -> Nat] /\ now \in Nat
  BY DEF DbTypes
<1>2. \A j \in Jobs : Later(eta[o][j.target], now) \in Nat
  BY <1>1, JobFields DEF Later
<1> QED BY <1>2 DEF ScheduleOrderLadder, JobTypes

LEMMA FinishTypes ==
  ASSUME JobTypes, chain \in [Orders -> Seq(Jobs)], NEW j \in Jobs, chain[j.order] # <<>>, Finish(j)
  PROVE  JobTypes' /\ chain' \in [Orders -> Seq(Jobs)]
<1>1. j.order \in Orders /\ Tail(chain[j.order]) \in Seq(Jobs)
  BY JobFields
<1> QED BY <1>1 DEF JobTypes, Finish

LEMMA IdleFits == Idle \in Requests /\ NoPlan \in [Steps -> Nat]
BY PromisedTimes, TierAssumption DEF Idle, Requests, NoPlan, MaxAttempts

LEMMA AnswerTypes ==
  ASSUME RushTypes, NEW r \in Rushers,
         NEW a \in {"ALREADY_EXPRESS", "NOT_IN_TRANSIT", "NO_SPEEDUP", "ORDER_CHANGED",
                    "INSUFFICIENT_COINS", "RUSHED", "ERROR"}, Answer(r, a)
  PROVE  RushTypes'
BY IdleFits DEF RushTypes, Answer, Answered, Requests, Idle

LEMMA NextDbTypes ==
  ASSUME ArcTypes, Plans, Next
  PROVE  DbTypes'
<1>t. DbTypes /\ RushTypes
  BY DEF ArcTypes
<1>1. CASE Tick
  BY <1>1, <1>t DEF Tick, DbTypes, db, bounds
<1>2. ASSUME NEW o \in Orders, NEW t \in Tiers, PlaceOrder(o, t) PROVE DbTypes'
  <2>1. BuildStateEta(now, t) \in [Steps -> Nat]
    BY <1>t, PromisedTimes DEF DbTypes
  <2> QED BY <2>1, <1>2, <1>t DEF PlaceOrder, DbTypes, bounds, Placed
<1>3. ASSUME NEW o \in Orders, ArmLadder(o) \/ ArmLadderFails(o) \/ ResumeOrder(o) PROVE DbTypes'
  BY <1>3, <1>t DEF ArmLadder, ArmLadderFails, ResumeOrder, DbTypes, db, bounds
<1>4. ASSUME NEW j \in Jobs, JobStep(j) \/ JobFails(j) PROVE DbTypes'
  <2>1. CASE UpdateOrderState(j)
    <3>1. j.target \in Placed /\ UNCHANGED <<now, tier, placedAt, eta, balance, crashes, failures>>
      BY <2>1, JobFields DEF UpdateOrderState, Placed, bounds
    <3>2. state' = [state EXCEPT ![j.order] = j.target] \/ UNCHANGED state
      BY <2>1 DEF UpdateOrderState
    <3> QED BY <3>1, <3>2, <1>t DEF DbTypes
  <2>2. CASE TimerFires(j) \/ ReadOrder(j) \/ SendPush(j) \/ JobFails(j)
    BY <2>2, <1>t DEF TimerFires, ReadOrder, SendPush, JobFails, DbTypes, db, bounds
  <2> QED BY <2>1, <2>2, <1>4 DEF JobStep
<1>5. ASSUME NEW r \in Rushers, CommitRush(r) PROVE DbTypes'
  <2>1. rush[r].plan \in [Steps -> Nat] /\ rush[r].order \in Orders \cup {None}
    BY <1>t DEF RushTypes, Requests
  <2>2. UNCHANGED <<now, state, placedAt, crashes, failures>>
    BY <1>5 DEF CommitRush, bounds
  <2>3. \/ UNCHANGED <<tier, eta, balance>>
        \/ /\ tier' = [tier EXCEPT ![rush[r].order] = Express]
           /\ eta' = [eta EXCEPT ![rush[r].order] = rush[r].plan]
           /\ balance' = balance - RushCost /\ balance >= RushCost
    BY <1>5 DEF CommitRush, CanPay
  <2>4. CASE UNCHANGED <<tier, eta, balance>>
    BY <2>2, <2>4, <1>t DEF DbTypes
  <2>5. CASE ~UNCHANGED <<tier, eta, balance>>
    <3>1. balance' \in Nat
      BY <2>3, <2>5, <1>t, ArcAssumption DEF DbTypes
    <3>2. tier' \in [Orders -> Tiers]
      BY <2>3, <2>5, <1>t, TierAssumption DEF DbTypes
    <3>3. eta' \in [Orders -> [Steps -> Nat]]
      BY <2>1, <2>3, <2>5, <1>t DEF DbTypes
    <3> QED BY <3>1, <3>2, <3>3, <2>2, <1>t DEF DbTypes
  <2> QED BY <2>4, <2>5
<1>6. ASSUME NEW r \in Rushers, (\E o \in Orders : StartRush(r, o)) \/ PlanRush(r) \/ ArmRush(r) \/ RushFails(r)
      PROVE  DbTypes'
  BY <1>6, <1>t DEF StartRush, PlanRush, ArmRush, RushFails, DbTypes, db, bounds
<1>7. CASE Restart \/ ResumeFails
  BY <1>7, <1>t DEF Restart, ResumeFails, DbTypes, db, bounds
<1> QED BY <1>1, <1>2, <1>3, <1>4, <1>5, <1>6, <1>7 DEF Next, RushStep

LEMMA NextSetTypes ==
  ASSUME ArcTypes, Plans, ArmedOnce, Next
  PROVE  SetTypes'
<1>t. SetTypes /\ \A r \in Rushers : rush[r].pc = "arm" => rush[r].order \in Orders
  BY DEF ArcTypes, ArmedOnce
<1>1. CASE Tick
  BY <1>1, <1>t DEF Tick, SetTypes, memory
<1>2. ASSUME NEW o \in Orders, (\E t \in Tiers : PlaceOrder(o, t)) \/ ArmLadder(o) \/ ArmLadderFails(o) \/ ResumeOrder(o)
      PROVE  SetTypes'
  BY <1>2, <1>t DEF PlaceOrder, ArmLadder, ArmLadderFails, ResumeOrder, SetTypes
<1>3. ASSUME NEW j \in Jobs, JobStep(j) \/ JobFails(j) PROVE SetTypes'
  BY <1>3, <1>t, JobFields DEF JobStep, TimerFires, ReadOrder, UpdateOrderState, SendPush, JobFails, SetTypes
<1>4. ASSUME NEW r \in Rushers, (\E o \in Orders : StartRush(r, o)) \/ RushStep(r) \/ RushFails(r) PROVE SetTypes'
  BY <1>4, <1>t DEF StartRush, RushStep, PlanRush, CommitRush, ArmRush, RushFails, SetTypes
<1>5. CASE Restart \/ ResumeFails
  BY <1>5, <1>t DEF Restart, ResumeFails, SetTypes, InFlight
<1> QED BY <1>1, <1>2, <1>3, <1>4, <1>5 DEF Next

LEMMA NextJobTypes ==
  ASSUME ArcTypes, Chained, ArmedOnce, Next
  PROVE  JobTypes' /\ ChainTypes'
<1>t. DbTypes /\ SetTypes /\ JobTypes /\ ChainTypes
  BY DEF ArcTypes
<1>0. UNCHANGED <<jobVars, chain, sent>> => JobTypes' /\ ChainTypes'
  BY <1>t DEF jobVars, JobTypes, ChainTypes
<1>a. ASSUME NEW o \in Orders, NEW by, ScheduleOrderLadder(o, by), UNCHANGED <<chain, sent>>
      PROVE  JobTypes' /\ ChainTypes'
  BY <1>a, <1>t, ArmTypes DEF ChainTypes
<1>1. CASE Tick
  BY <1>1, <1>0 DEF Tick, memory, jobVars
<1>2. ASSUME NEW o \in Orders, ArmLadder(o) \/ ResumeOrder(o) PROVE JobTypes' /\ ChainTypes'
  BY <1>2, <1>a DEF ArmLadder, ResumeOrder
<1>3. ASSUME NEW o \in Orders, (\E t \in Tiers : PlaceOrder(o, t)) \/ ArmLadderFails(o) PROVE JobTypes' /\ ChainTypes'
  BY <1>3, <1>0 DEF PlaceOrder, ArmLadderFails
<1>4. ASSUME NEW j \in Jobs, TimerFires(j) PROVE JobTypes' /\ ChainTypes'
  <2>1. j.order \in Orders /\ Append(chain[j.order], j) \in Seq(Jobs)
    BY <1>t, JobFields DEF ChainTypes
  <2> QED BY <2>1, <1>4, <1>t DEF TimerFires, JobTypes, ChainTypes
<1>f. ASSUME NEW j \in Jobs, Finish(j), chain[j.order] # <<>>, sent' \in [Orders -> Seq(Steps)]
      PROVE  JobTypes' /\ ChainTypes'
  BY <1>f, <1>t, FinishTypes DEF ChainTypes
<1>5. ASSUME NEW j \in Jobs, ReadOrder(j) PROVE JobTypes' /\ ChainTypes'
  <2>1. CASE IsValidTransition(state[j.order], j.target)
    <3>1. state[j.order] \in {None} \cup Placed
      BY <1>t, JobFields DEF DbTypes
    <3> QED BY <2>1, <3>1, <1>5, <1>t DEF ReadOrder, JobTypes, ChainTypes
  <2>2. CASE ~IsValidTransition(state[j.order], j.target)
    BY <2>2, <1>5, <1>f, <1>t DEF ReadOrder, AtHead, ChainTypes
  <2> QED BY <2>1, <2>2
<1>6. ASSUME NEW j \in Jobs, UpdateOrderState(j) PROVE JobTypes' /\ ChainTypes'
  <2>1. jobPc[j] = "cas" /\ chain[j.order] # <<>> /\ UNCHANGED sent
    BY <1>6 DEF UpdateOrderState, Chained
  <2>2. CASE Finish(j)
    BY <2>1, <2>2, <1>f, <1>t DEF ChainTypes
  <2>3. CASE jobPc' = [jobPc EXCEPT ![j] = "push"] /\ UNCHANGED <<jobDue, jobSeen, chain>>
    BY <2>1, <2>3, <1>t DEF JobTypes, ChainTypes
  <2> QED BY <2>2, <2>3, <1>6 DEF UpdateOrderState
<1>7. ASSUME NEW j \in Jobs, SendPush(j) PROVE JobTypes' /\ ChainTypes'
  <2>1. chain[j.order] # <<>> /\ Finish(j)
    BY <1>7 DEF SendPush, Chained
  <2>2. sent' \in [Orders -> Seq(Steps)]
    <3>1. j.order \in Orders /\ Append(sent[j.order], j.target) \in Seq(Steps)
      BY <1>t, JobFields DEF ChainTypes
    <3> QED BY <3>1, <1>7, <1>t DEF SendPush, ChainTypes
  <2> QED BY <2>1, <2>2, <1>f
<1>8. ASSUME NEW j \in Jobs, JobFails(j) PROVE JobTypes' /\ ChainTypes'
  BY <1>8, <1>f, <1>t DEF JobFails, AtHead, ChainTypes
<1>9. ASSUME NEW r \in Rushers, ArmRush(r) PROVE JobTypes' /\ ChainTypes'
  BY <1>9, <1>a DEF ArmRush, ArmedOnce
<1>10. ASSUME NEW r \in Rushers, (\E o \in Orders : StartRush(r, o)) \/ PlanRush(r) \/ CommitRush(r) \/ RushFails(r)
       PROVE  JobTypes' /\ ChainTypes'
  BY <1>10, <1>0 DEF StartRush, PlanRush, CommitRush, RushFails
<1>11. CASE Restart
  <2>1. <<>> \in Seq(Jobs)
    OBVIOUS
  <2> QED BY <2>1, <1>11, <1>t DEF Restart, JobTypes, ChainTypes
<1>12. CASE ResumeFails
  BY <1>12, <1>0 DEF ResumeFails
<1> QED BY <1>1, <1>2, <1>3, <1>4, <1>5, <1>6, <1>7, <1>8, <1>9, <1>10, <1>11, <1>12 DEF Next, JobStep, RushStep

LEMMA NextRushTypes ==
  ASSUME ArcTypes, Plans, ArmedOnce, Next
  PROVE  RushTypes'
<1>t. DbTypes /\ RushTypes
  BY DEF ArcTypes
<1>0. UNCHANGED rush => RushTypes'
  BY <1>t DEF RushTypes
<1>1. ASSUME NEW r \in Rushers, NEW o \in Orders, StartRush(r, o) PROVE RushTypes'
  <2> DEFINE x == [rush[r] EXCEPT !.pc = "read", !.order = o]
  <2>1. x \in Requests
    BY <1>t DEF RushTypes, Requests
  <2>2. rush' = [rush EXCEPT ![r] = x]
    BY <1>1, <1>t DEF StartRush, RushTypes, Requests
  <2> HIDE DEF x
  <2> QED BY <2>1, <2>2, <1>t DEF RushTypes
<1>2. ASSUME NEW r \in Rushers, PlanRush(r) PROVE RushTypes'
  <2> DEFINE o == rush[r].order
             plan == RushedEta(state[o], placedAt[o], eta[o])
  <2>1. o \in Orders
    BY <1>2 DEF PlanRush, ArmedOnce
  <2>2. \/ \E a \in {"ALREADY_EXPRESS", "NOT_IN_TRANSIT", "NO_SPEEDUP"} : Answer(r, a)
        \/ /\ state[o] \in InTransit
           /\ rush' = [rush EXCEPT ![r].pc = "tx", ![r].from = state[o], ![r].plan = plan]
    BY <1>2 DEF PlanRush
  <2>3. CASE \E a \in {"ALREADY_EXPRESS", "NOT_IN_TRANSIT", "NO_SPEEDUP"} : Answer(r, a)
    BY <2>3, <1>t, AnswerTypes
  <2>4. CASE /\ state[o] \in InTransit
             /\ rush' = [rush EXCEPT ![r].pc = "tx", ![r].from = state[o], ![r].plan = plan]
    <3>1. plan \in [Steps -> Nat]
      BY <2>1, <2>4, <1>t, RushForward DEF DbTypes
    <3> HIDE DEF plan
    <3> DEFINE x == [rush[r] EXCEPT !.pc = "tx", !.from = state[o], !.plan = plan]
    <3>2. x \in Requests
      BY <3>1, <2>4, <1>t DEF RushTypes, Requests
    <3>3. rush' = [rush EXCEPT ![r] = x]
      BY <2>4, <1>t DEF RushTypes, Requests
    <3> HIDE DEF x
    <3> QED BY <3>2, <3>3, <1>t DEF RushTypes
  <2> QED BY <2>2, <2>3, <2>4
<1>3. ASSUME NEW r \in Rushers, CommitRush(r) PROVE RushTypes'
  <2>1. \/ Answer(r, "ORDER_CHANGED") \/ Answer(r, "INSUFFICIENT_COINS")
        \/ rush' = [rush EXCEPT ![r].pc = "arm"]
        \/ /\ rush[r].attempt + 1 < MaxAttempts
           /\ rush' = [rush EXCEPT ![r].pc = "read", ![r].attempt = @ + 1]
    BY <1>3 DEF CommitRush, RetryRush
  <2>2. ASSUME rush[r].attempt + 1 < MaxAttempts,
               rush' = [rush EXCEPT ![r].pc = "read", ![r].attempt = @ + 1]
        PROVE  RushTypes'
    <3>1. PICK n \in 0 .. MaxAttempts : n = rush[r].attempt + 1
      BY <2>2, <1>t DEF RushTypes, Requests, MaxAttempts
    <3>2. rush' = [rush EXCEPT ![r] = [rush[r] EXCEPT !.pc = "read", !.attempt = n]]
      BY <2>2, <3>1, <1>t DEF RushTypes, Requests
    <3> DEFINE x == [rush[r] EXCEPT !.pc = "read", !.attempt = n]
    <3>3. x \in Requests
      BY <1>t DEF RushTypes, Requests
    <3> HIDE DEF x
    <3>4. rush' = [rush EXCEPT ![r] = x]
      BY <3>2 DEF x
    <3> QED BY <3>3, <3>4, <1>t DEF RushTypes
  <2>3. CASE rush' = [rush EXCEPT ![r].pc = "arm"]
    <3> DEFINE x == [rush[r] EXCEPT !.pc = "arm"]
    <3>1. x \in Requests
      BY <1>t DEF RushTypes, Requests
    <3>2. rush' = [rush EXCEPT ![r] = x]
      BY <2>3, <1>t DEF RushTypes, Requests
    <3> HIDE DEF x
    <3> QED BY <3>1, <3>2, <1>t DEF RushTypes
  <2> QED BY <2>1, <2>2, <2>3, <1>t, AnswerTypes
<1>4. ASSUME NEW r \in Rushers, ArmRush(r) \/ RushFails(r) PROVE RushTypes'
  BY <1>4, <1>t, AnswerTypes DEF ArmRush, RushFails
<1>5. CASE Restart
  <2>1. Answered("ERROR") \in Requests
    BY IdleFits DEF Answered, Requests, Idle
  <2> QED BY <2>1, <1>5, <1>t DEF Restart, RushTypes
<1>6. CASE Tick \/ ResumeFails
  BY <1>6, <1>0 DEF Tick, ResumeFails, memory
<1>7. ASSUME NEW o \in Orders, (\E t \in Tiers : PlaceOrder(o, t)) \/ ArmLadder(o) \/ ArmLadderFails(o) \/ ResumeOrder(o)
      PROVE  RushTypes'
  BY <1>7, <1>0 DEF PlaceOrder, ArmLadder, ArmLadderFails, ResumeOrder
<1>8. ASSUME NEW j \in Jobs, JobStep(j) \/ JobFails(j) PROVE RushTypes'
  BY <1>8, <1>0 DEF JobStep, TimerFires, ReadOrder, UpdateOrderState, SendPush, JobFails
<1> QED BY <1>1, <1>2, <1>3, <1>4, <1>5, <1>6, <1>7, <1>8 DEF Next, RushStep

(***************************************************************************)
(* What becomes of the jobs in a step.                                     *)
(***************************************************************************)
Arms(o, by) == Unarmed(o, by) /\ ScheduleOrderLadder(o, by) /\ UNCHANGED chain

Works(j) == /\ AtHead(j) /\ UNCHANGED <<chain, jobDue>>
            /\ \/ jobPc[j] = "queued" /\ jobPc' = [jobPc EXCEPT ![j] = "cas"]
               \/ jobPc[j] = "cas" /\ jobPc' = [jobPc EXCEPT ![j] = "push"] /\ UNCHANGED jobSeen

Ends(j) == AtHead(j) /\ jobPc[j] \in {"queued", "cas", "push"} /\ Finish(j)

LEMMA HeadOfChain ==
  ASSUME Chained, NEW j \in Jobs, jobPc[j] \in {"cas", "push"}
  PROVE  AtHead(j)
BY DEF Chained, AtHead

LEMMA JobStepShapes ==
  ASSUME Chained, NEW j \in Jobs, JobStep(j) \/ JobFails(j)
  PROVE  TimerFires(j) \/ Works(j) \/ Ends(j)
<1>1. CASE ReadOrder(j)
  BY <1>1 DEF ReadOrder, Works, Ends
<1>2. CASE UpdateOrderState(j)
  BY <1>2, HeadOfChain DEF UpdateOrderState, Works, Ends
<1>3. CASE SendPush(j)
  BY <1>3, HeadOfChain DEF SendPush, Ends
<1>4. CASE JobFails(j)
  BY <1>4 DEF JobFails, Ends
<1> QED BY <1>1, <1>2, <1>3, <1>4 DEF JobStep

LEMMA ArmingShapes ==
  ASSUME ArmedOnce, NEW o \in Orders, ArmLadder(o) \/ ResumeOrder(o)
  PROVE  Arms(o, "ladder")
BY DEF ArmLadder, ResumeOrder, ArmedOnce, Arms

LEMMA RushingShapes ==
  ASSUME ArmedOnce, NEW r \in Rushers, ArmRush(r)
  PROVE  rush[r].order \in Orders /\ Arms(rush[r].order, "rush")
BY DEF ArmRush, ArmedOnce, Arms, RushArming

\* Steps that leave the jobs alone
Aside ==
  \/ Tick \/ ResumeFails
  \/ \E o \in Orders : (\E t \in Tiers : PlaceOrder(o, t)) \/ ArmLadderFails(o)
  \/ \E r \in Rushers : (\E o \in Orders : StartRush(r, o)) \/ PlanRush(r) \/ CommitRush(r) \/ RushFails(r)

LEMMA NextShapes ==
  ASSUME Next
  PROVE  \/ Aside \/ Restart
         \/ \E o \in Orders : ArmLadder(o) \/ ResumeOrder(o)
         \/ \E r \in Rushers : ArmRush(r)
         \/ \E j \in Jobs : JobStep(j) \/ JobFails(j)
BY DEF Next, Aside, RushStep

LEMMA AsideShapes ==
  ASSUME Aside
  PROVE  UNCHANGED <<jobPc, jobDue, jobSeen, chain, sent>>
<1>1. CASE Tick \/ ResumeFails
  BY <1>1 DEF Tick, ResumeFails, memory, jobVars
<1>2. ASSUME NEW o \in Orders, (\E t \in Tiers : PlaceOrder(o, t)) \/ ArmLadderFails(o)
      PROVE  UNCHANGED <<jobPc, jobDue, jobSeen, chain, sent>>
  BY <1>2 DEF PlaceOrder, ArmLadderFails, jobVars
<1>3. ASSUME NEW r \in Rushers, (\E o \in Orders : StartRush(r, o)) \/ PlanRush(r) \/ CommitRush(r) \/ RushFails(r)
      PROVE  UNCHANGED <<jobPc, jobDue, jobSeen, chain, sent>>
  BY <1>3 DEF StartRush, PlanRush, CommitRush, RushFails, jobVars
<1> QED BY <1>1, <1>2, <1>3 DEF Aside

\* Arming sets jobs that were nothing before.
LEMMA Arming ==
  ASSUME JobTypes, NEW o \in Orders, NEW by, Arms(o, by)
  PROVE  /\ Armed(o, by) \subseteq Jobs
         /\ \A j \in Armed(o, by) : /\ jobPc[j] = "none" /\ jobPc'[j] = "armed" /\ j.order = o /\ j.by = by
                                    /\ jobDue'[j] = Later(eta[o][j.target], now)
         /\ \A j \in Jobs \ Armed(o, by) : jobPc'[j] = jobPc[j] /\ jobDue'[j] = jobDue[j]
         /\ UNCHANGED <<chain, jobSeen>>
BY DEF JobTypes, Arms, Unarmed, Armed, JobsOf, ScheduleOrderLadder

LEMMA Ending ==
  ASSUME JobTypes, ChainTypes, Chained, NEW j \in Jobs, Ends(j)
  PROVE  /\ jobPc'[j] = "none" /\ chain[j.order] # <<>> /\ chain[j.order][1] = j
         /\ \A k \in Jobs \ {j} : jobPc'[k] = jobPc[k] /\ jobDue'[k] = jobDue[k] /\ jobSeen'[k] = jobSeen[k]
         /\ \A o \in Orders \ {j.order} : chain'[o] = chain[o]
         /\ chain[j.order] \in Seq(Jobs) /\ Len(chain'[j.order]) = Len(chain[j.order]) - 1
         /\ \A i \in 1 .. Len(chain'[j.order]) : i + 1 \in 1 .. Len(chain[j.order])
                                               /\ chain'[j.order][i] = chain[j.order][i + 1]
<1>1. /\ j.order \in Orders /\ chain[j.order] \in Seq(Jobs) /\ chain[j.order] # <<>> /\ Head(chain[j.order]) = j
      /\ jobPc' = [jobPc EXCEPT ![j] = "none"] /\ jobDue' = [jobDue EXCEPT ![j] = 0]
      /\ jobSeen' = [jobSeen EXCEPT ![j] = None] /\ chain' = [chain EXCEPT ![j.order] = Tail(chain[j.order])]
  BY JobFields DEF Ends, AtHead, Finish, ChainTypes
<1>2. chain'[j.order] = Tail(chain[j.order]) /\ \A o \in Orders \ {j.order} : chain'[o] = chain[o]
  BY <1>1 DEF ChainTypes
<1>3. /\ jobPc'[j] = "none"
      /\ \A k \in Jobs \ {j} : jobPc'[k] = jobPc[k] /\ jobDue'[k] = jobDue[k] /\ jobSeen'[k] = jobSeen[k]
  BY <1>1 DEF JobTypes
<1>4. PICK s \in Seq(Jobs) : s = chain[j.order]
  BY <1>1
<1>5. /\ s # <<>> /\ s[1] = j /\ Len(Tail(s)) = Len(s) - 1
      /\ \A i \in 1 .. Len(Tail(s)) : i + 1 \in 1 .. Len(s) /\ Tail(s)[i] = s[i + 1]
  BY <1>1, <1>4
<1> QED BY <1>1, <1>2, <1>3, <1>4, <1>5

LEMMA Firing ==
  ASSUME JobTypes, ChainTypes, NEW j \in Jobs, TimerFires(j)
  PROVE  /\ jobPc[j] = "armed" /\ jobPc'[j] = "queued" /\ jobDue[j] <= now
         /\ \A k \in Jobs \ {j} : jobPc'[k] = jobPc[k]
         /\ \A o \in Orders \ {j.order} : chain'[o] = chain[o]
         /\ chain[j.order] \in Seq(Jobs) /\ Len(chain'[j.order]) = Len(chain[j.order]) + 1
         /\ \A i \in 1 .. Len(chain[j.order]) : chain'[j.order][i] = chain[j.order][i]
         /\ chain'[j.order][Len(chain[j.order]) + 1] = j
         /\ UNCHANGED <<jobDue, jobSeen>>
<1>1. /\ j.order \in Orders /\ chain[j.order] \in Seq(Jobs)
      /\ chain' = [chain EXCEPT ![j.order] = Append(chain[j.order], j)]
      /\ jobPc' = [jobPc EXCEPT ![j] = "queued"] /\ jobPc[j] = "armed" /\ jobDue[j] <= now
      /\ UNCHANGED <<jobDue, jobSeen>>
  BY JobFields DEF TimerFires, ChainTypes
<1>2. chain'[j.order] = Append(chain[j.order], j) /\ \A o \in Orders \ {j.order} : chain'[o] = chain[o]
  BY <1>1 DEF ChainTypes
<1>3. jobPc'[j] = "queued" /\ \A k \in Jobs \ {j} : jobPc'[k] = jobPc[k]
  BY <1>1 DEF JobTypes
<1>4. PICK s \in Seq(Jobs) : s = chain[j.order]
  BY <1>1
<1>5. /\ Len(Append(s, j)) = Len(s) + 1 /\ Append(s, j)[Len(s) + 1] = j
      /\ \A i \in 1 .. Len(s) : Append(s, j)[i] = s[i]
  BY <1>4
<1> QED BY <1>1, <1>2, <1>3, <1>4, <1>5

(***************************************************************************)
(* The chains.                                                             *)
(***************************************************************************)
LEMMA ChainedStays ==
  ASSUME ArcTypes, Chained, UNCHANGED chain,
         \A j \in Jobs : jobPc[j] = jobPc'[j] \/ (jobPc[j] \in {"none", "armed"} /\ jobPc'[j] \in {"none", "armed"})
  PROVE  Chained'
<1>1. \A o \in Orders : \A i \in 1 .. Len(chain[o]) : chain[o][i] \in Jobs
  BY DEF ArcTypes, ChainTypes
<1> QED BY <1>1 DEF Chained

LEMMA WorksChained ==
  ASSUME ArcTypes, Chained, NEW j \in Jobs, Works(j)
  PROVE  Chained'
<1>1. \A o \in Orders : \A i \in 1 .. Len(chain[o]) : chain[o][i] \in Jobs
  BY DEF ArcTypes, ChainTypes
<1>2. /\ jobPc'[j] \in {"cas", "push"} /\ \A k \in Jobs \ {j} : jobPc'[k] = jobPc[k]
      /\ UNCHANGED chain /\ chain[j.order] # <<>> /\ Head(chain[j.order]) = j
  BY DEF Works, AtHead, ArcTypes, JobTypes
<1> QED BY <1>1, <1>2 DEF Chained

LEMMA FiresChained ==
  ASSUME ArcTypes, Chained, NEW j \in Jobs, TimerFires(j)
  PROVE  Chained'
<1>t. JobTypes /\ ChainTypes /\ j.order \in Orders
  BY JobFields DEF ArcTypes
<1> DEFINE n == Len(chain[j.order])
<1>1. /\ jobPc[j] = "armed" /\ jobPc'[j] = "queued"
      /\ \A k \in Jobs \ {j} : jobPc'[k] = jobPc[k]
      /\ \A o \in Orders \ {j.order} : chain'[o] = chain[o]
      /\ chain[j.order] \in Seq(Jobs) /\ Len(chain'[j.order]) = n + 1
      /\ \A i \in 1 .. n : chain'[j.order][i] = chain[j.order][i]
      /\ chain'[j.order][n + 1] = j
  BY <1>t, Firing
<1>2. \A o \in Orders : \A i \in 1 .. Len(chain[o]) : chain[o][i] \in Jobs /\ chain[o][i] # j
  <2> SUFFICES ASSUME NEW o \in Orders, NEW i \in 1 .. Len(chain[o]) PROVE chain[o][i] \in Jobs /\ chain[o][i] # j
    OBVIOUS
  <2>1. jobPc[chain[o][i]] \in {"queued", "cas", "push"}
    BY DEF Chained
  <2>2. chain[o][i] \in Jobs
    BY <1>t DEF ChainTypes
  <2> QED BY <2>1, <2>2, <1>1
<1>3. \A i \in 1 .. Len(chain'[j.order]) : i \in 1 .. n \/ i = n + 1
  BY <1>1
<1>4. ASSUME NEW o \in Orders, NEW i \in 1 .. Len(chain'[o])
      PROVE  chain'[o][i].order = o /\ jobPc'[chain'[o][i]] \in {"queued", "cas", "push"}
  <2>1. CASE o # j.order
    BY <2>1, <1>1, <1>2, <1>4 DEF Chained
  <2>2. CASE o = j.order /\ i \in 1 .. n
    BY <2>2, <1>1, <1>2, <1>4, SMTT(30) DEF Chained
  <2>3. CASE o = j.order /\ i = n + 1
    BY <2>3, <1>1
  <2> QED BY <2>1, <2>2, <2>3, <1>3, <1>4
<1>5. ASSUME NEW o \in Orders, NEW i \in 1 .. Len(chain'[o]), NEW k \in 1 .. Len(chain'[o]), chain'[o][i] = chain'[o][k]
      PROVE  i = k
  <2>1. CASE o # j.order
    BY <2>1, <1>1, <1>5 DEF Chained
  <2>2. CASE o = j.order /\ i \in 1 .. n /\ k \in 1 .. n
    <3>1. chain[o][i] = chain[o][k]
      BY <2>2, <1>1, <1>5
    <3> QED BY <2>2, <3>1 DEF Chained
  <2>3. CASE o = j.order /\ i \in 1 .. n /\ k = n + 1
    BY <2>3, <1>1, <1>2, <1>5, <1>t
  <2>4. CASE o = j.order /\ i = n + 1 /\ k \in 1 .. n
    BY <2>4, <1>1, <1>2, <1>5, <1>t
  <2> QED BY <2>1, <2>2, <2>3, <2>4, <1>3
<1>6. ASSUME NEW k \in Jobs, jobPc'[k] \in {"cas", "push"} PROVE chain'[k.order] # <<>> /\ Head(chain'[k.order]) = k
  <2>1. k # j /\ chain[k.order] # <<>> /\ Head(chain[k.order]) = k /\ k.order \in Orders
    BY <1>1, <1>6, JobFields DEF Chained
  <2>2. CASE k.order # j.order
    BY <2>1, <2>2, <1>1
  <2>3. CASE k.order = j.order
    <3>1. chain'[j.order] = Append(chain[j.order], j)
      BY <1>t DEF TimerFires, ChainTypes
    <3> QED BY <2>1, <2>3, <3>1, <1>1
  <2> QED BY <2>2, <2>3
<1>7. ASSUME NEW k \in Jobs, jobPc'[k] = "queued" PROVE \E i \in 1 .. Len(chain'[k.order]) : chain'[k.order][i] = k
  <2>1. CASE k = j
    BY <2>1, <1>1
  <2>2. CASE k # j
    <3>1. PICK i \in 1 .. Len(chain[k.order]) : chain[k.order][i] = k
      BY <2>2, <1>1, <1>7 DEF Chained
    <3> QED BY <3>1, <1>1, JobFields
  <2> QED BY <2>1, <2>2
<1> QED BY <1>4, <1>5, <1>6, <1>7 DEF Chained

LEMMA EndsChained ==
  ASSUME ArcTypes, Chained, NEW j \in Jobs, Ends(j)
  PROVE  Chained'
<1>t. JobTypes /\ ChainTypes /\ j.order \in Orders
  BY JobFields DEF ArcTypes
<1>1. /\ jobPc'[j] = "none" /\ chain[j.order] # <<>> /\ chain[j.order][1] = j
      /\ \A k \in Jobs \ {j} : jobPc'[k] = jobPc[k]
      /\ \A o \in Orders \ {j.order} : chain'[o] = chain[o]
      /\ chain[j.order] \in Seq(Jobs) /\ Len(chain'[j.order]) = Len(chain[j.order]) - 1
      /\ \A i \in 1 .. Len(chain'[j.order]) : i + 1 \in 1 .. Len(chain[j.order])
                                            /\ chain'[j.order][i] = chain[j.order][i + 1]
  BY <1>t, Ending
<1>2. \A o \in Orders : \A i \in 1 .. Len(chain[o]) : chain[o][i] \in Jobs
  BY <1>t DEF ChainTypes
<1>3. 1 \in 1 .. Len(chain[j.order])
  BY <1>1
<1>4. ASSUME NEW o \in Orders, NEW i \in 1 .. Len(chain'[o])
      PROVE  chain'[o][i].order = o /\ jobPc'[chain'[o][i]] \in {"queued", "cas", "push"}
  <2>1. CASE o # j.order
    <3>1. chain[o][i].order = o /\ i \in 1 .. Len(chain[o])
      BY <2>1, <1>1 DEF Chained
    <3> QED BY <2>1, <3>1, <1>1, <1>2, SMTT(30) DEF Chained
  <2>2. CASE o = j.order
    <3>1. /\ i + 1 \in 1 .. Len(chain[o]) /\ chain'[o][i] = chain[o][i + 1] /\ i + 1 # 1
      BY <2>2, <1>1
    <3>2. chain[o][i + 1] # j
      BY <3>1, <2>2, <1>1, <1>3 DEF Chained
    <3> QED BY <3>1, <3>2, <1>1, <1>2 DEF Chained
  <2> QED BY <2>1, <2>2
<1>5. ASSUME NEW o \in Orders, NEW i \in 1 .. Len(chain'[o]), NEW k \in 1 .. Len(chain'[o]), chain'[o][i] = chain'[o][k]
      PROVE  i = k
  <2>1. CASE o # j.order
    BY <2>1, <1>1, <1>5 DEF Chained
  <2>2. CASE o = j.order
    <3>1. /\ i + 1 \in 1 .. Len(chain[o]) /\ k + 1 \in 1 .. Len(chain[o]) /\ chain[o][i + 1] = chain[o][k + 1]
      BY <2>2, <1>1, <1>5
    <3> QED BY <3>1 DEF Chained
  <2> QED BY <2>1, <2>2
<1>6. ASSUME NEW k \in Jobs, jobPc'[k] \in {"cas", "push"} PROVE chain'[k.order] # <<>> /\ Head(chain'[k.order]) = k
  <2>1. k # j /\ chain[k.order] # <<>> /\ Head(chain[k.order]) = k /\ k.order \in Orders
    BY <1>1, <1>6, JobFields DEF Chained
  <2>2. k.order # j.order
    BY <2>1, <1>1
  <2> QED BY <2>1, <2>2, <1>1
<1>7. ASSUME NEW k \in Jobs, jobPc'[k] = "queued" PROVE \E i \in 1 .. Len(chain'[k.order]) : chain'[k.order][i] = k
  <2>1. k # j /\ k.order \in Orders
    BY <1>1, <1>7, JobFields
  <2>2. PICK i \in 1 .. Len(chain[k.order]) : chain[k.order][i] = k
    BY <2>1, <1>1, <1>7 DEF Chained
  <2>3. CASE k.order # j.order
    BY <2>1, <2>2, <2>3, <1>1
  <2>4. CASE k.order = j.order
    <3>1. i # 1
      BY <2>1, <2>2, <2>4, <1>1
    <3>2. i - 1 \in 1 .. Len(chain'[k.order]) /\ chain'[k.order][i - 1] = chain[k.order][(i - 1) + 1]
      BY <3>1, <2>2, <2>4, <1>1
    <3> QED BY <3>2, <2>2
  <2> QED BY <2>3, <2>4
<1> QED BY <1>4, <1>5, <1>6, <1>7 DEF Chained

LEMMA RestartChained ==
  ASSUME Restart
  PROVE  Chained'
BY JobFields DEF Restart, Chained

LEMMA NextChained ==
  ASSUME ArcTypes, Chained, ArmedOnce, Next
  PROVE  Chained'
<1>t. JobTypes
  BY DEF ArcTypes
<1>1. CASE Aside
  BY <1>1, AsideShapes, ChainedStays
<1>2. ASSUME NEW o \in Orders, NEW by, Arms(o, by) PROVE Chained'
  <2>1. UNCHANGED chain /\ \A j \in Jobs : \/ jobPc[j] = jobPc'[j]
                                           \/ jobPc[j] = "none" /\ jobPc'[j] = "armed"
    BY <1>2, <1>t, Arming
  <2> QED BY <2>1, ChainedStays
<1>3. ASSUME NEW j \in Jobs, JobStep(j) \/ JobFails(j) PROVE Chained'
  BY <1>3, JobStepShapes, WorksChained, FiresChained, EndsChained
<1> QED BY <1>1, <1>2, <1>3, NextShapes, ArmingShapes, RushingShapes, RestartChained

(***************************************************************************)
(* What is armed once.                                                     *)
(***************************************************************************)
LEMMA NothingArmed ==
  ASSUME NEW o, NEW by, Unarmed(o, by), \A j \in Jobs : jobPc[j] = "none" => jobPc'[j] = "none"
  PROVE  Unarmed(o, by)'
BY DEF Unarmed, JobsOf

LEMMA JobsArmedOnce ==
  ASSUME ArcTypes, ArmedOnce, UNCHANGED <<tier, rush>>, todo' \subseteq todo, arming' \subseteq arming,
         \A j \in Jobs : jobPc[j] = "none" => jobPc'[j] = "none",
         \A o \in Orders : IF state[o] = None THEN state'[o] = None /\ sent'[o] = sent[o] ELSE state'[o] # None
  PROVE  ArmedOnce'
<1>1. \A o, by : Unarmed(o, by) => Unarmed(o, by)'
  BY NothingArmed
<1>2. UNCHANGED <<tier, rush>> /\ todo' \subseteq todo /\ arming' \subseteq arming /\ arming \subseteq Orders /\ todo \subseteq Orders
  BY DEF ArcTypes, SetTypes
<1>3. \A o : RushArming(o)' <=> RushArming(o)
  BY <1>2 DEF RushArming
<1>4. \A o \in arming \cup todo : state'[o] # None /\ Unarmed(o, "ladder")'
  BY <1>1, <1>2 DEF ArmedOnce
<1>5. \A o \in Orders : RushArming(o)' => tier'[o] = Express /\ Unarmed(o, "rush")'
  BY <1>1, <1>2, <1>3 DEF ArmedOnce
<1>6. \A o \in Orders : tier'[o] # Express => Unarmed(o, "rush")'
  BY <1>1, <1>2 DEF ArmedOnce
<1>7. \A o \in Orders : state'[o] = None => Unarmed(o, "ladder")' /\ Unarmed(o, "rush")' /\ sent'[o] = <<>>
  BY <1>1 DEF ArmedOnce
<1>8. \A r \in Rushers : rush'[r].pc \in {"read", "tx", "arm"} => rush'[r].order \in Orders /\ state'[rush'[r].order] # None
  BY <1>2 DEF ArmedOnce
<1>9. /\ todo' # {} => arming' = {}
      /\ \A q, r \in Rushers : rush'[q].pc = "arm" /\ rush'[r].pc = "arm" /\ rush'[q].order = rush'[r].order => q = r
  BY <1>2 DEF ArmedOnce
<1> QED BY <1>2, <1>4, <1>5, <1>6, <1>7, <1>8, <1>9 DEF ArmedOnce

LEMMA RushArmedOnce ==
  ASSUME ArcTypes, ArmedOnce, UNCHANGED <<todo, arming, jobPc, sent, state, tier>>, NEW r \in Rushers,
         \A q \in Rushers \ {r} : rush'[q] = rush[q],
         rush'[r].pc # "arm",
         rush'[r].pc \in {"read", "tx"} => rush'[r].order \in Orders /\ state[rush'[r].order] # None
  PROVE  ArmedOnce'
<1>1. \A o, by : Unarmed(o, by)' <=> Unarmed(o, by)
  BY DEF Unarmed, JobsOf
<1>2. \A o : RushArming(o)' => RushArming(o)
  BY DEF RushArming
<1>3. \A o \in arming' \cup todo' : state'[o] # None /\ Unarmed(o, "ladder")'
  BY <1>1 DEF ArmedOnce
<1>4. \A o \in Orders : RushArming(o)' => tier'[o] = Express /\ Unarmed(o, "rush")'
  BY <1>1, <1>2 DEF ArmedOnce
<1>5. \A o \in Orders : tier'[o] # Express => Unarmed(o, "rush")'
  BY <1>1 DEF ArmedOnce
<1>6. \A o \in Orders : state'[o] = None => Unarmed(o, "ladder")' /\ Unarmed(o, "rush")' /\ sent'[o] = <<>>
  BY <1>1 DEF ArmedOnce
<1>7. /\ todo' # {} => arming' = {}
      /\ \A q, p \in Rushers : rush'[q].pc = "arm" /\ rush'[p].pc = "arm" /\ rush'[q].order = rush'[p].order => q = p
      /\ \A q \in Rushers : rush'[q].pc \in {"read", "tx", "arm"} => rush'[q].order \in Orders /\ state'[rush'[q].order] # None
  BY DEF ArmedOnce
<1> QED BY <1>3, <1>4, <1>5, <1>6, <1>7 DEF ArmedOnce

LEMMA AnsweredOne ==
  ASSUME RushTypes, NEW r \in Rushers, NEW a, Answer(r, a)
  PROVE  /\ rush'[r].pc = "done" /\ rush'[r].answer = a
         /\ \A q \in Rushers \ {r} : rush'[q] = rush[q]
BY DEF RushTypes, Answer, Answered, Idle

LEMMA StartsArmedOnce ==
  ASSUME ArcTypes, ArmedOnce, NEW r \in Rushers, NEW o \in Orders, StartRush(r, o)
  PROVE  ArmedOnce'
<1>1. /\ rush'[r].pc = "read" /\ rush'[r].order = o /\ state[o] # None
      /\ \A q \in Rushers \ {r} : rush'[q] = rush[q]
  BY DEF StartRush, ArcTypes, RushTypes, Requests
<1> QED BY <1>1, RushArmedOnce DEF StartRush, db, jobVars

LEMMA PlansArmedOnce ==
  ASSUME ArcTypes, ArmedOnce, NEW r \in Rushers, PlanRush(r)
  PROVE  ArmedOnce'
<1>1. /\ \/ rush'[r].pc = "done"
         \/ rush'[r].pc = "tx" /\ rush'[r].order = rush[r].order
      /\ \A q \in Rushers \ {r} : rush'[q] = rush[q]
  <2>1. \/ \E a : Answer(r, a)
        \/ \E s, p : rush' = [rush EXCEPT ![r].pc = "tx", ![r].from = s, ![r].plan = p]
    BY DEF PlanRush
  <2>2. ASSUME NEW s, NEW p, rush' = [rush EXCEPT ![r].pc = "tx", ![r].from = s, ![r].plan = p]
        PROVE  /\ rush'[r].pc = "tx" /\ rush'[r].order = rush[r].order
               /\ \A q \in Rushers \ {r} : rush'[q] = rush[q]
    BY <2>2 DEF ArcTypes, RushTypes, Requests
  <2> QED BY <2>1, <2>2, AnsweredOne DEF ArcTypes
<1>2. rush[r].order \in Orders /\ state[rush[r].order] # None
  BY DEF PlanRush, ArmedOnce
<1> QED BY <1>1, <1>2, RushArmedOnce DEF PlanRush, db, jobVars

LEMMA CommitsArmedOnce ==
  ASSUME ArcTypes, ArmedOnce, NEW r \in Rushers, CommitRush(r)
  PROVE  ArmedOnce'
<1> DEFINE o == rush[r].order
<1>1. o \in Orders /\ state[o] # None /\ rush[r].pc = "tx"
  BY DEF CommitRush, ArmedOnce
<1>2. UNCHANGED <<state, sent, arming, jobPc, todo>>
  BY DEF CommitRush, jobVars
<1>3. CASE ~OrderChanged(r) /\ CanPay(RushCost)
  <2>1. /\ tier[o] # Express /\ tier' = [tier EXCEPT ![o] = Express]
        /\ rush' = [rush EXCEPT ![r].pc = "arm"]
    BY <1>3 DEF CommitRush, OrderChanged
  <2>2. /\ rush'[r].pc = "arm" /\ rush'[r].order = o
        /\ \A q \in Rushers \ {r} : rush'[q] = rush[q]
        /\ tier'[o] = Express /\ \A p \in Orders \ {o} : tier'[p] = tier[p]
    BY <2>1, <1>1 DEF ArcTypes, RushTypes, Requests, DbTypes
  <2>3. \A p, by : Unarmed(p, by)' <=> Unarmed(p, by)
    BY <1>2 DEF Unarmed, JobsOf
  <2>4. ~RushArming(o) /\ \A p : RushArming(p)' => RushArming(p) \/ p = o
    BY <2>1, <2>2, <1>1 DEF RushArming, ArmedOnce
  <2>5. \A p \in arming' \cup todo' : state'[p] # None /\ Unarmed(p, "ladder")'
    BY <2>3, <1>2 DEF ArmedOnce
  <2>6. \A p \in Orders : RushArming(p)' => tier'[p] = Express /\ Unarmed(p, "rush")'
    BY <2>1, <2>2, <2>3, <2>4, <1>1 DEF ArmedOnce
  <2>7. \A p \in Orders : tier'[p] # Express => Unarmed(p, "rush")'
    BY <2>2, <2>3 DEF ArmedOnce
  <2>8. \A p \in Orders : state'[p] = None => Unarmed(p, "ladder")' /\ Unarmed(p, "rush")' /\ sent'[p] = <<>>
    BY <2>3, <1>2 DEF ArmedOnce
  <2>9. \A q \in Rushers : rush[q].pc = "arm" => rush[q].order # o
    BY <2>4 DEF RushArming
  <2>10. \A q, p \in Rushers : rush'[q].pc = "arm" /\ rush'[p].pc = "arm" /\ rush'[q].order = rush'[p].order => q = p
    BY <2>2, <2>9 DEF ArmedOnce
  <2>11. \A q \in Rushers : rush'[q].pc \in {"read", "tx", "arm"} => rush'[q].order \in Orders /\ state'[rush'[q].order] # None
    BY <2>2, <1>1, <1>2 DEF ArmedOnce
  <2>12. todo' # {} => arming' = {}
    BY <1>2 DEF ArmedOnce
  <2> QED BY <2>5, <2>6, <2>7, <2>8, <2>10, <2>11, <2>12 DEF ArmedOnce
<1>4. CASE OrderChanged(r) \/ ~CanPay(RushCost)
  <2>1. UNCHANGED tier /\ ((\E a : Answer(r, a)) \/ rush' = [rush EXCEPT ![r].pc = "read", ![r].attempt = @ + 1])
    BY <1>4 DEF CommitRush, RetryRush
  <2>2. ASSUME rush' = [rush EXCEPT ![r].pc = "read", ![r].attempt = @ + 1]
        PROVE  /\ rush'[r].pc = "read" /\ rush'[r].order = o
               /\ \A q \in Rushers \ {r} : rush'[q] = rush[q]
    BY <2>2 DEF ArcTypes, RushTypes, Requests
  <2> QED BY <2>1, <2>2, <1>1, <1>2, AnsweredOne, RushArmedOnce DEF ArcTypes
<1> QED BY <1>3, <1>4

LEMMA PlacesArmedOnce ==
  ASSUME ArcTypes, ArmedOnce, NEW o \in Orders, NEW t \in Tiers, PlaceOrder(o, t)
  PROVE  ArmedOnce'
<1>1. /\ todo = {} /\ state[o] = None /\ arming' = arming \cup {o}
      /\ UNCHANGED <<sent, jobPc, rush, todo>>
      /\ state'[o] = "PROCESSING" /\ \A p \in Orders \ {o} : state'[p] = state[p] /\ tier'[p] = tier[p]
  BY DEF PlaceOrder, Serving, jobVars, ArcTypes, DbTypes
<1>2. \A p, by : Unarmed(p, by)' <=> Unarmed(p, by)
  BY <1>1 DEF Unarmed, JobsOf
<1>3. \A p : RushArming(p)' <=> RushArming(p)
  BY <1>1 DEF RushArming
<1>4. ~RushArming(o) /\ Unarmed(o, "ladder") /\ Unarmed(o, "rush")
  BY <1>1 DEF RushArming, ArmedOnce
<1>5. \A p \in arming' \cup todo' : state'[p] # None /\ Unarmed(p, "ladder")'
  <2>1. arming \subseteq Orders
    BY DEF ArcTypes, SetTypes
  <2>2. \A p \in arming : state[p] # None /\ Unarmed(p, "ladder")
    BY DEF ArmedOnce
  <2> QED BY <2>1, <2>2, <1>1, <1>2, <1>4 DEF None
<1>6. \A p \in Orders : RushArming(p)' => tier'[p] = Express /\ Unarmed(p, "rush")'
  BY <1>1, <1>2, <1>3, <1>4 DEF ArmedOnce
<1>7. \A p \in Orders : tier'[p] # Express => Unarmed(p, "rush")'
  BY <1>1, <1>2, <1>4 DEF ArmedOnce
<1>8. \A p \in Orders : state'[p] = None => Unarmed(p, "ladder")' /\ Unarmed(p, "rush")' /\ sent'[p] = <<>>
  BY <1>1, <1>2 DEF ArmedOnce, None
<1>9. /\ \A q, p \in Rushers : rush'[q].pc = "arm" /\ rush'[p].pc = "arm" /\ rush'[q].order = rush'[p].order => q = p
      /\ \A q \in Rushers : rush'[q].pc \in {"read", "tx", "arm"} => rush'[q].order \in Orders /\ state'[rush'[q].order] # None
  BY <1>1 DEF ArmedOnce, None
<1> QED BY <1>1, <1>5, <1>6, <1>7, <1>8, <1>9 DEF ArmedOnce

LEMMA ArmsOthers ==
  ASSUME JobTypes, NEW o \in Orders, NEW by, Arms(o, by), NEW p, NEW b, p # o \/ b # by, Unarmed(p, b)
  PROVE  Unarmed(p, b)'
<1>1. \A j \in JobsOf(p) : j.by = b => j \in Jobs \ Armed(o, by)
  BY DEF JobsOf, Armed
<1> QED BY <1>1, Arming DEF Unarmed, JobsOf

LEMMA LadderArmedOnce ==
  ASSUME ArcTypes, ArmedOnce, NEW o \in Orders, ArmLadder(o) \/ ResumeOrder(o)
  PROVE  ArmedOnce'
<1>t. JobTypes /\ Arms(o, "ladder") /\ state[o] # None
  BY ArmingShapes DEF ArcTypes, ArmLadder, ResumeOrder, ArmedOnce
<1>1. \A p, by : (p # o \/ by # "ladder") /\ Unarmed(p, by) => Unarmed(p, by)'
  BY <1>t, ArmsOthers
<1>2. /\ UNCHANGED <<state, tier, sent, rush>> /\ arming' \cup todo' \subseteq (arming \cup todo) \ {o}
      /\ todo' \subseteq todo /\ arming' \subseteq arming
  BY DEF ArmLadder, ResumeOrder, ArmedOnce, db
<1>3. \A p : RushArming(p)' <=> RushArming(p)
  BY <1>2 DEF RushArming
<1>4. \A p \in arming' \cup todo' : state'[p] # None /\ Unarmed(p, "ladder")'
  BY <1>1, <1>2 DEF ArmedOnce
<1>5. \A p \in Orders : RushArming(p)' => tier'[p] = Express /\ Unarmed(p, "rush")'
  BY <1>1, <1>2, <1>3 DEF ArmedOnce
<1>6. \A p \in Orders : tier'[p] # Express => Unarmed(p, "rush")'
  BY <1>1, <1>2 DEF ArmedOnce
<1>7. \A p \in Orders : state'[p] = None => Unarmed(p, "ladder")' /\ Unarmed(p, "rush")' /\ sent'[p] = <<>>
  BY <1>1, <1>2, <1>t DEF ArmedOnce
<1>8. /\ todo' # {} => arming' = {}
      /\ \A q, p \in Rushers : rush'[q].pc = "arm" /\ rush'[p].pc = "arm" /\ rush'[q].order = rush'[p].order => q = p
      /\ \A q \in Rushers : rush'[q].pc \in {"read", "tx", "arm"} => rush'[q].order \in Orders /\ state'[rush'[q].order] # None
  BY <1>2 DEF ArmedOnce
<1> QED BY <1>4, <1>5, <1>6, <1>7, <1>8 DEF ArmedOnce

LEMMA RushesArmedOnce ==
  ASSUME ArcTypes, ArmedOnce, NEW r \in Rushers, ArmRush(r)
  PROVE  ArmedOnce'
<1>o. PICK o \in Orders : o = rush[r].order /\ Arms(o, "rush") /\ rush[r].pc = "arm"
  BY RushingShapes DEF ArmRush
<1>t. JobTypes /\ tier[o] = Express /\ state[o] # None
  BY <1>o DEF ArcTypes, ArmedOnce, RushArming
<1>1. \A p, by : (p # o \/ by # "rush") /\ Unarmed(p, by) => Unarmed(p, by)'
  BY <1>o, <1>t, ArmsOthers
<1>2. /\ UNCHANGED <<state, tier, sent, arming, todo>>
      /\ rush'[r].pc = "done" /\ \A q \in Rushers \ {r} : rush'[q] = rush[q]
  BY AnsweredOne DEF ArmRush, db, ArcTypes
<1>3. \A p : RushArming(p)' => RushArming(p) /\ p # o
  <2>1. \A q \in Rushers \ {r} : rush[q].pc = "arm" => rush[q].order # o
    BY <1>o DEF ArmedOnce
  <2> QED BY <2>1, <1>2 DEF RushArming
<1>4. \A p \in arming' \cup todo' : state'[p] # None /\ Unarmed(p, "ladder")'
  BY <1>1, <1>2 DEF ArmedOnce
<1>5. \A p \in Orders : RushArming(p)' => tier'[p] = Express /\ Unarmed(p, "rush")'
  BY <1>1, <1>2, <1>3 DEF ArmedOnce
<1>6. \A p \in Orders : tier'[p] # Express => Unarmed(p, "rush")'
  BY <1>1, <1>2, <1>t DEF ArmedOnce
<1>7. \A p \in Orders : state'[p] = None => Unarmed(p, "ladder")' /\ Unarmed(p, "rush")' /\ sent'[p] = <<>>
  BY <1>1, <1>2, <1>t DEF ArmedOnce
<1>8. /\ todo' # {} => arming' = {}
      /\ \A q, p \in Rushers : rush'[q].pc = "arm" /\ rush'[p].pc = "arm" /\ rush'[q].order = rush'[p].order => q = p
      /\ \A q \in Rushers : rush'[q].pc \in {"read", "tx", "arm"} => rush'[q].order \in Orders /\ state'[rush'[q].order] # None
  BY <1>2 DEF ArmedOnce
<1> QED BY <1>4, <1>5, <1>6, <1>7, <1>8 DEF ArmedOnce

LEMMA RestartArmedOnce ==
  ASSUME ArcTypes, ArmedOnce, Restart
  PROVE  ArmedOnce'
<1>1. /\ UNCHANGED <<state, tier, sent>> /\ arming' = {} /\ todo' = InFlight
      /\ \A j \in Jobs : jobPc'[j] = "none"
      /\ \A r \in Rushers : rush'[r].pc \in {"idle", "done"}
  BY DEF Restart, db, Answered, Idle
<1>2. \A p, by : Unarmed(p, by)'
  BY <1>1 DEF Unarmed, JobsOf
<1>3. \A p \in todo' : state'[p] # None
  BY <1>1 DEF InFlight, InTransit, None
<1>4. \A p : ~RushArming(p)'
  BY <1>1 DEF RushArming
<1>5. \A p \in Orders : state'[p] = None => sent'[p] = <<>>
  BY <1>1 DEF ArmedOnce
<1>6. \A r \in Rushers : rush'[r].pc \notin {"read", "tx", "arm"}
  BY <1>1
<1> QED BY <1>1, <1>2, <1>3, <1>4, <1>5, <1>6 DEF ArmedOnce

\* A job's order exists.
LEMMA JobsOrder ==
  ASSUME ArmedOnce, NEW j \in Jobs, jobPc[j] # "none"
  PROVE  state[j.order] # None
BY JobFields DEF ArmedOnce, Unarmed

LEMMA JobsAlone ==
  ASSUME ArcTypes, Chained, NEW j \in Jobs, JobStep(j) \/ JobFails(j)
  PROVE  /\ UNCHANGED <<now, tier, placedAt, eta, balance, todo, arming, rush>>
         /\ jobPc[j] # "none"
         /\ \A k \in Jobs : jobPc[k] = "none" => jobPc'[k] = "none"
         /\ \A k \in Jobs \ {j} : jobPc'[k] = jobPc[k]
         /\ \A o \in Orders \ {j.order} : state'[o] = state[o] /\ sent'[o] = sent[o]
<1>1. UNCHANGED <<now, tier, placedAt, eta, balance, todo, arming, rush>>
  BY DEF JobStep, TimerFires, ReadOrder, UpdateOrderState, SendPush, JobFails, db
<1>2. jobPc[j] # "none" /\ \E pc : jobPc' = [jobPc EXCEPT ![j] = pc]
  BY DEF JobStep, TimerFires, ReadOrder, UpdateOrderState, SendPush, JobFails, Finish
<1>3. (UNCHANGED state \/ \E s : state' = [state EXCEPT ![j.order] = s])
      /\ (UNCHANGED sent \/ \E s : sent' = [sent EXCEPT ![j.order] = s])
  BY DEF JobStep, TimerFires, ReadOrder, UpdateOrderState, SendPush, JobFails, db
<1>4. \A k \in Jobs \ {j} : jobPc'[k] = jobPc[k]
  BY <1>2 DEF ArcTypes, JobTypes
<1>5. \A o \in Orders \ {j.order} : state'[o] = state[o] /\ sent'[o] = sent[o]
  BY <1>3 DEF ArcTypes, DbTypes, ChainTypes
<1> QED BY <1>1, <1>2, <1>4, <1>5

LEMMA NextArmedOnce ==
  ASSUME ArcTypes, Chained, ArmedOnce, Next
  PROVE  ArmedOnce'
<1>1. CASE Tick
  BY <1>1, JobsArmedOnce DEF Tick, memory, db
<1>2. ASSUME NEW o \in Orders, ArmLadderFails(o) PROVE ArmedOnce'
  BY <1>2, JobsArmedOnce DEF ArmLadderFails, jobVars, db
<1>3. CASE ResumeFails
  BY <1>3, JobsArmedOnce DEF ResumeFails, jobVars, db
<1>4. ASSUME NEW j \in Jobs, JobStep(j) \/ JobFails(j) PROVE ArmedOnce'
  <2>1. j.order \in Orders /\ state[j.order] # None
    BY <1>4, JobsAlone, JobsOrder, JobFields
  <2>2. state'[j.order] # None
    <3>1. j.target # None
      BY JobFields, Ladder DEF Placed
    <3>2. CASE UNCHANGED state
      BY <3>2, <2>1
    <3>3. CASE state' = [state EXCEPT ![j.order] = j.target]
      BY <3>1, <3>3, <2>1 DEF ArcTypes, DbTypes
    <3> QED BY <3>2, <3>3, <1>4 DEF JobStep, TimerFires, ReadOrder, UpdateOrderState, SendPush, JobFails, db
  <2> QED BY <2>1, <2>2, <1>4, JobsAlone, JobsArmedOnce
<1>5. ASSUME NEW r \in Rushers, RushFails(r) PROVE ArmedOnce'
  BY <1>5, AnsweredOne, RushArmedOnce DEF RushFails, db, jobVars, ArcTypes
<1> QED BY <1>1, <1>2, <1>3, <1>4, <1>5, StartsArmedOnce, PlansArmedOnce, CommitsArmedOnce, PlacesArmedOnce,
           LadderArmedOnce, RushesArmedOnce, RestartArmedOnce DEF Next, RushStep

(***************************************************************************)
(* When jobs are due, and what they have seen.                             *)
(***************************************************************************)
\* An order that is placed has no job yet.
LEMMA PlacesNoJobs ==
  ASSUME ArcTypes, ArmedOnce, NEW o \in Orders, NEW t \in Tiers, PlaceOrder(o, t)
  PROVE  /\ state[o] = None /\ sent[o] = <<>> /\ ~RushArming(o)
         /\ \A r \in Rushers : rush[r].pc \in {"read", "tx", "arm"} => rush[r].order # o
         /\ \A j \in Jobs : j.order = o => jobPc[j] = "none"
         /\ \A p \in Orders \ {o} : state'[p] = state[p] /\ tier'[p] = tier[p] /\ eta'[p] = eta[p] /\ placedAt'[p] = placedAt[p]
         /\ state'[o] = "PROCESSING" /\ eta'[o] = BuildStateEta(now, t) /\ arming' = arming \cup {o}
         /\ UNCHANGED <<now, rush, todo, lost>>
<1>1. state[o] = None
  BY DEF PlaceOrder
<1>2. sent[o] = <<>> /\ ~RushArming(o)
  BY <1>1 DEF ArmedOnce, RushArming
<1>3. \A r \in Rushers : rush[r].pc \in {"read", "tx", "arm"} => rush[r].order # o
  BY <1>1 DEF ArmedOnce
<1>4. \A j \in Jobs : j.order = o => jobPc[j] = "none"
  BY <1>1, JobFields DEF ArmedOnce, Unarmed
<1>5. \A p \in Orders \ {o} : state'[p] = state[p] /\ tier'[p] = tier[p] /\ eta'[p] = eta[p] /\ placedAt'[p] = placedAt[p]
  BY DEF PlaceOrder, ArcTypes, DbTypes
<1>6. /\ state'[o] = "PROCESSING" /\ eta'[o] = BuildStateEta(now, t) /\ arming' = arming \cup {o}
      /\ UNCHANGED <<now, rush, todo, lost>>
  BY DEF PlaceOrder, ArcTypes, DbTypes
<1> QED BY <1>1, <1>2, <1>3, <1>4, <1>5, <1>6

\* A rush that commits commits what its order is now.
LEMMA CommitsPlan ==
  ASSUME ArcTypes, ArmedOnce, Plans, NEW r \in Rushers, CommitRush(r), ~OrderChanged(r), CanPay(RushCost),
         NEW o, o = rush[r].order
  PROVE  /\ o \in Orders /\ state[o] \in InTransit /\ tier[o] # Express /\ balance >= RushCost
         /\ tier' = [tier EXCEPT ![o] = Express] /\ balance' = balance - RushCost
         /\ eta' = [eta EXCEPT ![o] = RushedEta(state[o], placedAt[o], eta[o])]
         /\ eta'[o] = RushedEta(state[o], placedAt[o], eta[o])
         /\ \A p \in Orders \ {o} : eta'[p] = eta[p] /\ tier'[p] = tier[p]
         /\ UNCHANGED <<now, state, placedAt, todo, arming, lost>>
         /\ rush'[r].pc = "arm" /\ rush'[r].order = o /\ \A q \in Rushers \ {r} : rush'[q] = rush[q]
<1>1. o \in Orders /\ rush[r].pc = "tx"
  BY DEF CommitRush, ArmedOnce
<1>2. state[o] = rush[r].from /\ tier[o] # Express /\ balance >= RushCost
  BY DEF OrderChanged, CanPay
<1>3. rush[r].from \in InTransit /\ rush[r].plan = RushedEta(rush[r].from, placedAt[o], eta[o])
  BY <1>1, <1>2 DEF Plans, Planned
<1>4. /\ tier' = [tier EXCEPT ![o] = Express] /\ eta' = [eta EXCEPT ![o] = rush[r].plan]
      /\ balance' = balance - RushCost /\ rush' = [rush EXCEPT ![r].pc = "arm"]
      /\ UNCHANGED <<now, state, placedAt, todo, arming, lost>>
  BY DEF CommitRush
<1>5. rush'[r].pc = "arm" /\ rush'[r].order = o /\ \A q \in Rushers \ {r} : rush'[q] = rush[q]
  BY <1>4 DEF ArcTypes, RushTypes, Requests
<1>6. eta'[o] = rush[r].plan /\ \A p \in Orders \ {o} : eta'[p] = eta[p] /\ tier'[p] = tier[p]
  BY <1>1, <1>4 DEF ArcTypes, DbTypes
<1> QED BY <1>1, <1>2, <1>3, <1>4, <1>5, <1>6

LEMMA AsideDb ==
  ASSUME Aside
  PROVE  \/ \E o \in Orders, t \in Tiers : PlaceOrder(o, t)
         \/ \E r \in Rushers : CommitRush(r) /\ ~OrderChanged(r) /\ CanPay(RushCost)
         \/ UNCHANGED db /\ (Tick \/ now' = now)
<1>1. CASE Tick \/ ResumeFails
  BY <1>1 DEF Tick, ResumeFails
<1>2. ASSUME NEW o \in Orders, ArmLadderFails(o) PROVE UNCHANGED db /\ now' = now
  BY <1>2 DEF ArmLadderFails
<1>3. ASSUME NEW r \in Rushers, (\E o \in Orders : StartRush(r, o)) \/ PlanRush(r) \/ RushFails(r)
      PROVE  UNCHANGED db /\ now' = now
  BY <1>3 DEF StartRush, PlanRush, RushFails
<1>4. ASSUME NEW r \in Rushers, CommitRush(r), OrderChanged(r) \/ ~CanPay(RushCost) PROVE UNCHANGED db /\ now' = now
  BY <1>4 DEF CommitRush, db
<1> QED BY <1>1, <1>2, <1>3, <1>4 DEF Aside

LEMMA DueStays ==
  ASSUME ArcTypes, Due, UNCHANGED <<jobPc, jobDue>>, now' \in Nat, now <= now',
         \A j \in Jobs : jobPc[j] # "none" => eta'[j.order][j.target] \in Nat /\ eta'[j.order][j.target] <= eta[j.order][j.target]
  PROVE  Due'
<1>1. \A j \in Jobs : jobDue[j] \in Nat /\ eta[j.order][j.target] \in Nat /\ now \in Nat
  BY JobFields DEF ArcTypes, JobTypes, DbTypes
<1> QED BY <1>1 DEF Due

LEMMA AsideDue ==
  ASSUME ArcTypes, ArmedOnce, Plans, Due, Aside
  PROVE  Due'
<1>1. /\ now \in Nat /\ UNCHANGED <<jobPc, jobDue>>
      /\ \A j \in Jobs : j.order \in Orders /\ j.target \in Steps /\ eta[j.order][j.target] \in Nat
  BY AsideShapes, JobFields DEF ArcTypes, DbTypes
<1>2. ASSUME NEW o \in Orders, NEW t \in Tiers, PlaceOrder(o, t) PROVE Due'
  BY <1>1, <1>2, PlacesNoJobs, DueStays
<1>3. ASSUME NEW r \in Rushers, CommitRush(r), ~OrderChanged(r), CanPay(RushCost) PROVE Due'
  <2>1. PICK o \in Orders :
          /\ state[o] \in InTransit /\ now' = now /\ placedAt[o] \in Nat /\ eta[o] \in [Steps -> Nat]
          /\ eta'[o] = RushedEta(state[o], placedAt[o], eta[o])
          /\ \A p \in Orders \ {o} : eta'[p] = eta[p]
    BY <1>3, CommitsPlan DEF ArcTypes, DbTypes
  <2>2. eta'[o] \in [Steps -> Nat] /\ \A s \in Steps : eta'[o][s] <= eta[o][s]
    BY <2>1, RushForward
  <2>3. \A j \in Jobs : eta'[j.order][j.target] \in Nat /\ eta'[j.order][j.target] <= eta[j.order][j.target]
    BY <2>1, <2>2, <1>1
  <2> QED BY <2>1, <2>3, <1>1, DueStays
<1>4. CASE UNCHANGED db /\ (Tick \/ now' = now)
  <2>1. now' \in Nat /\ now <= now' /\ UNCHANGED eta
    BY <1>1, <1>4 DEF Tick, db
  <2> QED BY <2>1, <1>1, DueStays
<1> QED BY <1>2, <1>3, <1>4, AsideDb

LEMMA ArmsDue ==
  ASSUME ArcTypes, Due, NEW o \in Orders, NEW by, Arms(o, by), UNCHANGED <<now, db>>
  PROVE  Due'
<1>1. JobTypes /\ UNCHANGED <<now, eta>>
  BY DEF ArcTypes, db
<1>2. \A j \in Jobs : eta[j.order][j.target] \in Nat /\ now \in Nat
  BY JobFields DEF ArcTypes, DbTypes
<1>3. ASSUME NEW j \in Armed(o, by)
      PROVE  j \in Jobs /\ jobPc'[j] = "armed" /\ eta'[j.order][j.target] <= jobDue'[j]
  <2>1. /\ j \in Jobs /\ jobPc'[j] = "armed" /\ j.order = o
        /\ jobDue'[j] = Later(eta[o][j.target], now)
    BY <1>1, Arming
  <2> QED BY <2>1, <1>1, <1>2 DEF Later
<1>4. ASSUME NEW j \in Jobs \ Armed(o, by) PROVE jobPc'[j] = jobPc[j] /\ jobDue'[j] = jobDue[j]
  BY <1>1, Arming
<1> QED BY <1>1, <1>3, <1>4 DEF Due

LEMMA NextDue ==
  ASSUME ArcTypes, Chained, ArmedOnce, Plans, Due, Next
  PROVE  Due'
<1>1. ASSUME NEW o \in Orders, ArmLadder(o) \/ ResumeOrder(o) PROVE Due'
  BY <1>1, ArmingShapes, ArmsDue DEF ArmLadder, ResumeOrder
<1>2. ASSUME NEW r \in Rushers, ArmRush(r) PROVE Due'
  BY <1>2, RushingShapes, ArmsDue DEF ArmRush
<1>3. ASSUME NEW j \in Jobs, JobStep(j) \/ JobFails(j) PROVE Due'
  <2>1. UNCHANGED <<now, eta>> /\ \A k \in Jobs \ {j} : jobPc'[k] = jobPc[k]
    BY <1>3, JobsAlone
  <2>2. \A k \in Jobs \ {j} : jobDue'[k] = jobDue[k]
    BY <1>3 DEF JobStep, TimerFires, ReadOrder, UpdateOrderState, SendPush, JobFails, Finish, ArcTypes, JobTypes
  <2>3. \/ jobPc'[j] = "none"
        \/ /\ jobPc'[j] \in {"queued", "cas", "push"} /\ jobDue'[j] = jobDue[j] /\ jobDue[j] <= now
           /\ jobPc[j] # "none"
    <3>1. CASE TimerFires(j)
      BY <3>1, Firing DEF ArcTypes
    <3>2. CASE Works(j)
      BY <3>2 DEF Works, Due, ArcTypes, JobTypes
    <3>3. CASE Ends(j)
      BY <3>3, Ending DEF ArcTypes
    <3> QED BY <3>1, <3>2, <3>3, <1>3, JobStepShapes
  <2>4. ASSUME NEW k \in Jobs
        PROVE  /\ jobPc'[k] # "none" => eta'[k.order][k.target] <= jobDue'[k]
               /\ jobPc'[k] \in {"queued", "cas", "push"} => jobDue'[k] <= now'
    BY <2>1, <2>2, <2>3 DEF Due
  <2> QED BY <2>4 DEF Due
<1>4. CASE Restart
  BY <1>4 DEF Restart, Due
<1> QED BY <1>1, <1>2, <1>3, <1>4, AsideDue, NextShapes

LEMMA NextSeen ==
  ASSUME ArcTypes, Chained, ArmedOnce, Seen, Next
  PROVE  Seen'
<1>t. JobTypes /\ state \in [Orders -> {None} \cup Placed]
  BY DEF ArcTypes, DbTypes
<1>0. ASSUME UNCHANGED state,
             \A j \in Jobs : jobPc'[j] \in {"cas", "push"} => jobPc[j] = jobPc'[j] /\ jobSeen'[j] = jobSeen[j]
      PROVE  Seen'
  BY <1>0 DEF Seen
<1>1. CASE Aside
  <2>1. UNCHANGED <<jobPc, jobSeen>>
    BY <1>1, AsideShapes
  <2>2. ASSUME NEW o \in Orders, NEW t \in Tiers, PlaceOrder(o, t) PROVE Seen'
    BY <2>1, <2>2, PlacesNoJobs, JobFields DEF Seen
  <2>3. ASSUME NEW r \in Rushers, CommitRush(r) PROVE UNCHANGED state
    BY <2>3 DEF CommitRush
  <2> QED BY <2>1, <2>2, <2>3, <1>0, <1>1, AsideDb DEF db
<1>2. ASSUME NEW o \in Orders, NEW by, Arms(o, by), UNCHANGED db PROVE Seen'
  <2>1. \A j \in Jobs : jobPc'[j] = jobPc[j] \/ jobPc'[j] = "armed"
    BY <1>2, <1>t, Arming
  <2>2. UNCHANGED <<state, jobSeen>>
    BY <1>2 DEF db, Arms, ScheduleOrderLadder
  <2> QED BY <2>1, <2>2, <1>0
<1>3. ASSUME NEW j \in Jobs, JobStep(j) \/ JobFails(j) PROVE Seen'
  <2>1. \A k \in Jobs \ {j} : jobPc'[k] = jobPc[k] /\ jobSeen'[k] = jobSeen[k]
    BY <1>3 DEF JobStep, TimerFires, ReadOrder, UpdateOrderState, SendPush, JobFails, Finish, ArcTypes, JobTypes
  <2>2. CASE TimerFires(j)
    BY <2>1, <2>2, <1>0, Firing DEF TimerFires, db, ArcTypes
  <2>3. CASE Ends(j) /\ UNCHANGED state
    BY <2>1, <2>3, <1>0, Ending DEF ArcTypes
  <2>4. CASE ReadOrder(j)
    <3>1. CASE IsValidTransition(state[j.order], j.target)
      <4>1. /\ UNCHANGED state /\ jobPc'[j] = "cas" /\ jobSeen'[j] = state[j.order]
        BY <2>4, <3>1, <1>t DEF ReadOrder, db, JobTypes
      <4> QED BY <4>1, <3>1, <2>1 DEF Seen
    <3>2. CASE ~IsValidTransition(state[j.order], j.target)
      BY <2>3, <2>4, <3>2 DEF ReadOrder, Ends, db
    <3> QED BY <3>1, <3>2
  <2>5. CASE UpdateOrderState(j)
    <3>1. /\ jobPc[j] = "cas" /\ jobSeen[j] = state[j.order] /\ j.order \in Orders
      BY <2>5, JobFields DEF UpdateOrderState, Seen
    <3>2. /\ state' = [state EXCEPT ![j.order] = j.target] /\ jobPc' = [jobPc EXCEPT ![j] = "push"]
      BY <2>5, <3>1 DEF UpdateOrderState
    <3>3. /\ state'[j.order] = j.target /\ jobPc'[j] = "push"
          /\ \A o \in Orders \ {j.order} : state'[o] = state[o]
      BY <3>1, <3>2, <1>t DEF JobTypes
    <3>4. \A k \in Jobs \ {j} : jobPc[k] \in {"cas", "push"} => k.order # j.order
      BY <3>1 DEF Chained
    <3> QED BY <2>1, <3>3, <3>4, JobFields DEF Seen
  <2>6. CASE SendPush(j) \/ JobFails(j)
    <3>1. UNCHANGED state /\ Ends(j)
      BY <2>6, HeadOfChain DEF SendPush, JobFails, db, Ends
    <3> QED BY <2>3, <3>1
  <2> QED BY <2>2, <2>4, <2>5, <2>6, <1>3 DEF JobStep
<1>4. CASE Restart
  BY <1>4 DEF Restart, Seen
<1>5. ASSUME NEW o \in Orders, ArmLadder(o) \/ ResumeOrder(o) PROVE Seen'
  BY <1>5, <1>2, ArmingShapes DEF ArmLadder, ResumeOrder
<1>6. ASSUME NEW r \in Rushers, ArmRush(r) PROVE Seen'
  BY <1>6, <1>2, RushingShapes DEF ArmRush
<1> QED BY <1>1, <1>3, <1>4, <1>5, <1>6, NextShapes

(***************************************************************************)
(* Pushes.                                                                 *)
(***************************************************************************)
LEMMA SentSteps ==
  ASSUME ArcTypes, NEW o \in Orders, NEW i \in 1 .. Len(sent[o])
  PROVE  sent[o][i] \in Steps /\ sent[o][i] \in Placed
<1>1. PICK s \in Seq(Steps) : s = sent[o]
  BY DEF ArcTypes, ChainTypes
<1> QED BY <1>1 DEF Placed

LEMMA AnnouncingStays ==
  ASSUME Announcing, UNCHANGED <<state, sent>>, \A j \in Jobs : jobPc'[j] = "push" => jobPc[j] = "push"
  PROVE  Announcing'
BY DEF Announcing, Reached

LEMMA Moving ==
  ASSUME ArcTypes, Chained, ArmedOnce, Seen, NEW j \in Jobs, UpdateOrderState(j)
  PROVE  /\ j.order \in Orders /\ jobPc[j] = "cas" /\ state[j.order] = jobSeen[j]
         /\ state[j.order] \in InTransit /\ j.target = NextState[state[j.order]] /\ j.target \in Ahead[state[j.order]]
         /\ state' = [state EXCEPT ![j.order] = j.target]
         /\ state'[j.order] = j.target /\ \A o \in Orders \ {j.order} : state'[o] = state[o]
         /\ jobPc'[j] = "push" /\ \A k \in Jobs \ {j} : jobPc'[k] = jobPc[k]
         /\ \A k \in Jobs \ {j} : jobPc[k] \in {"cas", "push"} => k.order # j.order
         /\ UNCHANGED <<now, tier, placedAt, eta, balance, sent, chain, jobDue, arming, todo, lost, rush>>
<1>1. jobPc[j] = "cas" /\ jobSeen[j] = state[j.order] /\ IsValidTransition(state[j.order], j.target)
  BY DEF UpdateOrderState, Seen
<1>2. j.order \in Orders /\ j.target \in Steps /\ state[j.order] \in {None} \cup Placed
  BY JobFields DEF ArcTypes, DbTypes
<1>3. state[j.order] \in Placed
  BY <1>1, <1>2, JobsOrder
<1>4. state[j.order] \in InTransit /\ j.target = NextState[state[j.order]] /\ j.target \in Ahead[state[j.order]]
  BY <1>1, <1>2, <1>3, NextRung
<1>5. /\ state' = [state EXCEPT ![j.order] = j.target] /\ jobPc' = [jobPc EXCEPT ![j] = "push"]
      /\ UNCHANGED <<now, tier, placedAt, eta, balance, sent, chain, jobDue, arming, todo, lost, rush>>
  BY <1>1 DEF UpdateOrderState
<1>6. /\ state'[j.order] = j.target /\ jobPc'[j] = "push"
      /\ \A o \in Orders \ {j.order} : state'[o] = state[o]
      /\ \A k \in Jobs \ {j} : jobPc'[k] = jobPc[k]
  BY <1>2, <1>5 DEF ArcTypes, DbTypes, JobTypes
<1>7. \A k \in Jobs \ {j} : jobPc[k] \in {"cas", "push"} => k.order # j.order
  BY <1>1 DEF Chained
<1> QED BY <1>1, <1>2, <1>4, <1>5, <1>6, <1>7

LEMMA NextAnnouncing ==
  ASSUME ArcTypes, Chained, ArmedOnce, Seen, Announcing, Next
  PROVE  Announcing'
<1>t. JobTypes
  BY DEF ArcTypes
<1>1. CASE Aside
  <2>1. UNCHANGED <<jobPc, sent>>
    BY <1>1, AsideShapes
  <2>2. ASSUME NEW o \in Orders, NEW t \in Tiers, PlaceOrder(o, t) PROVE Announcing'
    <3>1. sent[o] = <<>> /\ \A p \in Orders \ {o} : state'[p] = state[p]
      BY <2>2, PlacesNoJobs
    <3>2. \A p \in Orders : Reached(p)'
      BY <2>1, <3>1 DEF Announcing, Reached
    <3>3. \A j \in Jobs : jobPc'[j] = "push" =>
            \A i \in 1 .. Len(sent'[j.order]) : j.target \in Ahead[sent'[j.order][i]]
      BY <2>1 DEF Announcing
    <3> QED BY <3>2, <3>3 DEF Announcing
  <2>3. ASSUME NEW r \in Rushers, CommitRush(r) PROVE UNCHANGED state
    BY <2>3 DEF CommitRush
  <2> QED BY <2>1, <2>2, <2>3, <1>1, AsideDb, AnnouncingStays DEF db
<1>2. ASSUME NEW o \in Orders, NEW by, Arms(o, by), UNCHANGED <<db, sent>> PROVE Announcing'
  <2>1. \A j \in Jobs : jobPc'[j] = jobPc[j] \/ jobPc'[j] = "armed"
    BY <1>2, <1>t, Arming
  <2> QED BY <2>1, <1>2, AnnouncingStays DEF db
<1>3. ASSUME NEW j \in Jobs, UpdateOrderState(j) PROVE Announcing'
  <2>1. /\ j.order \in Orders /\ state[j.order] \in InTransit /\ j.target \in Ahead[state[j.order]]
        /\ state'[j.order] = j.target /\ \A o \in Orders \ {j.order} : state'[o] = state[o]
        /\ \A k \in Jobs \ {j} : jobPc'[k] = jobPc[k]
        /\ \A k \in Jobs \ {j} : jobPc[k] \in {"cas", "push"} => k.order # j.order
        /\ UNCHANGED sent
    BY <1>3, Moving
  <2>2. ASSUME NEW i \in 1 .. Len(sent[j.order]) PROVE j.target \in Ahead[sent[j.order][i]]
    <3>1. sent[j.order][i] \in Placed
      BY <2>1, <2>2, SentSteps
    <3>2. state[j.order] = sent[j.order][i] \/ state[j.order] \in Ahead[sent[j.order][i]]
      BY <2>1, <2>2 DEF Announcing, Reached
    <3> QED BY <2>1, <3>1, <3>2, Ladder
  <2>3. \A o \in Orders : Reached(o)'
    BY <2>1, <2>2 DEF Announcing, Reached
  <2>4. ASSUME NEW k \in Jobs, jobPc'[k] = "push"
        PROVE  \A i \in 1 .. Len(sent'[k.order]) : k.target \in Ahead[sent'[k.order][i]]
    BY <2>1, <2>2, <2>4 DEF Announcing
  <2> QED BY <2>3, <2>4 DEF Announcing
<1>4. ASSUME NEW j \in Jobs, SendPush(j) PROVE Announcing'
  <2>1. /\ jobPc[j] = "push" /\ j.order \in Orders /\ UNCHANGED state
        /\ sent' = [sent EXCEPT ![j.order] = Append(sent[j.order], j.target)]
        /\ state[j.order] = j.target
    BY <1>4, JobFields DEF SendPush, db, Seen
  <2>2. /\ jobPc'[j] = "none" /\ \A k \in Jobs \ {j} : jobPc'[k] = jobPc[k]
        /\ \A k \in Jobs \ {j} : jobPc[k] = "push" => k.order # j.order
    BY <2>1, <1>4, <1>t DEF SendPush, Finish, JobTypes, Chained
  <2>3. PICK s \in Seq(Steps) : s = sent[j.order]
    BY <2>1 DEF ArcTypes, ChainTypes
  <2>4. /\ \A i \in 1 .. Len(Append(s, j.target)) :
             (i \in 1 .. Len(s) /\ Append(s, j.target)[i] = s[i]) \/ Append(s, j.target)[i] = j.target
    BY <2>3, JobFields
  <2>5. sent'[j.order] = Append(s, j.target) /\ \A o \in Orders \ {j.order} : sent'[o] = sent[o]
    BY <2>1, <2>3 DEF ArcTypes, ChainTypes
  <2>6. \A o \in Orders : Reached(o)'
    <3>1. \A o \in Orders \ {j.order} : Reached(o)'
      BY <2>1, <2>5 DEF Announcing, Reached
    <3>2. \A i \in 1 .. Len(sent'[j.order]) :
            state'[j.order] = sent'[j.order][i] \/ state'[j.order] \in Ahead[sent'[j.order][i]]
      BY <2>1, <2>3, <2>4, <2>5 DEF Announcing, Reached
    <3> QED BY <3>1, <3>2 DEF Reached
  <2>7. ASSUME NEW k \in Jobs, jobPc'[k] = "push"
        PROVE  \A i \in 1 .. Len(sent'[k.order]) : k.target \in Ahead[sent'[k.order][i]]
    BY <2>2, <2>5, <2>7, JobFields, SMTT(30) DEF Announcing
  <2> QED BY <2>6, <2>7 DEF Announcing
<1>5. ASSUME NEW j \in Jobs, TimerFires(j) \/ ReadOrder(j) \/ JobFails(j) PROVE Announcing'
  <2>1. /\ UNCHANGED <<state, sent>> /\ \E pc \in {"none", "queued", "cas"} : jobPc' = [jobPc EXCEPT ![j] = pc]
    BY <1>5 DEF TimerFires, ReadOrder, JobFails, Finish, db
  <2> QED BY <2>1, <1>t, AnnouncingStays DEF JobTypes
<1>6. CASE Restart
  BY <1>6, AnnouncingStays DEF Restart, db
<1>7. ASSUME NEW o \in Orders, ArmLadder(o) \/ ResumeOrder(o) PROVE Announcing'
  BY <1>7, <1>2, ArmingShapes DEF ArmLadder, ResumeOrder
<1>8. ASSUME NEW r \in Rushers, ArmRush(r) PROVE Announcing'
  BY <1>8, <1>2, RushingShapes DEF ArmRush
<1> QED BY <1>1, <1>3, <1>4, <1>5, <1>6, <1>7, <1>8, NextShapes DEF JobStep

LEMMA NextPushes ==
  ASSUME ArcTypes, Chained, ArmedOnce, Announcing, PushesClimb, Next
  PROVE  PushesClimb'
<1>1. ASSUME UNCHANGED sent PROVE PushesClimb'
  BY <1>1 DEF PushesClimb
<1>2. ASSUME NEW j \in Jobs, SendPush(j) PROVE PushesClimb'
  <2>1. /\ jobPc[j] = "push" /\ j.order \in Orders
        /\ sent' = [sent EXCEPT ![j.order] = Append(sent[j.order], j.target)]
    BY <1>2, JobFields DEF SendPush
  <2>2. PICK s \in Seq(Steps) : s = sent[j.order]
    BY <2>1 DEF ArcTypes, ChainTypes
  <2>3. sent'[j.order] = Append(s, j.target) /\ \A o \in Orders \ {j.order} : sent'[o] = sent[o]
    BY <2>1, <2>2 DEF ArcTypes, ChainTypes
  <2>4. \A i \in 1 .. Len(s) : j.target \in Ahead[s[i]]
    BY <2>1, <2>2 DEF Announcing
  <2>5. ASSUME NEW i \in 1 .. Len(Append(s, j.target)), NEW k \in 1 .. (i - 1)
        PROVE  Append(s, j.target)[i] \in Ahead[Append(s, j.target)[k]]
    <3>1. k \in 1 .. Len(s) /\ Append(s, j.target)[k] = s[k]
      BY <2>2, JobFields
    <3>2. CASE i \in 1 .. Len(s)
      <4>1. Append(s, j.target)[i] = s[i]
        BY <2>2, <3>2, JobFields
      <4> QED BY <3>1, <3>2, <4>1, <2>1, <2>2 DEF PushesClimb
    <3>3. CASE i = Len(s) + 1
      <4>1. Append(s, j.target)[i] = j.target
        BY <2>2, <3>3, JobFields
      <4> QED BY <3>1, <4>1, <2>4
    <3> QED BY <3>2, <3>3, <2>2
  <2> QED BY <2>3, <2>5 DEF PushesClimb
<1>3. ASSUME NEW j \in Jobs, TimerFires(j) \/ ReadOrder(j) \/ UpdateOrderState(j) \/ JobFails(j) PROVE UNCHANGED sent
  BY <1>3 DEF TimerFires, ReadOrder, UpdateOrderState, JobFails
<1>4. Aside => UNCHANGED sent
  BY AsideShapes
<1>5. ASSUME NEW o \in Orders, ArmLadder(o) \/ ResumeOrder(o) PROVE UNCHANGED sent
  BY <1>5 DEF ArmLadder, ResumeOrder
<1>6. ASSUME NEW r \in Rushers, ArmRush(r) PROVE UNCHANGED sent
  BY <1>6 DEF ArmRush
<1>7. Restart => UNCHANGED sent
  BY DEF Restart
<1> QED BY <1>1, <1>2, <1>3, <1>4, <1>5, <1>6, <1>7, NextShapes DEF JobStep

(***************************************************************************)
(* Rushes.                                                                 *)
(***************************************************************************)
LEMMA Rungs ==
  /\ \A s \in Placed : Rung[s] \in 0 .. 4
  /\ \A s \in Placed : \A t \in Ahead[s] : Rung[s] + 1 <= Rung[t]
  /\ \A s \in InTransit : Rung[s] <= 3
BY DEF Placed, Steps, InTransit, Rung, Ahead

\* An order that moves on, and rushes that do not.
LEMMA PlansFollow ==
  ASSUME ArcTypes, Plans, ArmedOnce, UNCHANGED <<rush, tier, placedAt, eta>>, NEW o \in Orders,
         state[o] \in Placed, state'[o] \in Ahead[state[o]], \A p \in Orders \ {o} : state'[p] = state[p]
  PROVE  Plans'
<1> SUFFICES ASSUME NEW r \in Rushers PROVE Planned(rush[r])'
  BY DEF Plans
<1>1. Planned(rush[r]) /\ rush'[r] = rush[r] /\ rush[r].attempt \in Nat
  BY DEF Plans, ArcTypes, RushTypes, Requests
<1>2. PICK x : x = rush[r]
  OBVIOUS
<1>3. Ahead[state[o]] \subseteq Placed /\ Rung[state[o]] \in Nat /\ Rung[state'[o]] \in Nat /\ Rung[state[o]] <= Rung[state'[o]]
  <2>1. Ahead[state[o]] \subseteq Placed /\ state'[o] \in Placed
    BY Ladder DEF Placed
  <2> QED BY <2>1, Rungs
<1>4. CASE x.order # o
  <2>1. x.pc \in {"read", "tx"} => x.order \in Orders
    BY <1>2 DEF ArmedOnce
  <2> QED BY <1>1, <1>2, <1>4, <2>1 DEF Planned
<1>5. CASE x.order = o
  <2>1. x.from \in InTransit => Ahead[x.from] \subseteq Steps /\ \A s \in Ahead[x.from] : Ahead[s] \subseteq Ahead[x.from]
    BY Ladder
  <2>2. x.pc = "tx" => state'[o] \in Ahead[x.from]
    BY <1>1, <1>2, <1>5, <2>1 DEF Planned
  <2>3. x.pc = "read" => tier[o] = Express \/ x.attempt <= Rung[state'[o]]
    BY <1>1, <1>2, <1>3, <1>5 DEF Planned
  <2> QED BY <1>1, <1>2, <1>5, <2>2, <2>3 DEF Planned
<1> QED BY <1>4, <1>5

\* Rushes that find their order as it was
LEMMA PlansStay ==
  ASSUME ArcTypes, Plans, ArmedOnce, NEW r \in Rushers, rush'[r] = rush[r],
         \A o \in Orders : state[o] # None =>
           /\ state'[o] = state[o]
           /\ \/ tier'[o] = Express
              \/ tier'[o] = tier[o] /\ placedAt'[o] = placedAt[o] /\ eta'[o] = eta[o]
  PROVE  Planned(rush[r])'
<1>1. Planned(rush[r]) /\ (rush[r].pc \in {"read", "tx"} => rush[r].order \in Orders /\ state[rush[r].order] # None)
  BY DEF Plans, ArmedOnce
<1>2. PICK x : x = rush[r]
  OBVIOUS
<1> QED BY <1>1, <1>2 DEF Planned

LEMMA AnsweredPlans ==
  ASSUME ArcTypes, NEW r \in Rushers, NEW a, a # "ORDER_CHANGED", Answer(r, a)
  PROVE  Planned(rush[r])'
BY AnsweredOne DEF ArcTypes, Planned

LEMMA AsidePlans ==
  ASSUME ArcTypes, Plans, ArmedOnce, Aside
  PROVE  Plans'
<1>t. RushTypes
  BY DEF ArcTypes
<1>0. ASSUME NEW r \in Rushers, UNCHANGED <<state, tier, placedAt, eta>>,
             \A q \in Rushers \ {r} : rush'[q] = rush[q], Planned(rush[r])'
      PROVE  Plans'
  BY <1>0, PlansStay DEF Plans
<1>1. CASE Tick \/ ResumeFails
  BY <1>1, PlansStay DEF Tick, ResumeFails, db, memory, Plans
<1>2. ASSUME NEW o \in Orders, NEW t \in Tiers, PlaceOrder(o, t) PROVE Plans'
  <2>1. /\ state[o] = None /\ UNCHANGED rush
        /\ \A p \in Orders \ {o} : state'[p] = state[p] /\ tier'[p] = tier[p] /\ eta'[p] = eta[p] /\ placedAt'[p] = placedAt[p]
    BY <1>2, PlacesNoJobs
  <2> QED BY <2>1, PlansStay DEF Plans
<1>3. ASSUME NEW o \in Orders, ArmLadderFails(o) PROVE Plans'
  BY <1>3, PlansStay DEF ArmLadderFails, db, Plans
<1>4. ASSUME NEW r \in Rushers, NEW o \in Orders, StartRush(r, o) PROVE Plans'
  <2>1. /\ rush'[r].pc = "read" /\ rush'[r].order = o /\ rush'[r].attempt = 0 /\ rush'[r].answer # "ORDER_CHANGED"
        /\ \A q \in Rushers \ {r} : rush'[q] = rush[q]
        /\ UNCHANGED <<state, tier, placedAt, eta>> /\ state[o] \in Placed
    BY <1>4 DEF StartRush, ArcTypes, RushTypes, Requests, Plans, Planned, DbTypes, db
  <2>2. Planned(rush[r])'
    BY <2>1, Rungs DEF Planned
  <2> QED BY <2>1, <2>2, <1>0
<1>5. ASSUME NEW r \in Rushers, PlanRush(r) PROVE Plans'
  <2> DEFINE o == rush[r].order
  <2>1. /\ UNCHANGED <<state, tier, placedAt, eta>> /\ rush[r].pc = "read" /\ o \in Orders
        /\ rush[r].answer # "ORDER_CHANGED" /\ (tier[o] = Express \/ rush[r].attempt <= Rung[state[o]])
    BY <1>5 DEF PlanRush, db, ArmedOnce, Plans, Planned
  <2>2. CASE \E a \in {"ALREADY_EXPRESS", "NOT_IN_TRANSIT", "NO_SPEEDUP"} : Answer(r, a)
    BY <2>1, <2>2, <1>0, <1>t, AnsweredOne, AnsweredPlans
  <2>3. CASE ~\E a \in {"ALREADY_EXPRESS", "NOT_IN_TRANSIT", "NO_SPEEDUP"} : Answer(r, a)
    <3>1. /\ tier[o] # Express /\ state[o] \in InTransit
          /\ rush' = [rush EXCEPT ![r].pc = "tx", ![r].from = state[o],
                                  ![r].plan = RushedEta(state[o], placedAt[o], eta[o])]
      BY <1>5, <2>3 DEF PlanRush
    <3>2. PICK p : p = RushedEta(state[o], placedAt[o], eta[o])
      OBVIOUS
    <3>3. /\ rush'[r].pc = "tx" /\ rush'[r].order = o /\ rush'[r].from = state[o] /\ rush'[r].plan = p
          /\ rush'[r].attempt = rush[r].attempt /\ rush'[r].answer = rush[r].answer
          /\ \A q \in Rushers \ {r} : rush'[q] = rush[q]
      BY <3>1, <3>2, <1>t DEF RushTypes, Requests
    <3>4. Planned(rush[r])'
      BY <2>1, <3>1, <3>2, <3>3 DEF Planned
    <3> QED BY <2>1, <3>3, <3>4, <1>0
  <2> QED BY <2>2, <2>3
<1>6. ASSUME NEW r \in Rushers, CommitRush(r), ~OrderChanged(r), CanPay(RushCost) PROVE Plans'
  <2>1. PICK o \in Orders :
          /\ tier' = [tier EXCEPT ![o] = Express]
          /\ \A p \in Orders \ {o} : eta'[p] = eta[p] /\ tier'[p] = tier[p]
          /\ UNCHANGED <<state, placedAt>>
          /\ rush'[r].pc = "arm" /\ \A q \in Rushers \ {r} : rush'[q] = rush[q]
    BY <1>6, CommitsPlan
  <2>2. tier'[o] = Express
    BY <2>1 DEF ArcTypes, DbTypes
  <2>3. rush'[r].answer = rush[r].answer
    BY <1>6, <1>t DEF CommitRush, RushTypes, Requests
  <2>4. Planned(rush[r])'
    BY <2>1, <2>3 DEF Plans, Planned
  <2>5. ASSUME NEW q \in Rushers \ {r} PROVE Planned(rush[q])'
    BY <2>1, <2>2, PlansStay
  <2> QED BY <2>4, <2>5 DEF Plans
<1>7. ASSUME NEW r \in Rushers, CommitRush(r), OrderChanged(r) \/ ~CanPay(RushCost) PROVE Plans'
  <2> DEFINE o == rush[r].order
  <2>1. UNCHANGED <<state, tier, placedAt, eta>>
    BY <1>7 DEF CommitRush
  <2>2. CASE Answer(r, "INSUFFICIENT_COINS")
    BY <2>1, <2>2, <1>0, <1>t, AnsweredOne, AnsweredPlans
  <2>3. CASE ~Answer(r, "INSUFFICIENT_COINS")
    <3>1. /\ OrderChanged(r) /\ RetryRush(r) /\ o \in Orders
          /\ rush[r].from \in InTransit /\ rush[r].attempt <= Rung[rush[r].from] /\ rush[r].attempt \in Nat
          /\ state[o] = rush[r].from \/ state[o] \in Ahead[rush[r].from]
          /\ rush[r].answer # "ORDER_CHANGED"
      BY <1>7, <2>3, <1>t DEF CommitRush, ArmedOnce, Plans, Planned, RushTypes, Requests
    <3>2. /\ rush[r].from \in Placed /\ Rung[rush[r].from] \in 0 .. 3
      BY <3>1, Rungs, Ladder
    <3>3. rush' = [rush EXCEPT ![r].pc = "read", ![r].attempt = rush[r].attempt + 1]
      BY <3>1, <3>2 DEF RetryRush, MaxAttempts
    <3>4. /\ rush'[r].pc = "read" /\ rush'[r].order = o /\ rush'[r].attempt = rush[r].attempt + 1
          /\ rush'[r].answer = rush[r].answer
          /\ \A q \in Rushers \ {r} : rush'[q] = rush[q]
      BY <3>3, <1>t DEF RushTypes, Requests
    <3>5. tier[o] = Express \/ rush[r].attempt + 1 <= Rung[state[o]]
      <4>1. CASE state[o] = rush[r].from
        BY <4>1, <3>1 DEF OrderChanged
      <4>2. CASE state[o] \in Ahead[rush[r].from]
        <5>1. Rung[rush[r].from] + 1 <= Rung[state[o]] /\ state[o] \in Placed
          BY <4>2, <3>2, Rungs, Ladder DEF Placed
        <5>2. Rung[state[o]] \in 0 .. 4
          BY <5>1, Rungs
        <5> QED BY <5>1, <5>2, <3>1, <3>2
      <4> QED BY <4>1, <4>2, <3>1
    <3>6. Planned(rush[r])'
      BY <2>1, <3>1, <3>4, <3>5 DEF Planned
    <3> QED BY <2>1, <3>4, <3>6, <1>0
  <2> QED BY <2>2, <2>3
<1>8. ASSUME NEW r \in Rushers, RushFails(r) PROVE Plans'
  <2>1. Answer(r, "ERROR") /\ UNCHANGED <<state, tier, placedAt, eta>>
    BY <1>8 DEF RushFails, db
  <2> QED BY <2>1, <1>0, <1>t, AnsweredOne, AnsweredPlans
<1> QED BY <1>1, <1>2, <1>3, <1>4, <1>5, <1>6, <1>7, <1>8 DEF Aside

LEMMA NextPlans ==
  ASSUME ArcTypes, Chained, ArmedOnce, Seen, Plans, Next
  PROVE  Plans'
<1>1. ASSUME NEW o \in Orders, ArmLadder(o) \/ ResumeOrder(o) PROVE Plans'
  BY <1>1, PlansStay DEF ArmLadder, ResumeOrder, db, Plans
<1>2. ASSUME NEW r \in Rushers, ArmRush(r) PROVE Plans'
  <2>1. Answer(r, "RUSHED") /\ UNCHANGED <<state, tier, placedAt, eta>>
    BY <1>2 DEF ArmRush, db
  <2>2. Planned(rush[r])' /\ \A q \in Rushers \ {r} : rush'[q] = rush[q]
    BY <2>1, AnsweredOne, AnsweredPlans DEF ArcTypes
  <2> QED BY <2>1, <2>2, PlansStay DEF Plans
<1>3. ASSUME NEW j \in Jobs, UpdateOrderState(j) PROVE Plans'
  <2>1. state[j.order] \in Placed
    BY <1>3, Moving, Ladder
  <2> QED BY <2>1, <1>3, Moving, PlansFollow
<1>4. ASSUME NEW j \in Jobs, TimerFires(j) \/ ReadOrder(j) \/ SendPush(j) \/ JobFails(j) PROVE Plans'
  BY <1>4, PlansStay DEF TimerFires, ReadOrder, SendPush, JobFails, db, Plans
<1>5. CASE Restart
  <2>1. UNCHANGED <<state, tier, placedAt, eta>>
    BY <1>5 DEF Restart, db
  <2>2. ASSUME NEW r \in Rushers PROVE rush'[r] = rush[r] \/ rush'[r] = Answered("ERROR")
    BY <1>5 DEF Restart
  <2>3. Answered("ERROR").pc = "done" /\ Answered("ERROR").answer = "ERROR"
    BY DEF Answered, Idle
  <2>4. ASSUME NEW r \in Rushers PROVE Planned(rush[r])'
    <3>1. CASE rush'[r] = rush[r]
      BY <3>1, <2>1, PlansStay
    <3>2. CASE rush'[r] = Answered("ERROR")
      BY <3>2, <2>3 DEF Planned
    <3> QED BY <3>1, <3>2, <2>2
  <2> QED BY <2>4 DEF Plans
<1> QED BY <1>1, <1>2, <1>3, <1>4, <1>5, AsidePlans, NextShapes DEF JobStep

(***************************************************************************)
(* The invariant, but for Coverage, and what follows from it.              *)
(***************************************************************************)
OrderInv == ArcTypes /\ Chained /\ ArmedOnce /\ Due /\ Seen /\ Announcing /\ Plans

LEMMA InitOrder == Init => OrderInv /\ PushesClimb
<1> SUFFICES ASSUME Init PROVE OrderInv /\ PushesClimb
  OBVIOUS
<1>1. NoPlan \in [Steps -> Nat] /\ Idle \in Requests /\ Express \in Tiers
  BY IdleFits, TierAssumption
<1>2. <<>> \in Seq(Jobs) /\ <<>> \in Seq(Steps)
  OBVIOUS
<1>3. DbTypes
  BY <1>1, ArcAssumption DEF Init, DbTypes
<1>4. SetTypes /\ JobTypes /\ ChainTypes /\ RushTypes
  BY <1>1, <1>2 DEF Init, SetTypes, JobTypes, ChainTypes, RushTypes
<1>5. Chained
  BY JobFields DEF Init, Chained
<1>6. ArmedOnce
  BY DEF Init, ArmedOnce, Unarmed, RushArming, JobsOf, Idle
<1>7. Due /\ Seen
  BY DEF Init, Due, Seen
<1>8. Announcing /\ PushesClimb
  BY JobFields DEF Init, Announcing, Reached, PushesClimb
<1>9. Plans
  BY DEF Init, Plans, Planned, Idle, None
<1> QED BY <1>3, <1>4, <1>5, <1>6, <1>7, <1>8, <1>9 DEF OrderInv, ArcTypes

LEMMA NextOrder == OrderInv /\ PushesClimb /\ [Next]_vars => (OrderInv /\ PushesClimb)'
<1>1. ASSUME OrderInv, PushesClimb, Next PROVE (OrderInv /\ PushesClimb)'
  BY <1>1, NextDbTypes, NextSetTypes, NextJobTypes, NextRushTypes, NextChained, NextArmedOnce,
     NextDue, NextSeen, NextAnnouncing, NextPlans, NextPushes DEF OrderInv, ArcTypes
<1>2. ASSUME OrderInv, PushesClimb, UNCHANGED vars PROVE (OrderInv /\ PushesClimb)'
  BY <1>2 DEF vars, db, memory, bounds, OrderInv, PushesClimb, ArcTypes, DbTypes, SetTypes, JobTypes, ChainTypes,
     RushTypes, Chained, ArmedOnce, Unarmed, RushArming, Due, Seen, Announcing, Reached, Plans, Planned
<1> QED BY <1>1, <1>2

LEMMA OrderInvHolds == Spec => [](OrderInv /\ PushesClimb)
BY InitOrder, NextOrder, PTL DEF Spec

\* The lifecycle speaks of states, times and plans in the same words.
LEMMA SameWords ==
  /\ Lifecycle!None = None /\ Lifecycle!InTransit = InTransit /\ Lifecycle!NextState = NextState
  /\ \A p, t : Lifecycle!BuildStateEta(p, t) = BuildStateEta(p, t)
  /\ \A s, p, e : Lifecycle!RushedEta(s, p, e) = RushedEta(s, p, e)
BY DEF None, InTransit, NextState, BuildStateEta, RushedEta, Sooner, Ahead, Steps,
       Lifecycle!None, Lifecycle!InTransit, Lifecycle!NextState, Lifecycle!BuildStateEta, Lifecycle!RushedEta,
       Lifecycle!Sooner, Lifecycle!Ahead, Lifecycle!Steps

\* A step of the order is one the lifecycle allows, or changes nothing the lifecycle speaks of.
LEMMA StepImplements ==
  ASSUME OrderInv, Next
  PROVE  Lifecycle!Next \/ UNCHANGED Lifecycle!vars
<1>i. ArcTypes /\ Chained /\ ArmedOnce /\ Due /\ Seen /\ Plans
  BY DEF OrderInv
<1>0. UNCHANGED <<now, db>> => UNCHANGED Lifecycle!vars
  BY DEF db, Lifecycle!vars
<1>1. CASE Aside
  <2>1. ASSUME NEW o \in Orders, NEW t \in Tiers, PlaceOrder(o, t) PROVE Lifecycle!Place(o, t)
    BY <2>1, SameWords DEF PlaceOrder, Lifecycle!Place
  <2>2. ASSUME NEW r \in Rushers, CommitRush(r), ~OrderChanged(r), CanPay(RushCost)
        PROVE  \E o \in Orders : Lifecycle!Rush(o)
    <3>1. PICK o : o = rush[r].order
      OBVIOUS
    <3>2. o \in Orders /\ Lifecycle!Rush(o)
      BY <3>1, <2>2, <1>i, CommitsPlan, SameWords DEF Lifecycle!Rush
    <3> QED BY <3>2
  <2>3. CASE Tick
    BY <2>3 DEF Tick, db, Lifecycle!Tick, Lifecycle!Next
  <2>4. CASE UNCHANGED db /\ now' = now
    BY <2>4, <1>0
  <2> QED BY <1>1, <2>1, <2>2, <2>3, <2>4, AsideDb DEF Lifecycle!Next
<1>2. ASSUME NEW o \in Orders, ArmLadder(o) \/ ResumeOrder(o) PROVE UNCHANGED Lifecycle!vars
  BY <1>2, <1>0 DEF ArmLadder, ResumeOrder
<1>3. ASSUME NEW r \in Rushers, ArmRush(r) PROVE UNCHANGED Lifecycle!vars
  BY <1>3, <1>0 DEF ArmRush
<1>4. ASSUME NEW j \in Jobs, UpdateOrderState(j) PROVE Lifecycle!Advance(j.order)
  <2>1. PICK o \in Orders : o = j.order
    BY JobFields
  <2>2. /\ state[o] \in InTransit /\ j.target = NextState[state[o]] /\ jobPc[j] = "cas"
        /\ state' = [state EXCEPT ![o] = j.target] /\ UNCHANGED <<now, tier, placedAt, eta, balance>>
    BY <2>1, <1>4, <1>i, Moving
  <2>3. eta[o][j.target] <= jobDue[j] /\ jobDue[j] <= now
    BY <2>1, <2>2, <1>i DEF Due
  <2>4. eta[o][j.target] \in Nat /\ jobDue[j] \in Nat /\ now \in Nat
    BY <1>i, JobFields DEF ArcTypes, DbTypes, JobTypes
  <2>5. eta[o][NextState[state[o]]] <= now
    BY <2>2, <2>3, <2>4
  <2>6. state' = [state EXCEPT ![o] = NextState[state[o]]]
    BY <2>2
  <2> QED BY <2>1, <2>2, <2>5, <2>6, SameWords DEF Lifecycle!Advance
<1>5. ASSUME NEW j \in Jobs, TimerFires(j) \/ ReadOrder(j) \/ SendPush(j) \/ JobFails(j) PROVE UNCHANGED Lifecycle!vars
  BY <1>5, <1>0 DEF TimerFires, ReadOrder, SendPush, JobFails
<1>6. CASE Restart
  BY <1>6, <1>0 DEF Restart
<1> QED BY <1>1, <1>2, <1>3, <1>4, <1>5, <1>6, NextShapes, JobFields DEF JobStep, Lifecycle!Next

(***************************************************************************)
(* The jobs that cover an order.                                           *)
(***************************************************************************)
LEMMA ArmedJobs ==
  ASSUME NEW o \in Orders, NEW by \in {"ladder", "rush"}, NEW j \in Armed(o, by)
  PROVE  j \in Jobs /\ j.order = o /\ j.by = by /\ j.target \in Ahead[state[o]] /\ j.target \in Steps
BY JobFields DEF Armed, JobsOf

LEMMA CoverKeeps ==
  ASSUME ArcTypes, now' \in Nat, NEW o \in Orders, NEW by \in {"ladder", "rush"}, Covered(o, by),
         Ahead[state'[o]] \subseteq Ahead[state[o]],
         \A j \in Jobs : j \in Armed(o, by)' =>
           jobPc'[j] \in {"armed", "queued", "cas"} /\ jobDue'[j] = jobDue[j],
         \A j, k \in Jobs : j \in Armed(o, by)' /\ k \in Armed(o, by)' /\ k.target \in Ahead[j.target] /\ jobPc'[k] # "armed" =>
           Precedes(j, k)',
         RushArming(o)' \/ (~RushArming(o) /\ eta'[o] = eta[o] /\ now <= now')
  PROVE  Covered(o, by)'
<1>1. ASSUME NEW j \in Jobs, j \in Armed(o, by)' PROVE j \in Armed(o, by)
  BY <1>1 DEF Armed
<1>2. Armed(o, by)' \subseteq Jobs
  BY DEF Armed, JobsOf
<1>3. Full(o, by)'
  <2>1. \A j \in Armed(o, by)' : jobPc'[j] \in {"armed", "queued", "cas"}
    BY <1>2
  <2>2. ASSUME NEW j \in Armed(o, by)', NEW k \in Armed(o, by)', k.target \in Ahead[j.target]
        PROVE  InLadderOrder(j, k)'
    <3>1. jobDue[j] <= jobDue[k] /\ jobDue'[j] = jobDue[j] /\ jobDue'[k] = jobDue[k]
      BY <1>1, <1>2, <2>2 DEF Covered, Full, InLadderOrder
    <3>2. jobPc'[k] # "armed" => Precedes(j, k)'
      BY <1>2, <2>2
    <3> QED BY <3>1, <3>2 DEF InLadderOrder
  <2> QED BY <2>1, <2>2 DEF Full
<1>4. CASE RushArming(o)'
  BY <1>3, <1>4 DEF Covered
<1>5. CASE ~RushArming(o) /\ eta'[o] = eta[o] /\ now <= now'
  <2>1. ASSUME NEW j \in Armed(o, by)' PROVE jobDue'[j] <= Later(eta'[o][j.target], now')
    <3>1. /\ j \in Jobs /\ jobDue'[j] = jobDue[j] /\ j \in Armed(o, by) /\ jobDue[j] \in Nat
          /\ eta[o][j.target] \in Nat /\ now \in Nat
      BY <1>1, <1>2, JobFields DEF ArcTypes, DbTypes, JobTypes
    <3>2. jobDue[j] <= Later(eta[o][j.target], now)
      BY <1>5, <3>1 DEF Covered, Timely
    <3> QED BY <3>1, <3>2, <1>5 DEF Later
  <2> QED BY <1>3, <2>1 DEF Covered, Timely
<1> QED BY <1>4, <1>5

\* Orders a step has nothing to do with
LEMMA CoverStays ==
  ASSUME ArcTypes, now' \in Nat, now <= now', NEW o \in Orders, NEW by \in {"ladder", "rush"}, Covered(o, by),
         state'[o] = state[o], chain'[o] = chain[o],
         \A j \in Jobs : j.order = o /\ jobPc[j] # "none" => jobPc'[j] = jobPc[j] /\ jobDue'[j] = jobDue[j],
         RushArming(o)' \/ (~RushArming(o) /\ eta'[o] = eta[o])
  PROVE  Covered(o, by)'
<1>1. Armed(o, by)' = Armed(o, by)
  BY DEF Armed
<1>2. ASSUME NEW j \in Armed(o, by)
      PROVE  jobPc[j] \in {"armed", "queued", "cas"} /\ jobPc'[j] = jobPc[j] /\ jobDue'[j] = jobDue[j] /\ j.order = o
  BY ArmedJobs DEF Covered, Full
<1>3. ASSUME NEW j \in Armed(o, by), NEW k \in Armed(o, by), k.target \in Ahead[j.target], jobPc'[k] # "armed"
      PROVE  Precedes(j, k)'
  BY <1>2, <1>3 DEF Covered, Full, InLadderOrder, Precedes
<1> QED BY <1>1, <1>2, <1>3, CoverKeeps

LEMMA FreshCover ==
  ASSUME ArcTypes, NEW o \in Orders, NEW by \in {"ladder", "rush"}, Arms(o, by), EtasClimb(o), UNCHANGED <<now, state, eta>>
  PROVE  Covered(o, by)'
<1>1. Armed(o, by)' = Armed(o, by)
  BY DEF Armed
<1>2. ASSUME NEW j \in Armed(o, by) PROVE jobPc'[j] = "armed" /\ jobDue'[j] = Later(eta[o][j.target], now)
  BY Arming DEF ArcTypes
<1>3. ASSUME NEW j \in Armed(o, by), NEW k \in Armed(o, by), k.target \in Ahead[j.target] PROVE InLadderOrder(j, k)'
  <2>1. eta[o][j.target] <= eta[o][k.target]
    BY <1>3, ArmedJobs DEF EtasClimb
  <2>2. eta[o][j.target] \in Nat /\ eta[o][k.target] \in Nat /\ now \in Nat
    BY ArmedJobs DEF ArcTypes, DbTypes
  <2>3. Later(eta[o][j.target], now) <= Later(eta[o][k.target], now)
    BY <2>1, <2>2 DEF Later
  <2> QED BY <1>2, <2>3 DEF InLadderOrder
<1>4. ASSUME NEW j \in Armed(o, by) PROVE jobDue'[j] <= Later(eta'[o][j.target], now')
  <2>1. Later(eta[o][j.target], now) \in Nat
    BY ArmedJobs DEF ArcTypes, DbTypes, Later
  <2> QED BY <1>2, <2>1
<1> QED BY <1>1, <1>2, <1>3, <1>4 DEF Covered, Full, Timely

LEMMA SameEtas ==
  ASSUME NEW o \in Orders, EtasClimb(o), state'[o] = state[o], eta'[o] = eta[o]
  PROVE  EtasClimb(o)'
BY DEF EtasClimb

LEMMA AsideCoverage ==
  ASSUME ArcTypes, ArmedOnce, Plans, Coverage, Aside
  PROVE  Coverage'
<1>t. UNCHANGED <<jobPc, jobDue, chain>> /\ RushTypes /\ now \in Nat
  BY AsideShapes DEF ArcTypes, DbTypes
<1>0. ASSUME now' \in Nat, now <= now',
             \A o \in Orders : state'[o] # None => EtasClimb(o)',
             \A o \in Orders : state'[o] \in InTransit /\ o \notin lost' \cup arming' \cup todo' =>
               /\ state'[o] = state[o] /\ o \notin lost \cup arming \cup todo
               /\ RushArming(o)' \/ (~RushArming(o) /\ eta'[o] = eta[o])
      PROVE  Coverage'
  <2>1. ASSUME NEW o \in Orders, state'[o] \in InTransit /\ o \notin lost' \cup arming' \cup todo'
        PROVE  \E by \in {"ladder", "rush"} : Covered(o, by)'
    <3>1. PICK by \in {"ladder", "rush"} : Covered(o, by)
      BY <1>0, <2>1 DEF Coverage
    <3>2. Covered(o, by)'
      BY <1>0, <1>t, <2>1, <3>1, CoverStays
    <3> QED BY <3>2
  <2> QED BY <1>0, <2>1 DEF Coverage
<1>1. ASSUME now' \in Nat, now <= now', UNCHANGED <<state, eta, arming>>,
             \A o \in Orders : o \in lost \cup todo => o \in lost' \cup todo',
             \A o \in Orders : RushArming(o) => RushArming(o)' \/ o \in lost'
      PROVE  Coverage'
  <2>1. ASSUME NEW o \in Orders, state'[o] # None PROVE EtasClimb(o)'
    BY <1>1, <2>1, SameEtas DEF Coverage
  <2> QED BY <1>0, <1>1, <2>1
<1>2. CASE Tick
  <2>1. now' = now + 1 /\ UNCHANGED <<state, eta, arming, lost, todo, rush>>
    BY <1>2 DEF Tick, db, memory
  <2> QED BY <1>1, <1>t, <2>1 DEF RushArming
<1>3. CASE ResumeFails
  BY <1>1, <1>3, <1>t DEF ResumeFails, db, RushArming
<1>4. ASSUME NEW o \in Orders, NEW t \in Tiers, PlaceOrder(o, t) PROVE Coverage'
  <2>1. /\ state'[o] = "PROCESSING" /\ eta'[o] = BuildStateEta(now, t) /\ arming' = arming \cup {o}
        /\ \A p \in Orders \ {o} : state'[p] = state[p] /\ eta'[p] = eta[p]
        /\ UNCHANGED <<now, rush, todo, lost>>
    BY <1>4, PlacesNoJobs
  <2>2. EtasClimb(o)'
    <3>1. \A s, u \in Steps : u \in Ahead[s] => Timing[t][s] <= Timing[t][u] /\ Timing[t][s] \in Nat /\ Timing[t][u] \in Nat
      BY TierAssumption DEF Steps, Ahead
    <3>2. Ahead["PROCESSING"] \subseteq Steps
      BY DEF Ahead
    <3>3. \A s \in Steps : eta'[o][s] = now + Timing[t][s]
      BY <2>1 DEF BuildStateEta
    <3> QED BY <2>1, <3>1, <3>2, <3>3, <1>t DEF EtasClimb
  <2>3. ASSUME NEW p \in Orders \ {o}, state'[p] # None PROVE EtasClimb(p)'
    BY <2>1, <2>3, SameEtas DEF Coverage
  <2>4. \A p \in Orders : RushArming(p)' <=> RushArming(p)
    BY <2>1 DEF RushArming
  <2> QED BY <1>0, <1>t, <2>1, <2>2, <2>3, <2>4
<1>5. ASSUME NEW o \in Orders, ArmLadderFails(o) PROVE Coverage'
  <2>1. /\ UNCHANGED <<now, state, eta, rush, todo>> /\ arming' = arming \ {o} /\ lost' = lost \cup {o}
    BY <1>5 DEF ArmLadderFails, db
  <2>2. ASSUME NEW p \in Orders, state'[p] # None PROVE EtasClimb(p)'
    BY <2>1, <2>2, SameEtas DEF Coverage
  <2>3. \A p \in Orders : RushArming(p)' <=> RushArming(p)
    BY <2>1 DEF RushArming
  <2> QED BY <1>0, <1>t, <2>1, <2>2, <2>3
<1>6. ASSUME NEW r \in Rushers, rush[r].pc # "arm", \A q \in Rushers \ {r} : rush'[q] = rush[q]
      PROVE  \A o \in Orders : RushArming(o) => RushArming(o)'
  BY <1>6 DEF RushArming
<1>7. ASSUME NEW r \in Rushers, (\E o \in Orders : StartRush(r, o)) \/ PlanRush(r) PROVE Coverage'
  <2>1. /\ UNCHANGED <<now, state, eta, todo, arming, lost>> /\ rush[r].pc # "arm"
        /\ \A q \in Rushers \ {r} : rush'[q] = rush[q]
    BY <1>7, <1>t DEF StartRush, PlanRush, Answer, RushTypes, db
  <2> QED BY <1>1, <1>6, <1>t, <2>1
<1>8. ASSUME NEW r \in Rushers, CommitRush(r), OrderChanged(r) \/ ~CanPay(RushCost) PROVE Coverage'
  <2>1. /\ UNCHANGED <<now, state, eta, todo, arming, lost>> /\ rush[r].pc # "arm"
        /\ \A q \in Rushers \ {r} : rush'[q] = rush[q]
    BY <1>8, <1>t DEF CommitRush, RetryRush, Answer, RushTypes
  <2> QED BY <1>1, <1>6, <1>t, <2>1
<1>9. ASSUME NEW r \in Rushers, CommitRush(r), ~OrderChanged(r), CanPay(RushCost) PROVE Coverage'
  <2>1. PICK o \in Orders :
          /\ state[o] \in InTransit
          /\ eta'[o] = RushedEta(state[o], placedAt[o], eta[o])
          /\ \A p \in Orders \ {o} : eta'[p] = eta[p]
          /\ UNCHANGED <<now, state, todo, arming, lost>>
          /\ rush'[r].pc = "arm" /\ rush'[r].order = o /\ \A q \in Rushers \ {r} : rush'[q] = rush[q]
    BY <1>9, CommitsPlan
  <2>2. EtasClimb(o)'
    <3>1. EtasClimb(o) /\ placedAt[o] \in Nat /\ eta[o] \in [Steps -> Nat]
      BY <2>1 DEF Coverage, ArcTypes, DbTypes, InTransit, None
    <3>2. \A t, u \in Ahead[state[o]] : u \in Ahead[t] =>
            RushedEta(state[o], placedAt[o], eta[o])[t] <= RushedEta(state[o], placedAt[o], eta[o])[u]
      BY <2>1, <3>1, RushForward DEF EtasClimb
    <3> QED BY <2>1, <3>2 DEF EtasClimb
  <2>3. ASSUME NEW p \in Orders \ {o}, state'[p] # None PROVE EtasClimb(p)'
    BY <2>1, <2>3, SameEtas DEF Coverage
  <2>4. RushArming(o)'
    BY <2>1 DEF RushArming
  <2>5. rush[r].pc # "arm"
    BY <1>9 DEF CommitRush
  <2>6. \A p \in Orders \ {o} : RushArming(p)' \/ (~RushArming(p) /\ eta'[p] = eta[p])
    BY <1>6, <2>1, <2>5
  <2> QED BY <1>0, <1>t, <2>1, <2>2, <2>3, <2>4, <2>6
<1>10. ASSUME NEW r \in Rushers, RushFails(r) PROVE Coverage'
  <2>1. /\ UNCHANGED <<now, state, eta, todo, arming>> /\ lost \subseteq lost'
        /\ rush[r].pc = "arm" => rush[r].order \in lost'
        /\ \A q \in Rushers \ {r} : rush'[q] = rush[q]
    BY <1>10, <1>t DEF RushFails, Answer, RushTypes, db
  <2>2. \A o \in Orders : RushArming(o) => RushArming(o)' \/ o \in lost'
    BY <2>1 DEF RushArming
  <2> QED BY <1>1, <1>t, <2>1, <2>2
<1> QED BY <1>2, <1>3, <1>4, <1>5, <1>7, <1>8, <1>9, <1>10 DEF Aside

LEMMA ArmsCoverage ==
  ASSUME ArcTypes, Coverage, NEW o \in Orders, NEW by \in {"ladder", "rush"}, Arms(o, by),
         UNCHANGED <<now, db, lost>>, arming \cup todo \subseteq arming' \cup todo' \cup {o},
         \A p \in Orders \ {o} : RushArming(p) => RushArming(p)'
  PROVE  Coverage'
<1>1. UNCHANGED <<state, eta>> /\ now \in Nat
  BY DEF db, ArcTypes, DbTypes
<1>2. ASSUME NEW p \in Orders, state'[p] # None PROVE EtasClimb(p)'
  BY <1>1, <1>2, SameEtas DEF Coverage
<1>3. ASSUME NEW p \in Orders, state'[p] \in InTransit /\ p \notin lost' \cup arming' \cup todo'
      PROVE  \E b \in {"ladder", "rush"} : Covered(p, b)'
  <2>1. CASE p = o
    <3>1. EtasClimb(o)
      BY <1>1, <1>3, <2>1 DEF Coverage, InTransit, None
    <3> QED BY <1>1, <2>1, <3>1, FreshCover
  <2>2. CASE p # o
    <3>1. PICK b \in {"ladder", "rush"} : Covered(p, b)
      BY <1>1, <1>3, <2>2 DEF Coverage
    <3>2. \A j \in Jobs : j.order = p /\ jobPc[j] # "none" => jobPc'[j] = jobPc[j] /\ jobDue'[j] = jobDue[j]
      BY Arming DEF ArcTypes
    <3>3. chain'[p] = chain[p]
      BY DEF Arms
    <3>4. Covered(p, b)'
      BY <1>1, <2>2, <3>1, <3>2, <3>3, CoverStays
    <3> QED BY <3>4
  <2> QED BY <2>1, <2>2
<1> QED BY <1>2, <1>3 DEF Coverage

\* A step of one job disturbs no other order, and its own only if it drops a job that covers it.
LEMMA JobCoverage ==
  ASSUME ArcTypes, Chained, Coverage, NEW j \in Jobs, JobStep(j) \/ JobFails(j),
         \A p \in Orders \ {j.order} : chain'[p] = chain[p], lost \subseteq lost',
         EtasClimb(j.order)',
         \A by \in {"ladder", "rush"} :
           state'[j.order] \in InTransit /\ j.order \notin lost' /\ Covered(j.order, by) => Covered(j.order, by)',
         state'[j.order] \in InTransit => state[j.order] \in InTransit,
         \A k \in Jobs \ {j} : jobDue'[k] = jobDue[k]
  PROVE  Coverage'
<1>1. /\ UNCHANGED <<now, eta, todo, arming, rush>> /\ j.order \in Orders /\ now \in Nat
      /\ \A k \in Jobs \ {j} : jobPc'[k] = jobPc[k]
      /\ \A o \in Orders \ {j.order} : state'[o] = state[o]
  BY JobsAlone, JobFields DEF ArcTypes, DbTypes
<1>2. ASSUME NEW p \in Orders, state'[p] # None PROVE EtasClimb(p)'
  BY <1>1, <1>2, SameEtas DEF Coverage
<1>3. \A p \in Orders : RushArming(p)' <=> RushArming(p)
  BY <1>1 DEF RushArming
<1>4. ASSUME NEW p \in Orders, state'[p] \in InTransit /\ p \notin lost' \cup arming' \cup todo'
      PROVE  \E b \in {"ladder", "rush"} : Covered(p, b)'
  <2>1. PICK b \in {"ladder", "rush"} : Covered(p, b)
    BY <1>1, <1>4 DEF Coverage
  <2>2. Covered(p, b)'
    BY <1>1, <1>3, <1>4, <2>1, CoverStays
  <2> QED BY <2>2
<1> QED BY <1>2, <1>4 DEF Coverage

\* A timer does not fire before those of the same arming for the steps before.
LEMMA FiresCoverage ==
  ASSUME ArcTypes, Chained, ArmedOnce, Coverage, NEW j \in Jobs, TimerFires(j)
  PROVE  Coverage'
<1>t. JobTypes /\ ChainTypes
  BY DEF ArcTypes
<1> DEFINE o == j.order
<1>1. /\ UNCHANGED <<now, state, eta, lost, rush, jobDue>> /\ o \in Orders
      /\ now \in Nat /\ state[o] # None
  BY JobFields, JobsOrder DEF TimerFires, db, ArcTypes, DbTypes
<1>2. EtasClimb(o)'
  BY <1>1, SameEtas DEF Coverage
<1>3. ASSUME NEW by \in {"ladder", "rush"}, Covered(o, by) PROVE Covered(o, by)'
  <2>1. Armed(o, by)' = Armed(o, by) /\ (RushArming(o)' <=> RushArming(o))
    BY <1>1 DEF Armed, RushArming
  <2>2. ASSUME NEW k \in Armed(o, by) PROVE jobPc'[k] \in {"armed", "queued", "cas"}
    BY <1>3, <1>t, ArmedJobs, Firing, <1>1 DEF Covered, Full
  <2>3. ASSUME NEW i \in Armed(o, by), NEW k \in Armed(o, by), k.target \in Ahead[i.target], jobPc'[k] # "armed"
        PROVE  Precedes(i, k)'
    <3>1. i \in Jobs /\ k \in Jobs /\ i.order = o /\ k.order = o /\ i.by = k.by
      BY <1>1, ArmedJobs
    <3>2. jobDue[i] <= jobDue[k] /\ (jobPc[k] # "armed" => Precedes(i, k)) /\ jobPc[i] \in {"armed", "queued", "cas"}
      BY <1>3, <2>3 DEF Covered, Full, InLadderOrder
    <3>3. PICK n \in Nat : n = Len(chain[o])
      BY <1>t, Firing
    <3>4. Len(chain'[o]) = n + 1 /\ chain'[o][n + 1] = j /\ \A m \in 1 .. n : chain'[o][m] = chain[o][m]
      BY <1>t, <3>3, Firing
    <3>5. CASE k # j
      <4>1. Precedes(i, k)
        BY <1>t, <2>3, <3>1, <3>2, <3>5, Firing
      <4>2. PICK l \in 1 .. n, m \in 1 .. n : l < m /\ chain[o][l] = i /\ chain[o][m] = k
        BY <3>1, <3>3, <4>1 DEF Precedes
      <4>3. /\ l \in 1 .. (n + 1) /\ m \in 1 .. (n + 1) /\ chain'[o][l] = i /\ chain'[o][m] = k
        BY <3>4, <4>2
      <4> QED BY <3>1, <3>4, <4>2, <4>3 DEF Precedes
    <3>6. CASE k = j
      <4>1. jobPc[i] # "armed"
        <5>1. jobDue[i] < jobDue[j] \/ jobDue[i] = jobDue[j]
          BY <3>1, <3>2, <3>6, <1>t DEF JobTypes
        <5>2. FiresBefore(i, j)
          BY <2>3, <3>1, <3>6, <5>1 DEF FiresBefore
        <5> QED BY <3>1, <5>2 DEF TimerFires, JobsOf
      <4>2. PICK l \in 1 .. n : chain[o][l] = i
        <5>1. CASE jobPc[i] = "queued"
          BY <3>1, <3>3, <5>1 DEF Chained
        <5>2. CASE jobPc[i] = "cas"
          <6>1. PICK s \in Seq(Jobs) : s = chain[o]
            BY <1>t, Firing
          <6>2. s # <<>> /\ Head(s) = i
            BY <3>1, <5>2, <6>1 DEF Chained
          <6>3. s[1] = i /\ 1 \in 1 .. Len(s)
            BY <6>2
          <6> QED BY <3>3, <6>1, <6>3
        <5> QED BY <3>2, <4>1, <5>1, <5>2
      <4>3. /\ l \in 1 .. (n + 1) /\ n + 1 \in 1 .. (n + 1) /\ l < n + 1 /\ chain'[o][l] = i /\ chain'[o][n + 1] = k
        BY <3>4, <3>6, <4>2
      <4> QED BY <3>1, <3>4, <4>3 DEF Precedes
    <3> QED BY <3>5, <3>6
  <2>4. Ahead[state'[o]] \subseteq Ahead[state[o]] /\ now' \in Nat
    BY <1>1
  <2>5. RushArming(o)' \/ (~RushArming(o) /\ eta'[o] = eta[o] /\ now <= now')
    BY <1>1, <2>1
  <2> QED BY <1>1, <1>3, <2>1, <2>2, <2>3, <2>4, <2>5, CoverKeeps
<1> QED BY <1>1, <1>2, <1>3, <1>t, Firing, JobCoverage DEF JobStep

LEMMA ReadsCoverage ==
  ASSUME ArcTypes, Chained, ArmedOnce, Coverage, NEW j \in Jobs, ReadOrder(j), IsValidTransition(state[j.order], j.target)
  PROVE  Coverage'
<1> DEFINE o == j.order
<1>1. /\ UNCHANGED <<now, state, eta, lost, rush, jobDue, chain>> /\ o \in Orders
      /\ now \in Nat /\ state[o] # None /\ jobPc'[j] = "cas" /\ jobPc[j] = "queued"
      /\ \A k \in Jobs \ {j} : jobPc'[k] = jobPc[k]
  BY JobFields, JobsOrder DEF ReadOrder, db, ArcTypes, DbTypes, JobTypes
<1>2. EtasClimb(o)'
  BY <1>1, SameEtas DEF Coverage
<1>3. ASSUME NEW by \in {"ladder", "rush"}, Covered(o, by) PROVE Covered(o, by)'
  <2>1. Armed(o, by)' = Armed(o, by) /\ (RushArming(o)' <=> RushArming(o))
    BY <1>1 DEF Armed, RushArming
  <2>2. ASSUME NEW k \in Armed(o, by) PROVE jobPc'[k] \in {"armed", "queued", "cas"}
    BY <1>1, <1>3, ArmedJobs DEF Covered, Full
  <2>3. ASSUME NEW i \in Armed(o, by), NEW k \in Armed(o, by), k.target \in Ahead[i.target], jobPc'[k] # "armed"
        PROVE  Precedes(i, k)'
    <3>1. jobPc[k] # "armed"
      BY <1>1, <2>3, ArmedJobs
    <3>2. Precedes(i, k)
      BY <1>3, <2>3, <3>1 DEF Covered, Full, InLadderOrder
    <3> QED BY <1>1, <3>2 DEF Precedes
  <2> QED BY <1>1, <1>3, <2>1, <2>2, <2>3, CoverKeeps
<1> QED BY <1>1, <1>2, <1>3, JobCoverage DEF JobStep

\* A job that ends without moving its order is no job that covers it.
LEMMA EndsCoverage ==
  ASSUME ArcTypes, Chained, ArmedOnce, Coverage, NEW j \in Jobs, JobStep(j) \/ JobFails(j), Ends(j),
         UNCHANGED <<state, eta, now, rush>>, lost \subseteq lost',
         j.order \in lost' \/ \A by \in {"ladder", "rush"} : Full(j.order, by) => j \notin Armed(j.order, by)
  PROVE  Coverage'
<1>t. JobTypes /\ ChainTypes
  BY DEF ArcTypes
<1> DEFINE o == j.order
<1>1. o \in Orders /\ now \in Nat /\ state[o] # None
  BY JobFields, JobsOrder DEF Ends, ArcTypes, DbTypes
<1>2. EtasClimb(o)'
  BY <1>1, SameEtas DEF Coverage
<1>3. ASSUME NEW by \in {"ladder", "rush"}, o \notin lost', Covered(o, by) PROVE Covered(o, by)'
  <2>1. Armed(o, by)' = Armed(o, by) /\ (RushArming(o)' <=> RushArming(o)) /\ j \notin Armed(o, by)
    BY <1>1, <1>3 DEF Armed, RushArming, Covered
  <2>2. ASSUME NEW k \in Armed(o, by)
        PROVE  /\ k \in Jobs /\ k # j /\ k.order = o /\ jobPc'[k] = jobPc[k] /\ jobDue'[k] = jobDue[k]
               /\ jobPc[k] \in {"armed", "queued", "cas"}
    BY <1>1, <1>3, <1>t, <2>1, ArmedJobs, Ending DEF Covered, Full
  <2>3. ASSUME NEW i \in Armed(o, by), NEW k \in Armed(o, by), k.target \in Ahead[i.target], jobPc'[k] # "armed"
        PROVE  Precedes(i, k)'
    <3>1. Precedes(i, k) /\ i.order = o
      BY <1>3, <2>2, <2>3 DEF Covered, Full, InLadderOrder
    <3>2. PICK n \in Nat : n = Len(chain[o])
      BY <1>t, Ending
    <3>3. PICK l \in 1 .. n, m \in 1 .. n : l < m /\ chain[o][l] = i /\ chain[o][m] = k
      BY <3>1, <3>2 DEF Precedes
    <3>4. l # 1
      BY <1>t, <2>2, <3>3, Ending
    <3>5. Len(chain'[o]) = n - 1 /\ \A x \in 1 .. (n - 1) : chain'[o][x] = chain[o][x + 1]
      <4>1. /\ Len(chain'[o]) = Len(chain[o]) - 1
            /\ \A x \in 1 .. Len(chain'[o]) : chain'[o][x] = chain[o][x + 1]
        BY <1>t, Ending
      <4> QED BY <3>2, <4>1
    <3>6. l - 1 \in 1 .. (n - 1) /\ m - 1 \in 1 .. (n - 1) /\ l - 1 < m - 1
      BY <3>3, <3>4
    <3>7. chain'[o][l - 1] = i /\ chain'[o][m - 1] = k
      BY <3>3, <3>5, <3>6
    <3> QED BY <3>1, <3>5, <3>6, <3>7 DEF Precedes
  <2> QED BY <1>1, <1>3, <2>1, <2>2, <2>3, CoverKeeps
<1> QED BY <1>1, <1>2, <1>3, <1>t, Ending, JobCoverage

\* The first job of the chain that is not its order's next step has a step before it that another
\* arming's job took.
LEMMA StaleJob ==
  ASSUME ArcTypes, Chained, NEW j \in Jobs, jobPc[j] = "queued", AtHead(j), state[j.order] # None,
         ~IsValidTransition(state[j.order], j.target), NEW by \in {"ladder", "rush"}, Full(j.order, by)
  PROVE  j \notin Armed(j.order, by)
<1> DEFINE o == j.order
           n == [order |-> o, target |-> NextState[state[o]], by |-> by]
<1>1. SUFFICES ASSUME j \in Armed(o, by) PROVE FALSE
  OBVIOUS
<1>2. o \in Orders /\ j.target \in Ahead[state[o]] /\ j.target \in Steps /\ state[o] \in Placed
  BY <1>1, JobFields, ArmedJobs DEF ArcTypes, DbTypes
<1>3. state[o] \in InTransit
  BY <1>2, Ladder DEF Ahead
<1>4. n \in Armed(o, by)
  BY <1>2, <1>3, RungAhead DEF Armed, JobsOf, Jobs
<1>5. j.target \in Ahead[n.target]
  BY <1>2, <1>3, RungAhead
<1>6. Precedes(n, j)
  BY <1>1, <1>4, <1>5 DEF Full, InLadderOrder
<1>7. PICK s \in Seq(Jobs) : s = chain[o]
  BY <1>2 DEF ArcTypes, ChainTypes
<1>8. PICK l \in 1 .. Len(s), m \in 1 .. Len(s) : l < m /\ s[m] = j
  BY <1>6, <1>7 DEF Precedes
<1>9. s # <<>> /\ Head(s) = j
  BY <1>7 DEF AtHead
<1>10. s[1] = j /\ 1 \in 1 .. Len(s)
  BY <1>9
<1>11. m = 1
  BY <1>2, <1>7, <1>8, <1>10 DEF Chained
<1> QED BY <1>8, <1>11

LEMMA MovesCoverage ==
  ASSUME ArcTypes, Chained, ArmedOnce, Seen, Coverage, NEW j \in Jobs, UpdateOrderState(j)
  PROVE  Coverage'
<1> DEFINE o == j.order
<1>1. /\ o \in Orders /\ now \in Nat /\ state[o] \in InTransit /\ j.target \in Ahead[state[o]] /\ j.target \in Steps
      /\ state'[o] = j.target /\ \A k \in Jobs \ {j} : jobPc'[k] = jobPc[k]
      /\ UNCHANGED <<now, eta, chain, jobDue, lost, rush>>
  BY Moving, JobFields DEF ArcTypes, DbTypes
<1>2. Ahead[j.target] \subseteq Ahead[state[o]] /\ j.target \notin Ahead[j.target]
  BY <1>1, Ladder DEF Placed
<1>3. EtasClimb(o)'
  <2>1. EtasClimb(o)
    BY <1>1 DEF Coverage, InTransit, None
  <2> QED BY <1>1, <1>2, <2>1 DEF EtasClimb
<1>4. ASSUME NEW by \in {"ladder", "rush"}, Covered(o, by) PROVE Covered(o, by)'
  <2>1. RushArming(o)' <=> RushArming(o)
    BY <1>1 DEF RushArming
  <2>2. ASSUME NEW k \in Jobs, k \in Armed(o, by)'
        PROVE  k \in Armed(o, by) /\ k # j /\ jobPc'[k] = jobPc[k] /\ jobPc[k] \in {"armed", "queued", "cas"}
    <3>1. k \in Armed(o, by) /\ k # j
      BY <1>1, <1>2, <2>2 DEF Armed
    <3> QED BY <1>1, <1>4, <3>1 DEF Covered, Full
  <2>3. ASSUME NEW i \in Jobs, NEW k \in Jobs, i \in Armed(o, by)', k \in Armed(o, by)', k.target \in Ahead[i.target],
               jobPc'[k] # "armed"
        PROVE  Precedes(i, k)'
    <3>1. Precedes(i, k)
      BY <1>4, <2>2, <2>3 DEF Covered, Full, InLadderOrder
    <3> QED BY <1>1, <3>1 DEF Precedes
  <2>4. Ahead[state'[o]] \subseteq Ahead[state[o]]
    BY <1>1, <1>2
  <2> QED BY <1>1, <1>4, <2>1, <2>2, <2>3, <2>4, CoverKeeps
<1> QED BY <1>1, <1>3, <1>4, JobCoverage DEF JobStep

LEMMA NextCoverage ==
  ASSUME OrderInv, Coverage, Next
  PROVE  Coverage'
<1>i. ArcTypes /\ Chained /\ ArmedOnce /\ Due /\ Seen /\ Plans
  BY DEF OrderInv
<1>1. ASSUME NEW o \in Orders, ArmLadder(o) \/ ResumeOrder(o) PROVE Coverage'
  <2>1. /\ Arms(o, "ladder") /\ UNCHANGED <<now, db, lost, rush>> /\ arming \cup todo \subseteq arming' \cup todo' \cup {o}
    BY <1>1, <1>i, ArmingShapes DEF ArmLadder, ResumeOrder
  <2>2. \A p \in Orders : RushArming(p) => RushArming(p)'
    BY <2>1 DEF RushArming
  <2> QED BY <1>i, <2>1, <2>2, ArmsCoverage
<1>2. ASSUME NEW r \in Rushers, ArmRush(r) PROVE Coverage'
  <2>1. PICK o \in Orders : o = rush[r].order /\ Arms(o, "rush")
    BY <1>2, <1>i, RushingShapes
  <2>2. UNCHANGED <<now, db, lost, arming, todo>> /\ Answer(r, "RUSHED")
    BY <1>2 DEF ArmRush
  <2>3. \A p \in Orders \ {o} : RushArming(p) => RushArming(p)'
    BY <1>i, <2>1, <2>2, AnsweredOne DEF RushArming, ArcTypes
  <2> QED BY <1>i, <2>1, <2>2, <2>3, ArmsCoverage
<1>3. ASSUME NEW j \in Jobs, JobStep(j) \/ JobFails(j) PROVE Coverage'
  <2>1. CASE TimerFires(j)
    BY <2>1, <1>i, FiresCoverage
  <2>2. CASE ReadOrder(j) /\ IsValidTransition(state[j.order], j.target)
    BY <2>2, <1>i, ReadsCoverage
  <2>3. CASE ReadOrder(j) /\ ~IsValidTransition(state[j.order], j.target)
    <3>1. /\ Ends(j) /\ UNCHANGED <<state, eta, now, rush, lost>> /\ jobPc[j] = "queued" /\ AtHead(j)
      BY <2>3 DEF ReadOrder, Ends, db
    <3>2. state[j.order] # None
      BY <1>i, <3>1, JobsOrder
    <3>3. \A by \in {"ladder", "rush"} : Full(j.order, by) => j \notin Armed(j.order, by)
      BY <1>i, <2>3, <3>1, <3>2, StaleJob
    <3> QED BY <1>i, <1>3, <3>1, <3>3, EndsCoverage
  <2>4. CASE UpdateOrderState(j)
    BY <2>4, <1>i, MovesCoverage
  <2>5. CASE SendPush(j)
    <3>1. /\ Ends(j) /\ UNCHANGED <<state, eta, now, rush, lost>> /\ jobPc[j] = "push"
      BY <2>5, <1>i, HeadOfChain DEF SendPush, Ends, db
    <3>2. \A by \in {"ladder", "rush"} : Full(j.order, by) => j \notin Armed(j.order, by)
      BY <3>1 DEF Full
    <3> QED BY <1>i, <1>3, <3>1, <3>2, EndsCoverage
  <2>6. CASE JobFails(j)
    <3>1. /\ Ends(j) /\ UNCHANGED <<state, eta, now, rush>> /\ lost \subseteq lost' /\ j.order \in lost'
      BY <2>6 DEF JobFails, Ends, db
    <3> QED BY <1>i, <1>3, <3>1, EndsCoverage
  <2> QED BY <1>3, <2>1, <2>2, <2>3, <2>4, <2>5, <2>6 DEF JobStep
<1>4. CASE Restart
  <2>1. UNCHANGED <<state, eta>> /\ todo' = {o \in Orders : state[o] \in InTransit}
    BY <1>4 DEF Restart, db, InFlight
  <2>2. ASSUME NEW p \in Orders, state'[p] # None PROVE EtasClimb(p)'
    BY <2>1, <2>2, SameEtas DEF Coverage
  <2> QED BY <2>1, <2>2 DEF Coverage
<1> QED BY <1>i, <1>1, <1>2, <1>3, <1>4, AsideCoverage, NextShapes

--------------------------------------------------------------------------------
(***************************************************************************)
(* The queue, the rush loop and the restarts deliver what OrderLifecycle   *)
(* promises, for any number of orders, rushes, restarts and errors: one    *)
(* rung at a time, no step before its promised time, one charge for one    *)
(* rush (order-scheduler.ts, order-processing.ts, rush.ts).                *)
(***************************************************************************)
THEOREM ArcImplementsLifecycle == Spec => ImplementsLifecycle
<1>1. Init => Lifecycle!Init
  BY SameWords DEF Init, Lifecycle!Init, NoPlan
<1>2. OrderInv /\ [Next]_vars => [Lifecycle!Next]_Lifecycle!vars
  <2>1. ASSUME UNCHANGED vars PROVE UNCHANGED Lifecycle!vars
    BY <2>1 DEF vars, db, Lifecycle!vars
  <2> QED BY <2>1, StepImplements
<1> QED BY <1>1, <1>2, OrderInvHolds, PTL DEF Spec, ImplementsLifecycle, Lifecycle!Spec

\* Every variable of the deliveries keeps its type.
THEOREM ArcTypesHold == Spec => []TypeOK
<1>1. OrderInv => TypeOK
  BY TypesAreParts DEF OrderInv
<1> QED BY <1>1, OrderInvHolds, PTL

(***************************************************************************)
(* A customer's pushes about an order climb the ladder: no step is         *)
(* announced twice, and none after a later one, for any interleaving of    *)
(* timers, rushes, errors and restarts (queue.ts, orderChains).            *)
(***************************************************************************)
THEOREM PushesClimbAlways == Spec => []PushesClimb
BY OrderInvHolds, PTL

(***************************************************************************)
(* A rush is never refused only because the order kept moving under it,    *)
(* however many rushes race it (rush.ts, "this is plenty").                *)
(***************************************************************************)
THEOREM RushAnswered == Spec => []RushNeverGivesUp
<1>1. OrderInv => RushNeverGivesUp
  BY DEF OrderInv, Plans, Planned, RushNeverGivesUp
<1> QED BY <1>1, OrderInvHolds, PTL
(***************************************************************************)
(* An order in transit always has a job for its next step, due by the time *)
(* promised, for any interleaving of old timers, rush timers, steps and    *)
(* restarts, unless an error dropped one (order-scheduler.ts, queue.ts).   *)
(***************************************************************************)
THEOREM AlwaysCovered == Spec => []NextStepCovered
<1>1. Init => Coverage
  BY DEF Init, Coverage, InTransit, None
<1>2. OrderInv /\ Coverage /\ [Next]_vars => Coverage'
  <2>1. ASSUME Coverage, UNCHANGED vars PROVE Coverage'
    BY <2>1 DEF vars, db, memory, bounds, jobVars, Coverage, EtasClimb, Covered, Full, Timely, InLadderOrder, Precedes,
       Armed, JobsOf, RushArming
  <2> QED BY <2>1, NextCoverage
<1>3. ASSUME OrderInv, Coverage PROVE NextStepCovered
  <2> SUFFICES ASSUME NEW o \in Orders, state[o] \in InTransit, o \notin lost, ~BeingArmed(o)
               PROVE  \E j \in JobsOf(o) : /\ j.target = NextState[state[o]]
                                           /\ jobPc[j] \in {"armed", "queued", "cas"}
                                           /\ jobDue[j] <= Later(eta[o][j.target], now)
    BY DEF NextStepCovered
  <2>1. o \notin lost \cup arming \cup todo /\ ~RushArming(o)
    BY DEF BeingArmed, RushArming
  <2>2. PICK by \in {"ladder", "rush"} : Covered(o, by)
    BY <1>3, <2>1 DEF Coverage
  <2> DEFINE j == [order |-> o, target |-> NextState[state[o]], by |-> by]
  <2>3. j \in Armed(o, by) /\ j \in JobsOf(o)
    BY RungAhead DEF Armed, JobsOf, Jobs
  <2>4. jobPc[j] \in {"armed", "queued", "cas"} /\ jobDue[j] <= Later(eta[o][j.target], now)
    BY <2>1, <2>2, <2>3 DEF Covered, Full, Timely
  <2> QED BY <2>3, <2>4
<1> QED BY <1>1, <1>2, <1>3, OrderInvHolds, PTL DEF Spec
=============================================================================
