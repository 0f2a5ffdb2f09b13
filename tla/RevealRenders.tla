----------------------------- MODULE RevealRenders -----------------------------
(***************************************************************************)
(* The last stretch of an order, from its delivery to its reveal           *)
(* (apps/api/src/lib/render/pipeline.ts, lib/jobs, routes/reveal.ts): the  *)
(* delivery step hands the order over, its renders are created, render     *)
(* jobs run from an in-memory queue, the last free render makes the order  *)
(* REVEAL_READY; the customer meanwhile unlocks paid renders and generates *)
(* more; a restart drops queue and jobs, and resumeInFlightWork picks up   *)
(* from the rows.                                                          *)
(*                                                                         *)
(* One order.  Each database statement the code awaits is a step of its    *)
(* own, where another process can act between it and the next.             *)
(***************************************************************************)
EXTENDS Integers, FiniteSets

CONSTANTS
  Free,          \* the free renders of the order's items
  Paid,          \* their paywalled renders
  Extra,         \* renders the customer generates, one per idempotency key
  Keys,          \* idempotency keys of unlock requests
  Requests,      \* unlock and generate requests in flight at a time
  Workers,       \* render jobs running at a time
  UnlockCost,    \* REVEAL_UNLOCK_COST_COINS
  GenerateCost,  \* REVEAL_GENERATE_COST_COINS, or REVEAL_COMBINE_COST_COINS
  Coins,         \* the customer's coins at the start
  MaxCrashes,    \* bound on restarts
  MaxFailures,   \* bound on database errors
  Boot,          \* the process that runs resumeInFlightWork
  None

Renders == Free \cup Paid \cup Extra
Procs == Workers \cup {Boot}

ASSUME RevealAssumption ==
  /\ Free \cap Paid = {} /\ Free \cap Extra = {} /\ Paid \cap Extra = {}
  /\ None \notin Renders /\ None \notin Keys
  /\ Boot \notin Workers
  /\ IsFiniteSet(Paid)
  /\ UnlockCost \in Nat /\ GenerateCost \in Nat /\ Coins \in Nat
  /\ MaxCrashes \in Nat /\ MaxFailures \in Nat

VARIABLES
  order,      \* orders.state, from the last step in transit on
  status,     \* renders.status; NONE where there is no row
  unlocked,   \* renders.unlocked
  balance,    \* the customer's coins
  charges,    \* coin ledger: debits taken for each render
  usedKeys,   \* coin ledger: unlock keys a debit was recorded under
  pushes,     \* ORDER_REVEAL_READY pushes sent
  handoff,    \* the delivery of the order: where its last step, and seeding, have got to
  seeded,     \* free renders seeding is about to queue
  pending,    \* renderPending: how many jobs wait for each render
  pc, job, snap,  \* running jobs: position, render, the unlocked flag updateRender read
  request,    \* requests: the renders a committed request still has to queue
  todo,       \* renders the start-up still has to queue
  crashes, failures

coins == <<balance, charges, usedKeys>>
db == <<order, status, unlocked, coins, pushes>>
seeding == <<handoff, seeded>>
work == <<pc, job, snap>>
bounds == <<crashes, failures>>
vars == <<db, seeding, pending, work, request, todo, bounds>>

Statuses == {"NONE", "QUEUED", "RUNNING", "DONE", "FAILED"}

Rows == {r \in Renders : status[r] # "NONE"}

Init ==
  /\ order = "ARRIVING_SOON"
  /\ status = [r \in Renders |-> "NONE"]
  /\ unlocked = [r \in Renders |-> FALSE]
  /\ balance = Coins
  /\ charges = [r \in Paid \cup Extra |-> 0]
  /\ usedKeys = {}
  /\ pushes = 0
  /\ handoff = "waiting"
  /\ seeded = {}
  /\ pending = [r \in Renders |-> 0]
  /\ pc = [p \in Procs |-> IF p = Boot THEN "up" ELSE "idle"]
  /\ job = [w \in Workers |-> None]
  /\ snap = [w \in Workers |-> FALSE]
  /\ request = [q \in Requests |-> {}]
  /\ todo = {}
  /\ crashes = 0
  /\ failures = 0

\* The server listens once the start-up is over.
Serving == pc[Boot] = "up"

Queue(R) == pending' = [r \in Renders |-> IF r \in R THEN pending[r] + 1 ELSE pending[r]]

(***************************************************************************)
(* The DELIVERED step of the ladder (OrderArc has the others): compare-    *)
(* and-set, push, and onDelivered, which runs the seeding from the event   *)
(* loop.                                                                   *)
(***************************************************************************)
Deliver ==
  /\ handoff = "waiting" /\ order = "ARRIVING_SOON"
  /\ order' = "DELIVERED"
  /\ handoff' = "push"
  /\ UNCHANGED <<status, unlocked, coins, pushes, seeded, pending, work, request, todo, bounds>>

\* Up to ten seconds; then enqueueDeliveredRender.
SendDeliveredPush ==
  /\ handoff = "push"
  /\ handoff' = "read"
  /\ UNCHANGED <<db, seeded, pending, work, request, todo, bounds>>

(***************************************************************************)
(* enqueueFreeRendersForOrder: rows that exist are taken as they are.      *)
(***************************************************************************)
SeedRead ==
  /\ handoff = "read"
  /\ IF Rows # {}
       THEN handoff' = "enqueue" /\ seeded' = {r \in Free : status[r] = "QUEUED"}
       ELSE handoff' = "create" /\ UNCHANGED seeded
  /\ UNCHANGED <<db, pending, work, request, todo, bounds>>

SeedCreate ==
  /\ handoff = "create"
  /\ status' = [r \in Renders |-> IF r \in Free \cup Paid THEN "QUEUED" ELSE status[r]]
  /\ unlocked' = [r \in Renders |-> IF r \in Free \cup Paid THEN r \in Free ELSE unlocked[r]]
  /\ handoff' = "enqueue"
  /\ seeded' = Free
  /\ UNCHANGED <<order, coins, pushes, pending, work, request, todo, bounds>>

SeedEnqueue ==
  /\ handoff = "enqueue"
  /\ Queue(seeded)
  /\ handoff' = "done"
  /\ seeded' = {}
  /\ UNCHANGED <<db, work, request, todo, bounds>>

\* The job is reported as failed and is not run again.
SeedFails ==
  /\ handoff \in {"read", "create"}
  /\ failures < MaxFailures
  /\ failures' = failures + 1
  /\ handoff' = "lost"
  /\ UNCHANGED <<db, seeded, pending, work, request, todo, crashes>>

(***************************************************************************)
(* processRenderJob.  updateRender reads the whole row and writes it back  *)
(* with the new status: the flag it read is kept in snap.                  *)
(***************************************************************************)
Goto(p, label) == pc' = [pc EXCEPT ![p] = label]

ReadRow(w) == snap' = [snap EXCEPT ![w] = unlocked[job[w]]]

UpdateRender(w, s) ==
  /\ status' = [status EXCEPT ![job[w]] = s]
  /\ unlocked' = [unlocked EXCEPT ![job[w]] = snap[w]]

EndJob(w) ==
  /\ Goto(w, "idle")
  /\ job' = [job EXCEPT ![w] = None]
  /\ snap' = [snap EXCEPT ![w] = FALSE]

StartJob(w, r) ==
  /\ pc[w] = "idle"
  /\ pending[r] > 0
  /\ pending' = [pending EXCEPT ![r] = @ - 1]
  /\ IF status[r] \in {"NONE", "DONE"}
       THEN UNCHANGED work
       ELSE /\ job' = [job EXCEPT ![w] = r]
            /\ snap' = [snap EXCEPT ![w] = unlocked[r]]
            /\ Goto(w, "mark")
  /\ UNCHANGED <<db, seeding, request, todo, bounds>>

MarkRunning(w) ==
  /\ pc[w] = "mark"
  /\ UpdateRender(w, "RUNNING")
  /\ Goto(w, "generating")
  /\ UNCHANGED <<order, coins, pushes, seeding, pending, job, snap, request, todo, bounds>>

\* The provider's calls, and the read of the update that follows.
ProviderAnswers(w) ==
  /\ pc[w] = "generating"
  /\ ReadRow(w)
  /\ Goto(w, "done")
  /\ UNCHANGED <<db, seeding, pending, job, request, todo, bounds>>

ProviderFails(w) ==
  /\ pc[w] = "generating"
  /\ ReadRow(w)
  /\ Goto(w, "fail")
  /\ UNCHANGED <<db, seeding, pending, job, request, todo, bounds>>

MarkDone(w) ==
  /\ pc[w] = "done"
  /\ UpdateRender(w, "DONE")
  /\ IF job[w] \in Free THEN Goto(w, "check") /\ UNCHANGED <<job, snap>>
                        ELSE EndJob(w)
  /\ UNCHANGED <<order, coins, pushes, seeding, pending, request, todo, bounds>>

\* The catch block.
MarkFailed(w) ==
  /\ pc[w] = "fail"
  /\ UpdateRender(w, "FAILED")
  /\ EndJob(w)
  /\ UNCHANGED <<order, coins, pushes, seeding, pending, request, todo, bounds>>

\* A database error: before the try block, or in the catch block, it ends the job; in the
\* try block (the update to DONE, and checkAndMarkRevealReady) it leads to the catch block.
JobDbFails(w) ==
  /\ failures < MaxFailures
  /\ failures' = failures + 1
  /\ \/ pc[w] \in {"mark", "fail"} /\ EndJob(w)
     \/ pc[w] \in {"done", "check", "cas"} /\ ReadRow(w) /\ Goto(w, "fail") /\ UNCHANGED job
  /\ UNCHANGED <<db, seeding, pending, request, todo, crashes>>

(***************************************************************************)
(* checkAndMarkRevealReady, run by a render job and by the start-up.       *)
(***************************************************************************)
\* Renders that failed counted as finished.
AllFreeFinished == Rows \cap Free # {} /\ \A r \in Rows \cap Free : status[r] \in {"DONE", "FAILED"}

AllFreeDone == Rows \cap Free # {} /\ \A r \in Rows \cap Free : status[r] = "DONE"

\* A render job is over; the start-up was at its last delivered order.
EndCheck(p) ==
  IF p = Boot THEN Goto(Boot, "up") /\ UNCHANGED <<job, snap>> ELSE EndJob(p)

CheckRenders(p) ==
  /\ pc[p] = "check"
  /\ IF order = "DELIVERED" /\ AllFreeDone
       THEN Goto(p, "cas") /\ UNCHANGED <<job, snap>>
       ELSE EndCheck(p)
  /\ UNCHANGED <<db, seeding, pending, request, todo, bounds>>

\* updateOrderState without { from: "DELIVERED" }.
StillAnyState == TRUE

StillDelivered == order = "DELIVERED"

MarkRevealReady(p) ==
  /\ pc[p] = "cas"
  /\ IF StillDelivered
       THEN /\ order' = "REVEAL_READY"
            /\ Goto(p, "push")
            /\ UNCHANGED <<job, snap>>
       ELSE EndCheck(p) /\ UNCHANGED order
  /\ UNCHANGED <<status, unlocked, coins, pushes, seeding, pending, request, todo, bounds>>

SendRevealPush(p) ==
  /\ pc[p] = "push"
  /\ pushes' = pushes + 1
  /\ EndCheck(p)
  /\ UNCHANGED <<order, status, unlocked, coins, seeding, pending, request, todo, bounds>>

(***************************************************************************)
(* POST /orders/:id/reveal/unlock and /generate: one transaction under the *)
(* customer's row lock, then the jobs.  Refusals change nothing and are    *)
(* left out; so are replays, which only read.                              *)
(***************************************************************************)
RevealOpen == order \in {"DELIVERED", "REVEAL_READY"}

\* Renders that are unlocked already are charged again under another key.
ToFlipAgain(R) == {r \in R : r \in Rows}

ToFlip(R) == {r \in R : r \in Rows /\ ~unlocked[r]}

\* Credit without limit.
CanPayUnchecked(cost) == TRUE

CanPay(cost) == balance >= cost

Unlock(q, key, R) ==
  LET flipped == ToFlip(R)
  IN  /\ Serving /\ RevealOpen
      /\ request[q] = {}
      /\ key \notin usedKeys
      /\ flipped # {}
      /\ CanPay(UnlockCost * Cardinality(flipped))
      /\ balance' = balance - UnlockCost * Cardinality(flipped)
      /\ charges' = [r \in Paid \cup Extra |-> IF r \in flipped THEN charges[r] + 1 ELSE charges[r]]
      /\ usedKeys' = IF key = None THEN usedKeys ELSE usedKeys \cup {key}
      /\ unlocked' = [r \in Renders |-> IF r \in flipped THEN TRUE ELSE unlocked[r]]
      /\ request' = [request EXCEPT ![q] = {r \in flipped : status[r] = "QUEUED"}]
      /\ UNCHANGED <<order, status, pushes, seeding, pending, work, todo, bounds>>

\* purchaseRender: the key is the render's id, so a replay finds its debit.
Bought(g) == charges[g] > 0

Generate(q, g) ==
  /\ Serving /\ RevealOpen
  /\ request[q] = {}
  /\ ~Bought(g)
  /\ CanPay(GenerateCost)
  /\ balance' = balance - GenerateCost
  /\ charges' = [charges EXCEPT ![g] = @ + 1]
  /\ status' = [status EXCEPT ![g] = "QUEUED"]
  /\ unlocked' = [unlocked EXCEPT ![g] = TRUE]
  /\ request' = [request EXCEPT ![q] = {g}]
  /\ UNCHANGED <<order, usedKeys, pushes, seeding, pending, work, todo, bounds>>

EnqueueRequested(q) ==
  /\ request[q] # {}
  /\ Queue(request[q])
  /\ request' = [request EXCEPT ![q] = {}]
  /\ UNCHANGED <<db, seeding, work, todo, bounds>>

(***************************************************************************)
(* A crash at any point, and resumeInFlightWork: renders first, then the   *)
(* order if it is delivered, then its timer if it is still in transit.     *)
(***************************************************************************)
Restart ==
  /\ crashes < MaxCrashes
  /\ crashes' = crashes + 1
  /\ handoff' = "none"
  /\ seeded' = {}
  /\ pending' = [r \in Renders |-> 0]
  /\ pc' = [p \in Procs |-> IF p = Boot THEN "list" ELSE "idle"]
  /\ job' = [w \in Workers |-> None]
  /\ snap' = [w \in Workers |-> FALSE]
  /\ request' = [q \in Requests |-> {}]
  /\ todo' = {}
  /\ UNCHANGED <<db, failures>>

\* Renders a crash cut off mid-generation only.
ResumableRunning == {r \in Renders : unlocked[r] /\ status[r] = "RUNNING"}

\* Every unfinished row, locked ones included.
ResumableLocked == {r \in Renders : status[r] \in {"QUEUED", "RUNNING"}}

Resumable == {r \in Renders : unlocked[r] /\ status[r] \in {"QUEUED", "RUNNING"}}

ListPendingRenders ==
  /\ pc[Boot] = "list"
  /\ todo' = Resumable
  /\ Goto(Boot, "requeue")
  /\ UNCHANGED <<db, seeding, pending, job, snap, request, bounds>>

Requeue(r) ==
  /\ pc[Boot] = "requeue"
  /\ r \in todo
  /\ todo' = todo \ {r}
  /\ status' = [status EXCEPT ![r] = "QUEUED"]
  /\ Queue({r})
  /\ UNCHANGED <<order, unlocked, coins, pushes, seeding, work, request, bounds>>

\* Left to its render jobs, which may all be over.
ResumeSeededUnchecked == "up"

\* A delivered order that has its renders is checked at once.
ResumeSeeded == "check"

ResumeOrder ==
  /\ pc[Boot] = "requeue"
  /\ todo = {}
  /\ \/ order = "ARRIVING_SOON" /\ handoff' = "waiting" /\ Goto(Boot, "up")
     \/ order = "DELIVERED" /\ Rows = {} /\ handoff' = "read" /\ Goto(Boot, "up")
     \/ order = "DELIVERED" /\ Rows # {} /\ handoff' = "done" /\ Goto(Boot, ResumeSeeded)
     \/ order = "REVEAL_READY" /\ handoff' = "done" /\ Goto(Boot, "up")
  /\ UNCHANGED <<db, seeded, pending, job, snap, request, todo, bounds>>

\* The error is logged and the server listens all the same.
ResumeFails ==
  /\ pc[Boot] \in {"list", "requeue", "check", "cas"}
  /\ failures < MaxFailures
  /\ failures' = failures + 1
  /\ Goto(Boot, "up")
  /\ handoff' = IF handoff = "none" THEN "lost" ELSE handoff
  /\ todo' = {}
  /\ UNCHANGED <<db, seeded, pending, job, snap, request, crashes>>

--------------------------------------------------------------------------------
SeedStep == SendDeliveredPush \/ SeedRead \/ SeedCreate \/ SeedEnqueue

JobStep(w) ==
  \/ \E r \in Renders : StartJob(w, r)
  \/ MarkRunning(w) \/ ProviderAnswers(w) \/ ProviderFails(w) \/ MarkDone(w) \/ MarkFailed(w)

CheckStep(p) == CheckRenders(p) \/ MarkRevealReady(p) \/ SendRevealPush(p)

BootStep == ListPendingRenders \/ (\E r \in Renders : Requeue(r)) \/ ResumeOrder

Next ==
  \/ Deliver \/ SeedStep \/ SeedFails
  \/ \E w \in Workers : JobStep(w) \/ JobDbFails(w)
  \/ \E p \in Procs : CheckStep(p)
  \/ \E q \in Requests : \/ \E key \in Keys \cup {None}, R \in SUBSET Paid : Unlock(q, key, R)
                         \/ \E g \in Extra : Generate(q, g)
                         \/ EnqueueRequested(q)
  \/ Restart \/ BootStep \/ ResumeFails

Spec == Init /\ [][Next]_vars

(***************************************************************************)
(* The delivery timer, the event loop, the provider (which answers or      *)
(* fails) and the start-up make progress; customers, crashes and database  *)
(* errors are not obliged to happen.                                       *)
(***************************************************************************)
FairSpec ==
  /\ Spec
  /\ WF_vars(Deliver) /\ WF_vars(SeedStep) /\ WF_vars(BootStep)
  /\ \A w \in Workers : WF_vars(JobStep(w))
  /\ \A p \in Procs : WF_vars(CheckStep(p))
  /\ \A q \in Requests : WF_vars(EnqueueRequested(q))

--------------------------------------------------------------------------------
Stages == {"idle", "mark", "generating", "done", "fail", "check", "cas", "push",
           "list", "requeue", "up"}

\* The types of the variables.
TypeOK ==
  /\ order \in {"ARRIVING_SOON", "DELIVERED", "REVEAL_READY"}
  /\ status \in [Renders -> Statuses]
  /\ unlocked \in [Renders -> BOOLEAN]
  /\ balance \in Nat
  /\ charges \in [Paid \cup Extra -> Nat]
  /\ usedKeys \subseteq Keys
  /\ pushes \in Nat
  /\ handoff \in {"none", "waiting", "push", "read", "create", "enqueue", "done", "lost"}
  /\ seeded \subseteq Free
  /\ pending \in [Renders -> Nat]
  /\ pc \in [Procs -> Stages]
  /\ job \in [Workers -> Renders \cup {None}]
  /\ snap \in [Workers -> BOOLEAN]
  /\ request \in [Requests -> SUBSET (Paid \cup Extra)]
  /\ todo \subseteq Renders
  /\ crashes \in Nat /\ failures \in Nat

(***************************************************************************)
(* What the customer paid for is what is theirs: a paid render is charged  *)
(* once and stays unlocked from then on, an unpaid one stays locked, and a *)
(* generated one exists exactly if it was charged, once.  updateRender     *)
(* writes back a flag it read earlier, so this holds only because no job   *)
(* ever runs for a locked render (postgres.ts, updateRender,               *)
(* unlockOrderRenders, purchaseRender).                                    *)
(***************************************************************************)
ChargedOnceForWhatIsUnlocked ==
  /\ \A r \in Paid : charges[r] = IF unlocked[r] THEN 1 ELSE 0
  /\ \A r \in Extra : charges[r] = IF r \in Rows THEN 1 ELSE 0

(***************************************************************************)
(* A render never has two jobs, waiting or running: the provider is not    *)
(* paid twice for one image (resume.ts: "so the ones seeded for delivered  *)
(* orders below aren't queued twice").                                     *)
(***************************************************************************)
JobsFor(r) == Cardinality({w \in Workers : job[w] = r}) + pending[r]

OneJobPerRender == \A r \in Renders : JobsFor(r) <= 1

(***************************************************************************)
(* A reveal is announced at most once, and only when it is ready, however  *)
(* many free renders finish together and whenever the server restarts.     *)
(***************************************************************************)
RevealPushedOnce == pushes <= 1 /\ (pushes = 1 => order = "REVEAL_READY")

(***************************************************************************)
(* REVEAL_READY means what docs/IMPLEMENTATION_PLAN.md:145 says: all free  *)
(* renders are there and DONE.                                             *)
(***************************************************************************)
RevealReadyMeansFreeDone ==
  order = "REVEAL_READY" => \A r \in Free : status[r] = "DONE"

(***************************************************************************)
(* Once a delivered order's hand-over has run, its free renders exist      *)
(* (docs/IMPLEMENTATION_PLAN.md:18: "Pre-generate the 2 free renders       *)
(* always").                                                               *)
(***************************************************************************)
FreeRendersAlwaysSeeded == handoff = "done" => Free \subseteq Rows

(***************************************************************************)
(* A delivered order becomes ready, through restarts, unless a free render *)
(* failed (failed renders are not run again) or a render generated before  *)
(* the seeding kept the free ones from being created.                      *)
(***************************************************************************)
SeedingForestalled == handoff = "done" /\ Rows \cap Free = {} /\ Rows # {}

EventuallyRevealReady ==
  order = "DELIVERED" ~>
    \/ order = "REVEAL_READY"
    \/ \E r \in Free : status[r] = "FAILED"
    \/ SeedingForestalled

(***************************************************************************)
(* A render the customer paid for is generated, or fails, though the       *)
(* server may stop between the payment and its job.                        *)
(***************************************************************************)
PaidRenderFinishes ==
  \A r \in Paid \cup Extra : charges[r] > 0 ~> status[r] \in {"DONE", "FAILED"}

================================================================================
