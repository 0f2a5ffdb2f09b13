-------------------------- MODULE RevealRendersProofs --------------------------
(***************************************************************************)
(* The types of RevealRenders, its money invariant, its one push and one   *)
(* job per render, for every set of renders, keys, requests and workers,   *)
(* every price, and any number of restarts and database errors.            *)
(*                                                                         *)
(* ChargedOnceForWhatIsUnlocked is not inductive.  A render job writes     *)
(* back an unlocked flag it read earlier (updateRender), and seeding       *)
(* writes the flags of every free and paid row; neither may undo an unlock *)
(* that was paid for in between.  Safe adds why they never do: a job, at   *)
(* any stage of its life, belongs to a render that is unlocked already,    *)
(* and seeding only ever creates.                                          *)
(*                                                                         *)
(* RevealReadyMeansFreeDone holds until the database makes an error;       *)
(* Finished, at the end, is its invariant: a job that writes a status      *)
(* belongs to a render that is not done.                                   *)
(***************************************************************************)
EXTENDS RevealRenders, FiniteSetTheorems, TLAPS

JobStages == {"mark", "generating", "done", "fail", "check", "cas", "push"}

\* A worker is idle, or runs a job for a render that was unlocked when it read the flag.
RunningUnlocked ==
  \A w \in Workers :
    \/ pc[w] = "idle" /\ job[w] = None
    \/ /\ pc[w] \in JobStages
       /\ job[w] \in Renders
       /\ snap[w]
       /\ unlocked[job[w]]

\* So does every job that waits, and every one that somebody is about to queue.
WaitingUnlocked ==
  /\ \A r \in Renders : pending[r] > 0 => unlocked[r]
  /\ \A r \in todo : unlocked[r]
  /\ \A r \in seeded : unlocked[r]
  /\ \A q \in Requests : \A r \in request[q] : unlocked[r]

\* Unlocked renders have rows; the rows of free and generated renders are unlocked.
RowsUnlocked ==
  /\ \A r \in Renders : unlocked[r] => status[r] # "NONE"
  /\ \A r \in Free \cup Extra : status[r] # "NONE" => unlocked[r]

\* Seeding creates rows that are not there.
SeedingCreates ==
  handoff = "create" => \A r \in Free \cup Paid : status[r] = "NONE"

Safe ==
  /\ TypeOK
  /\ RunningUnlocked
  /\ WaitingUnlocked
  /\ RowsUnlocked
  /\ SeedingCreates
  /\ ChargedOnceForWhatIsUnlocked

--------------------------------------------------------------------------------
\* A function of flags stays one when a flag is set (updateRender).
LEMMA FlagSet ==
  ASSUME NEW S, NEW f \in [S -> BOOLEAN], NEW x, NEW b \in BOOLEAN
  PROVE  [f EXCEPT ![x] = b] \in [S -> BOOLEAN]
OBVIOUS

\* The same, when the flags of A are given by membership in B (SeedCreate).
LEMMA FlagsGiven ==
  ASSUME NEW S, NEW f \in [S -> BOOLEAN], NEW A, NEW B
  PROVE  [r \in S |-> IF r \in A THEN r \in B ELSE f[r]] \in [S -> BOOLEAN]
<1>1. ASSUME NEW r \in S PROVE (IF r \in A THEN r \in B ELSE f[r]) \in BOOLEAN
  <2>1. f[r] \in BOOLEAN
    OBVIOUS
  <2>2. (r \in B) \in BOOLEAN
    OBVIOUS
  <2> QED
    BY <2>1, <2>2, Zenon
<1> QED
  BY <1>1, Zenon

\* No order is delivered yet: no rows, no jobs, no charges.
LEMMA InitSafe == Init => Safe
BY RevealAssumption DEF Init, Safe, TypeOK, RunningUnlocked, WaitingUnlocked, RowsUnlocked,
  SeedingCreates, ChargedOnceForWhatIsUnlocked, Renders, Procs, Rows, Statuses, Stages

(***************************************************************************)
(* One step per action.  Those that write "unlocked" (SeedCreate and the   *)
(* updates of a job), and Unlock, which moves the coins, carry the weight. *)
(***************************************************************************)
LEMMA NextSafe == Safe /\ [Next]_vars => Safe'
<1> SUFFICES ASSUME Safe, [Next]_vars PROVE Safe'
  OBVIOUS
<1> USE RevealAssumption DEF Safe, TypeOK, RunningUnlocked, WaitingUnlocked, RowsUnlocked,
     SeedingCreates, ChargedOnceForWhatIsUnlocked, Renders, Procs, Rows, Statuses, Stages, JobStages,
     db, coins, seeding, work, bounds
<1>1. CASE Deliver
  BY <1>1 DEF Deliver
<1>2. CASE SendDeliveredPush
  BY <1>2 DEF SendDeliveredPush
<1>3. CASE SeedRead
  BY <1>3 DEF SeedRead
<1>4. CASE SeedCreate
  <2>1. TypeOK'
    <3>1. status' \in [Renders -> Statuses]
      BY <1>4 DEF SeedCreate
    <3>2. unlocked' \in [Renders -> BOOLEAN]
      <4>1. unlocked \in [Renders -> BOOLEAN]
        OBVIOUS
      <4>2. unlocked' = [r \in Renders |-> IF r \in Free \cup Paid THEN r \in Free ELSE unlocked[r]]
        BY <1>4 DEF SeedCreate
      <4> HIDE DEF Renders
      <4> QED
        BY ONLY <4>1, <4>2, FlagsGiven
    <3> QED
      BY <1>4, <3>1, <3>2 DEF SeedCreate
  <2>2. RunningUnlocked'
    BY <1>4 DEF SeedCreate
  <2>3. WaitingUnlocked'
    BY <1>4 DEF SeedCreate
  <2>4. RowsUnlocked'
    BY <1>4 DEF SeedCreate
  <2>5. SeedingCreates'
    BY <1>4 DEF SeedCreate
  <2>6. ChargedOnceForWhatIsUnlocked'
    BY <1>4 DEF SeedCreate
  <2> QED
    BY <2>1, <2>2, <2>3, <2>4, <2>5, <2>6
<1>5. CASE SeedEnqueue
  BY <1>5 DEF SeedEnqueue, Queue
<1>6. CASE SeedFails
  BY <1>6 DEF SeedFails
<1>7. ASSUME NEW w \in Workers, NEW r \in Renders,
        StartJob(w, r)
     PROVE Safe'
  BY <1>7 DEF StartJob, Goto
<1>8. ASSUME NEW w \in Workers,
        MarkRunning(w)
     PROVE Safe'
  BY <1>8 DEF MarkRunning, UpdateRender, Goto
<1>9. ASSUME NEW w \in Workers,
        ProviderAnswers(w)
     PROVE Safe'
  BY <1>9 DEF ProviderAnswers, ReadRow, Goto
<1>10. ASSUME NEW w \in Workers,
         ProviderFails(w)
      PROVE Safe'
  BY <1>10 DEF ProviderFails, ReadRow, Goto
<1>11. ASSUME NEW w \in Workers,
         MarkDone(w)
      PROVE Safe'
  <2>1. TypeOK'
    <3>1. pc' \in [Procs -> Stages]
      BY <1>11 DEF MarkDone, UpdateRender, EndJob, Goto
    <3>2. job' \in [Workers -> Renders \cup {None}]
      BY <1>11 DEF MarkDone, UpdateRender, EndJob, Goto
    <3>3. snap' \in [Workers -> BOOLEAN]
      <4>1. snap' = snap \/ snap' = [snap EXCEPT ![w] = FALSE]
        BY <1>11 DEF MarkDone, UpdateRender, EndJob, Goto
      <4>2. snap \in [Workers -> BOOLEAN]
        OBVIOUS
      <4> QED
        BY ONLY <4>1, <4>2, FlagSet
    <3> QED
      BY <1>11, <3>1, <3>2, <3>3 DEF MarkDone, UpdateRender
  <2>2. RunningUnlocked'
    BY <1>11 DEF MarkDone, UpdateRender, EndJob, Goto
  <2>3. WaitingUnlocked'
    BY <1>11 DEF MarkDone, UpdateRender, EndJob, Goto
  <2>4. RowsUnlocked'
    BY <1>11 DEF MarkDone, UpdateRender, EndJob, Goto
  <2>5. SeedingCreates'
    BY <1>11 DEF MarkDone, UpdateRender, EndJob, Goto
  <2>6. ChargedOnceForWhatIsUnlocked'
    BY <1>11 DEF MarkDone, UpdateRender, EndJob, Goto
  <2> QED
    BY <2>1, <2>2, <2>3, <2>4, <2>5, <2>6
<1>12. ASSUME NEW w \in Workers,
         MarkFailed(w)
      PROVE Safe'
  BY <1>12 DEF MarkFailed, UpdateRender, EndJob, Goto
<1>13. ASSUME NEW w \in Workers,
         JobDbFails(w)
      PROVE Safe'
  <2>1. TypeOK'
    <3>1. pc' \in [Procs -> Stages]
      BY <1>13 DEF JobDbFails, EndJob, ReadRow, Goto
    <3>2. job' \in [Workers -> Renders \cup {None}]
      BY <1>13 DEF JobDbFails, EndJob, ReadRow, Goto
    <3>3. snap' \in [Workers -> BOOLEAN]
      <4>1. snap' = [snap EXCEPT ![w] = FALSE] \/ snap' = [snap EXCEPT ![w] = unlocked[job[w]]]
        BY <1>13 DEF JobDbFails, EndJob, ReadRow, Goto
      <4>2. pc[w] # "idle" /\ job[w] \in Renders
        BY <1>13 DEF JobDbFails
      <4>3. snap \in [Workers -> BOOLEAN] /\ unlocked[job[w]] \in BOOLEAN
        BY <4>2
      <4> QED
        BY ONLY <4>1, <4>3, FlagSet
    <3> QED
      BY <1>13, <3>1, <3>2, <3>3 DEF JobDbFails
  <2>2. RunningUnlocked'
    BY <1>13 DEF JobDbFails, EndJob, ReadRow, Goto
  <2>3. WaitingUnlocked'
    BY <1>13 DEF JobDbFails, EndJob, ReadRow, Goto
  <2>4. RowsUnlocked'
    BY <1>13 DEF JobDbFails, EndJob, ReadRow, Goto
  <2>5. SeedingCreates'
    BY <1>13 DEF JobDbFails, EndJob, ReadRow, Goto
  <2>6. ChargedOnceForWhatIsUnlocked'
    BY <1>13 DEF JobDbFails, EndJob, ReadRow, Goto
  <2> QED
    BY <2>1, <2>2, <2>3, <2>4, <2>5, <2>6
<1>14. ASSUME NEW p \in Procs,
         CheckRenders(p)
      PROVE Safe'
  <2>1. TypeOK'
    <3>1. pc' \in [Procs -> Stages]
      BY <1>14 DEF CheckRenders, EndCheck, EndJob, Goto
    <3>2. job' \in [Workers -> Renders \cup {None}]
      BY <1>14 DEF CheckRenders, EndCheck, EndJob, Goto
    <3>3. snap' \in [Workers -> BOOLEAN]
      <4>1. snap' = snap \/ snap' = [snap EXCEPT ![p] = FALSE]
        BY <1>14 DEF CheckRenders, EndCheck, EndJob, Goto
      <4>2. snap \in [Workers -> BOOLEAN]
        OBVIOUS
      <4> QED
        BY ONLY <4>1, <4>2, FlagSet
    <3> QED
      BY <1>14, <3>1, <3>2, <3>3 DEF CheckRenders
  <2>2. RunningUnlocked'
    BY <1>14 DEF CheckRenders, EndCheck, EndJob, Goto
  <2>3. WaitingUnlocked'
    BY <1>14 DEF CheckRenders, EndCheck, EndJob, Goto
  <2>4. RowsUnlocked'
    BY <1>14 DEF CheckRenders, EndCheck, EndJob, Goto
  <2>5. SeedingCreates'
    BY <1>14 DEF CheckRenders, EndCheck, EndJob, Goto
  <2>6. ChargedOnceForWhatIsUnlocked'
    BY <1>14 DEF CheckRenders, EndCheck, EndJob, Goto
  <2> QED
    BY <2>1, <2>2, <2>3, <2>4, <2>5, <2>6
<1>15. ASSUME NEW p \in Procs,
         MarkRevealReady(p)
      PROVE Safe'
  <2>1. TypeOK'
    <3>1. pc' \in [Procs -> Stages]
      BY <1>15 DEF MarkRevealReady, EndCheck, EndJob, Goto
    <3>2. job' \in [Workers -> Renders \cup {None}]
      BY <1>15 DEF MarkRevealReady, EndCheck, EndJob, Goto
    <3>3. snap' \in [Workers -> BOOLEAN]
      <4>1. snap' = snap \/ snap' = [snap EXCEPT ![p] = FALSE]
        BY <1>15 DEF MarkRevealReady, EndCheck, EndJob, Goto
      <4>2. snap \in [Workers -> BOOLEAN]
        OBVIOUS
      <4> QED
        BY ONLY <4>1, <4>2, FlagSet
    <3> QED
      BY <1>15, <3>1, <3>2, <3>3 DEF MarkRevealReady
  <2>2. RunningUnlocked'
    BY <1>15 DEF MarkRevealReady, EndCheck, EndJob, Goto
  <2>3. WaitingUnlocked'
    BY <1>15 DEF MarkRevealReady, EndCheck, EndJob, Goto
  <2>4. RowsUnlocked'
    BY <1>15 DEF MarkRevealReady, EndCheck, EndJob, Goto
  <2>5. SeedingCreates'
    BY <1>15 DEF MarkRevealReady, EndCheck, EndJob, Goto
  <2>6. ChargedOnceForWhatIsUnlocked'
    BY <1>15 DEF MarkRevealReady, EndCheck, EndJob, Goto
  <2> QED
    BY <2>1, <2>2, <2>3, <2>4, <2>5, <2>6
<1>16. ASSUME NEW p \in Procs,
         SendRevealPush(p)
      PROVE Safe'
  <2>1. TypeOK'
    <3>1. pc' \in [Procs -> Stages]
      BY <1>16 DEF SendRevealPush, EndCheck, EndJob, Goto
    <3>2. job' \in [Workers -> Renders \cup {None}]
      BY <1>16 DEF SendRevealPush, EndCheck, EndJob, Goto
    <3>3. snap' \in [Workers -> BOOLEAN]
      <4>1. snap' = snap \/ snap' = [snap EXCEPT ![p] = FALSE]
        BY <1>16 DEF SendRevealPush, EndCheck, EndJob, Goto
      <4>2. snap \in [Workers -> BOOLEAN]
        OBVIOUS
      <4> QED
        BY ONLY <4>1, <4>2, FlagSet
    <3> QED
      BY <1>16, <3>1, <3>2, <3>3 DEF SendRevealPush
  <2>2. RunningUnlocked'
    BY <1>16 DEF SendRevealPush, EndCheck, EndJob, Goto
  <2>3. WaitingUnlocked'
    BY <1>16 DEF SendRevealPush, EndCheck, EndJob, Goto
  <2>4. RowsUnlocked'
    BY <1>16 DEF SendRevealPush, EndCheck, EndJob, Goto
  <2>5. SeedingCreates'
    BY <1>16 DEF SendRevealPush, EndCheck, EndJob, Goto
  <2>6. ChargedOnceForWhatIsUnlocked'
    BY <1>16 DEF SendRevealPush, EndCheck, EndJob, Goto
  <2> QED
    BY <2>1, <2>2, <2>3, <2>4, <2>5, <2>6
<1>17. ASSUME NEW q \in Requests, NEW key \in Keys \cup {None}, NEW R \in SUBSET Paid,
         Unlock(q, key, R)
      PROVE Safe'
  <2>1. Cardinality(ToFlip(R)) \in Nat
    BY FS_Subset, FS_CardinalityType DEF ToFlip
  <2>2. TypeOK'
    <3>1. balance' \in Nat /\ charges' \in [Paid \cup Extra -> Nat]
      BY <1>17, <2>1 DEF Unlock, CanPay
    <3>2. request' \in [Requests -> SUBSET (Paid \cup Extra)] /\ unlocked' \in [Renders -> BOOLEAN]
      BY <1>17 DEF Unlock, ToFlip
    <3>3. usedKeys' \subseteq Keys
      BY <1>17 DEF Unlock
    <3>4. /\ order' = order /\ status' = status /\ pushes' = pushes /\ handoff' = handoff
          /\ seeded' = seeded /\ pending' = pending /\ pc' = pc /\ job' = job /\ snap' = snap
          /\ todo' = todo /\ crashes' = crashes /\ failures' = failures
      BY <1>17 DEF Unlock
    <3> QED
      BY <3>1, <3>2, <3>3, <3>4
  <2>3. RunningUnlocked'
    BY <1>17, <2>1 DEF Unlock, ToFlip, CanPay
  <2>4. WaitingUnlocked'
    <3>1. \A r \in Renders : unlocked[r] => unlocked'[r]
      BY <1>17 DEF Unlock
    <3>2. \A x \in Requests : \A r \in request'[x] : unlocked'[r]
      BY <1>17, <3>1 DEF Unlock, ToFlip
    <3>3. pending' = pending /\ todo' = todo /\ seeded' = seeded
      BY <1>17 DEF Unlock
    <3>4. todo \subseteq Renders /\ seeded \subseteq Renders
      OBVIOUS
    <3> QED
      BY <3>1, <3>2, <3>3, <3>4
  <2>5. RowsUnlocked'
    BY <1>17, <2>1 DEF Unlock, ToFlip, CanPay
  <2>6. SeedingCreates'
    BY <1>17, <2>1 DEF Unlock, ToFlip, CanPay
  <2>7. ChargedOnceForWhatIsUnlocked'
    BY <1>17, <2>1 DEF Unlock, ToFlip, CanPay
  <2> QED
    BY <2>2, <2>3, <2>4, <2>5, <2>6, <2>7
<1>18. ASSUME NEW q \in Requests, NEW g \in Extra,
         Generate(q, g)
      PROVE Safe'
  BY <1>18 DEF Generate, CanPay, Bought
<1>19. ASSUME NEW q \in Requests,
         EnqueueRequested(q)
      PROVE Safe'
  BY <1>19 DEF EnqueueRequested, Queue
<1>20. CASE Restart
  BY <1>20 DEF Restart
<1>21. CASE ListPendingRenders
  BY <1>21 DEF ListPendingRenders, Resumable, Goto
<1>22. ASSUME NEW r \in Renders,
         Requeue(r)
      PROVE Safe'
  BY <1>22 DEF Requeue, Queue
<1>23. CASE ResumeOrder
  BY <1>23 DEF ResumeOrder, ResumeSeeded, Goto
<1>24. CASE ResumeFails
  BY <1>24 DEF ResumeFails, Goto
<1>25. CASE UNCHANGED vars
  BY <1>25 DEF vars
<1> QED
  BY <1>1, <1>2, <1>3, <1>4, <1>5, <1>6, <1>7, <1>8, <1>9, <1>10, <1>11, <1>12, <1>13,
     <1>14, <1>15, <1>16, <1>17, <1>18, <1>19, <1>20, <1>21, <1>22, <1>23, <1>24, <1>25
  DEF Next, SeedStep, JobStep, CheckStep, BootStep

(***************************************************************************)
(* The types are right in every behaviour: no counter, balance or flag of  *)
(* the reveal leaves its range.                                            *)
(***************************************************************************)
THEOREM TypeCorrect == Spec => []TypeOK
<1>1. Safe => TypeOK
  BY DEF Safe
<1> QED
  BY InitSafe, NextSafe, <1>1, PTL DEF Spec

(***************************************************************************)
(* What the customer paid for is what is theirs: every paid render is      *)
(* charged once if it is unlocked and never if it is not, every generated  *)
(* one exists exactly if it was charged, through any interleaving of       *)
(* unlocks, jobs, seeding, restarts and errors.                            *)
(***************************************************************************)
THEOREM ChargedOnce == Spec => []ChargedOnceForWhatIsUnlocked
<1>1. Safe => ChargedOnceForWhatIsUnlocked
  BY DEF Safe
<1> QED
  BY InitSafe, NextSafe, <1>1, PTL DEF Spec

--------------------------------------------------------------------------------
(***************************************************************************)
(* RevealPushedOnce rests on the compare-and-set of MarkRevealReady: the   *)
(* order leaves DELIVERED once, so one process at most is about to push,   *)
(* and none is after the push.                                             *)
(***************************************************************************)
Once ==
  /\ pushes <= 1
  /\ order # "REVEAL_READY" => pushes = 0 /\ \A p \in Procs : pc[p] # "push"
  /\ pushes = 1 => \A p \in Procs : pc[p] # "push"
  /\ \A p, q \in Procs : pc[p] = "push" /\ pc[q] = "push" => p = q

\* Nobody is about to push at the start.
LEMMA InitOnce == Init => Once
BY RevealAssumption DEF Init, Once, Procs

\* Only MarkRevealReady leads to a push, and only from DELIVERED, which never comes back.
LEMMA NextOnce == TypeOK /\ Once /\ [Next]_vars => Once'
<1> SUFFICES ASSUME TypeOK, Once, [Next]_vars PROVE Once'
  OBVIOUS
<1> USE DEF TypeOK, Once, Procs, Goto, EndJob, EndCheck, db, coins, work, bounds
<1>1. CASE Deliver \/ SeedStep \/ SeedFails
  BY <1>1 DEF Deliver, SeedStep, SendDeliveredPush, SeedRead, SeedCreate, SeedEnqueue, SeedFails
<1>2. ASSUME NEW w \in Workers, JobStep(w) \/ JobDbFails(w)
      PROVE Once'
  BY <1>2 DEF JobStep, StartJob, MarkRunning, ProviderAnswers, ProviderFails, MarkDone,
              MarkFailed, JobDbFails
<1>3. ASSUME NEW p \in Procs, CheckStep(p)
      PROVE Once'
  <2>1. CASE CheckRenders(p)
    BY <2>1 DEF CheckRenders
  <2>2. CASE MarkRevealReady(p)
    BY <2>2 DEF MarkRevealReady, StillDelivered
  <2>3. CASE SendRevealPush(p)
    BY <2>3 DEF SendRevealPush
  <2> QED
    BY <1>3, <2>1, <2>2, <2>3 DEF CheckStep
<1>4. ASSUME NEW q \in Requests, NEW key \in Keys \cup {None}, NEW R \in SUBSET Paid,
             Unlock(q, key, R)
      PROVE Once'
  BY <1>4 DEF Unlock
<1>5. ASSUME NEW q \in Requests, NEW g \in Extra, Generate(q, g)
      PROVE Once'
  BY <1>5 DEF Generate
<1>6. ASSUME NEW q \in Requests, EnqueueRequested(q)
      PROVE Once'
  BY <1>6 DEF EnqueueRequested
<1>7. CASE Restart
  BY <1>7 DEF Restart
<1>8. CASE BootStep
  BY <1>8, ZenonT(30) DEF BootStep, ListPendingRenders, Requeue, ResumeOrder, ResumeSeeded
<1>9. CASE ResumeFails
  BY <1>9 DEF ResumeFails
<1>10. CASE UNCHANGED vars
  BY <1>10 DEF vars
<1> QED
  BY <1>1, <1>2, <1>3, <1>4, <1>5, <1>6, <1>7, <1>8, <1>9, <1>10 DEF Next

(***************************************************************************)
(* The customer hears of a reveal once at most, and only when it is ready, *)
(* however many free renders finish together and whenever the server is    *)
(* restarted.                                                              *)
(***************************************************************************)
THEOREM PushedOnce == Spec => []RevealPushedOnce
<1>1. Once /\ TypeOK => RevealPushedOnce
  BY DEF Once, TypeOK, RevealPushedOnce
<1> QED
  BY TypeCorrect, InitOnce, NextOnce, <1>1, PTL DEF Spec

--------------------------------------------------------------------------------
(***************************************************************************)
(* A render's job is in one place: waiting, running, or with the one       *)
(* process that is about to queue it.  Whoever takes a render on finds it  *)
(* untouched: locked until now (Unlock), without a row until now           *)
(* (Generate, SeedCreate), or in a process that has just started.          *)
(***************************************************************************)
OneJob(r) ==
  /\ pending[r] <= 1
  /\ \A v, w \in Workers : job[v] = r /\ job[w] = r => v = w
  /\ pending[r] = 1 => \A w \in Workers : job[w] # r
  /\ r \in todo => pending[r] = 0 /\ \A w \in Workers : job[w] # r
  /\ r \in seeded => pending[r] = 0 /\ r \notin todo /\ \A w \in Workers : job[w] # r
  /\ \A q \in Requests : r \in request[q] =>
       pending[r] = 0 /\ r \notin todo \cup seeded /\ \A w \in Workers : job[w] # r
  /\ \A p, q \in Requests : r \in request[p] /\ r \in request[q] => p = q

Untouched(r) ==
  /\ pending[r] = 0 /\ r \notin todo \cup seeded
  /\ \A w \in Workers : job[w] # r
  /\ \A q \in Requests : r \notin request[q]

\* Seeding is the first to create free and paid rows, and a start-up finds no jobs.
FirstRows ==
  /\ order = "ARRIVING_SOON" => handoff \in {"waiting", "none", "lost"} /\ Rows = {}
  /\ handoff \in {"waiting", "push", "read", "create"} => \A r \in Free \cup Paid : status[r] = "NONE"
  /\ pc[Boot] = "list" => handoff = "none" /\ \A r \in Renders : Untouched(r)
  /\ pc[Boot] = "requeue" => handoff = "none"

Single == FirstRows /\ \A r \in Renders : OneJob(r)

\* Nobody works on a render that is locked, or has no row.
LEMMA LockedUntouched ==
  ASSUME Safe, NEW r \in Renders, ~unlocked[r] \/ status[r] = "NONE"
  PROVE  Untouched(r)
<1>1. ~unlocked[r]
  BY DEF Safe, RowsUnlocked
<1>2. pending[r] = 0 /\ r \notin todo \cup seeded /\ \A q \in Requests : r \notin request[q]
  BY <1>1 DEF Safe, WaitingUnlocked, TypeOK
<1>3. \A w \in Workers : job[w] # r
  BY <1>1, RevealAssumption DEF Safe, RunningUnlocked
<1> QED
  BY <1>2, <1>3 DEF Untouched

\* A render that nobody touches stays as it was, as does one whose places stay.
LEMMA PlacesStay ==
  ASSUME TypeOK, NEW r \in Renders, OneJob(r), UNCHANGED <<pending, todo, seeded, request>>,
         \A w \in Workers : job'[w] = r => job[w] = r
  PROVE  OneJob(r)'
BY DEF OneJob, TypeOK

\* Jobs run, end or fail; nothing is queued.
Runs ==
  \/ \E w \in Workers : MarkRunning(w) \/ ProviderAnswers(w) \/ ProviderFails(w) \/ MarkDone(w) \/ MarkFailed(w) \/ JobDbFails(w)
  \/ \E p \in Procs : CheckStep(p)

LEMMA RunsPlaces ==
  ASSUME TypeOK, Runs
  PROVE  /\ UNCHANGED <<pending, todo, seeded, request, handoff>>
         /\ \A w \in Workers : job'[w] = job[w] \/ job'[w] = None
<1>1. ASSUME NEW w \in Workers, MarkRunning(w) \/ ProviderAnswers(w) \/ ProviderFails(w)
      PROVE  UNCHANGED <<pending, todo, seeded, request, handoff, job>>
  BY <1>1 DEF MarkRunning, ProviderAnswers, ProviderFails, seeding
<1>2. ASSUME NEW w \in Workers, MarkDone(w) \/ MarkFailed(w) \/ JobDbFails(w)
      PROVE  /\ UNCHANGED <<pending, todo, seeded, request, handoff>>
             /\ job' = job \/ job' = [job EXCEPT ![w] = None]
  BY <1>2 DEF MarkDone, MarkFailed, JobDbFails, EndJob, seeding
<1>3. ASSUME NEW p \in Procs, CheckStep(p)
      PROVE  /\ UNCHANGED <<pending, todo, seeded, request, handoff>>
             /\ job' = job \/ job' = [job EXCEPT ![p] = None]
  BY <1>3 DEF CheckStep, CheckRenders, MarkRevealReady, SendRevealPush, EndCheck, EndJob, seeding
<1> QED
  BY <1>1, <1>2, <1>3 DEF Runs, TypeOK

LEMMA InitSingle == Init => Single
BY RevealAssumption DEF Init, Single, FirstRows, OneJob, Untouched, Rows, Renders, Procs

LEMMA RunsSingle ==
  ASSUME Safe, Single, Runs
  PROVE  Single'
<1>1. /\ UNCHANGED <<pending, todo, seeded, request, handoff>>
      /\ \A w \in Workers : job'[w] = job[w] \/ job'[w] = None
  BY RunsPlaces DEF Safe
<1>2. ASSUME NEW r \in Renders PROVE OneJob(r)' /\ (Untouched(r) => Untouched(r)')
  <2>1. \A w \in Workers : job'[w] = r => job[w] = r
    BY <1>1, RevealAssumption
  <2>2. OneJob(r)'
    BY <1>1, <2>1, PlacesStay DEF Safe, Single
  <2>3. Untouched(r) => Untouched(r)'
    BY <1>1, <2>1 DEF Untouched
  <2> QED
    BY <2>2, <2>3
<1>3. ASSUME NEW r \in Renders, status[r] = "NONE" PROVE status'[r] = "NONE"
  <2>1. \A w \in Workers : job[w] # r
    BY <1>3, LockedUntouched DEF Untouched
  <2>2. ASSUME NEW w \in Workers, NEW s, UpdateRender(w, s), job[w] \in Renders PROVE status'[r] = status[r]
    BY <2>1, <2>2 DEF UpdateRender, Safe, TypeOK
  <2>3. ASSUME NEW w \in Workers, MarkRunning(w) \/ MarkDone(w) \/ MarkFailed(w) PROVE status'[r] = status[r]
    <3>1. job[w] \in Renders
      BY <2>3 DEF MarkRunning, MarkDone, MarkFailed, Safe, RunningUnlocked
    <3> QED
      BY <2>2, <2>3, <3>1 DEF MarkRunning, MarkDone, MarkFailed
  <2>4. ASSUME NEW w \in Workers, ProviderAnswers(w) \/ ProviderFails(w) \/ JobDbFails(w) PROVE UNCHANGED status
    BY <2>4 DEF ProviderAnswers, ProviderFails, JobDbFails, db
  <2>5. ASSUME NEW p \in Procs, CheckStep(p) PROVE UNCHANGED status
    BY <2>5 DEF CheckStep, CheckRenders, MarkRevealReady, SendRevealPush, db
  <2> QED
    BY <1>3, <2>3, <2>4, <2>5 DEF Runs
<1>4. order' = "ARRIVING_SOON" => order = "ARRIVING_SOON"
  <2>1. ASSUME NEW w \in Workers,
               MarkRunning(w) \/ ProviderAnswers(w) \/ ProviderFails(w) \/ MarkDone(w) \/ MarkFailed(w) \/ JobDbFails(w)
        PROVE  UNCHANGED order
    BY <2>1 DEF MarkRunning, ProviderAnswers, ProviderFails, MarkDone, MarkFailed, JobDbFails, db
  <2>2. ASSUME NEW p \in Procs, CheckStep(p) PROVE order' = order \/ order' = "REVEAL_READY"
    BY <2>2 DEF CheckStep, CheckRenders, MarkRevealReady, SendRevealPush, db
  <2> QED
    BY <2>1, <2>2 DEF Runs
<1>5. pc'[Boot] \in {"list", "requeue"} => pc'[Boot] = pc[Boot]
  <2>1. ASSUME NEW w \in Workers,
               MarkRunning(w) \/ ProviderAnswers(w) \/ ProviderFails(w) \/ MarkDone(w) \/ MarkFailed(w) \/ JobDbFails(w)
        PROVE  pc'[Boot] = pc[Boot]
    BY <2>1, RevealAssumption DEF MarkRunning, ProviderAnswers, ProviderFails, MarkDone, MarkFailed, JobDbFails,
       EndJob, Goto, Safe, TypeOK, Procs
  <2>2. ASSUME NEW p \in Procs, CheckStep(p) PROVE pc'[Boot] = pc[Boot] \/ pc'[Boot] \in {"cas", "push", "up"}
    BY <2>2, RevealAssumption DEF CheckStep, CheckRenders, MarkRevealReady, SendRevealPush, EndCheck, EndJob, Goto,
       Safe, TypeOK, Procs
  <2> QED
    BY <2>1, <2>2 DEF Runs
<1>6. FirstRows'
  <2>1. order' = "ARRIVING_SOON" => handoff' \in {"waiting", "none", "lost"} /\ Rows' = {}
    BY <1>1, <1>3, <1>4 DEF Single, FirstRows, Rows
  <2>2. handoff' \in {"waiting", "push", "read", "create"} => \A r \in Free \cup Paid : status'[r] = "NONE"
    BY <1>1, <1>3 DEF Single, FirstRows, Renders
  <2>3. pc'[Boot] = "list" => handoff' = "none" /\ \A r \in Renders : Untouched(r)'
    BY <1>1, <1>2, <1>5 DEF Single, FirstRows
  <2>4. pc'[Boot] = "requeue" => handoff' = "none"
    BY <1>1, <1>5 DEF Single, FirstRows
  <2> QED
    BY <2>1, <2>2, <2>3, <2>4 DEF FirstRows
<1> QED
  BY <1>2, <1>6 DEF Single

\* The hand-over of a delivered order
LEMMA SeedingSingle ==
  ASSUME Safe, Single, Deliver \/ SeedStep \/ SeedFails
  PROVE  Single'
<1>t. TypeOK
  BY DEF Safe
<1>0. ASSUME UNCHANGED <<pending, todo, seeded, request, job, pc, status>>, handoff # "none",
             order' = "ARRIVING_SOON" => order = "ARRIVING_SOON" /\ handoff' = "lost",
             handoff' \in {"waiting", "push", "read", "create"} =>
               order = "ARRIVING_SOON" \/ handoff \in {"waiting", "push", "read", "create"}
      PROVE  Single'
  <2>1. \A r \in Renders : OneJob(r)'
    BY <1>0, <1>t, PlacesStay DEF Single
  <2>2. FirstRows'
    BY <1>0 DEF Single, FirstRows, Rows, Renders
  <2> QED
    BY <2>1, <2>2 DEF Single
<1>1. CASE Deliver \/ SendDeliveredPush \/ SeedFails
  BY <1>0, <1>1 DEF Deliver, SendDeliveredPush, SeedFails, db, work, Single, FirstRows
<1>2. CASE SeedRead
  <2>1. {r \in Free : status[r] = "QUEUED"} = {}
    BY <1>2 DEF SeedRead, Single, FirstRows
  <2>2. CASE Rows # {}
    <3>1. /\ UNCHANGED <<pending, todo, request, job, pc, status, order>> /\ seeded' = {} /\ handoff' = "enqueue"
          /\ handoff = "read"
      BY <1>2, <2>1, <2>2 DEF SeedRead, db, work
    <3>2. \A r \in Renders : OneJob(r)'
      BY <3>1, <1>t DEF OneJob, Single
    <3>3. FirstRows'
      BY <3>1 DEF Single, FirstRows, Rows
    <3> QED
      BY <3>2, <3>3 DEF Single
  <2>3. CASE Rows = {}
    BY <1>0, <1>2, <2>3 DEF SeedRead, db, work, Single, FirstRows
  <2> QED
    BY <2>2, <2>3
<1>3. CASE SeedCreate
  <2>1. /\ UNCHANGED <<pending, todo, request, job, pc, order>> /\ seeded' = Free /\ handoff' = "enqueue"
        /\ handoff = "create"
    BY <1>3 DEF SeedCreate, work
  <2>2. \A r \in Free : status[r] = "NONE" /\ r \in Renders
    BY <2>1 DEF Single, FirstRows, Renders
  <2>3. \A r \in Free : Untouched(r)
    BY <2>2, LockedUntouched
  <2>4. ASSUME NEW r \in Renders PROVE OneJob(r)'
    <3>1. CASE r \in Free
      BY <2>1, <2>3, <3>1, <1>t DEF OneJob, Untouched
    <3>2. CASE r \notin Free
      BY <2>1, <3>2, <1>t DEF OneJob, Single
    <3> QED
      BY <3>1, <3>2
  <2>5. FirstRows'
    BY <2>1 DEF Single, FirstRows
  <2> QED
    BY <2>4, <2>5 DEF Single
<1>4. CASE SeedEnqueue
  <2>1. /\ UNCHANGED <<todo, request, job, pc, status, order>> /\ seeded' = {} /\ handoff' = "done" /\ handoff = "enqueue"
        /\ pending' = [r \in Renders |-> IF r \in seeded THEN pending[r] + 1 ELSE pending[r]]
    BY <1>4 DEF SeedEnqueue, Queue, db, work
  <2>2. ASSUME NEW r \in Renders PROVE OneJob(r)'
    <3>1. OneJob(r) /\ pending[r] \in Nat /\ pending'[r] = IF r \in seeded THEN pending[r] + 1 ELSE pending[r]
      BY <2>1, <1>t DEF Single, TypeOK
    <3>2. CASE r \in seeded
      <4>1. pending'[r] = 1 /\ r \notin todo /\ (\A w \in Workers : job[w] # r) /\ \A q \in Requests : r \notin request[q]
        BY <3>1, <3>2 DEF OneJob
      <4> QED
        BY <2>1, <4>1 DEF OneJob
    <3>3. CASE r \notin seeded
      BY <2>1, <3>1, <3>3 DEF OneJob
    <3> QED
      BY <3>2, <3>3
  <2>3. FirstRows'
    BY <2>1 DEF Single, FirstRows, Rows
  <2> QED
    BY <2>2, <2>3 DEF Single
<1> QED
  BY <1>1, <1>2, <1>3, <1>4 DEF SeedStep

\* The customer's requests
LEMMA RequestsSingle ==
  ASSUME Safe, Single, NEW q \in Requests,
         \/ \E key \in Keys \cup {None}, R \in SUBSET Paid : Unlock(q, key, R)
         \/ \E g \in Extra : Generate(q, g)
         \/ EnqueueRequested(q)
  PROVE  Single'
<1>t. TypeOK
  BY DEF Safe
<1>0. ASSUME NEW S \in SUBSET Renders, \A r \in S : Untouched(r), request' = [request EXCEPT ![q] = S], request[q] = {},
             UNCHANGED <<pending, todo, seeded, job>>, NEW r \in Renders
      PROVE  OneJob(r)'
  <2>1. request'[q] = S /\ \A p \in Requests \ {q} : request'[p] = request[p]
    BY <1>0, <1>t DEF TypeOK
  <2>2. CASE r \in S
    BY <1>0, <1>t, <2>1, <2>2 DEF OneJob, Untouched
  <2>3. CASE r \notin S
    BY <1>0, <1>t, <2>1, <2>3 DEF OneJob, Single
  <2> QED
    BY <2>2, <2>3
<1>1. ASSUME NEW key \in Keys \cup {None}, NEW R \in SUBSET Paid, Unlock(q, key, R) PROVE Single'
  <2> DEFINE S == {r \in ToFlip(R) : status[r] = "QUEUED"}
  <2>1. S \in SUBSET Renders /\ \A r \in S : ~unlocked[r]
    BY DEF ToFlip, Renders
  <2>2. \A r \in S : Untouched(r)
    BY <2>1, LockedUntouched
  <2>3. /\ request' = [request EXCEPT ![q] = S] /\ request[q] = {} /\ pc[Boot] = "up"
        /\ UNCHANGED <<pending, todo, seeded, job, pc, status, order, handoff>>
    BY <1>1 DEF Unlock, Serving, seeding, work
  <2> HIDE DEF S
  <2>4. \A r \in Renders : OneJob(r)'
    BY <1>0, <2>1, <2>2, <2>3
  <2>5. FirstRows'
    BY <2>3 DEF Single, FirstRows, Rows
  <2> QED
    BY <2>4, <2>5 DEF Single
<1>2. ASSUME NEW g \in Extra, Generate(q, g) PROVE Single'
  <2>1. g \in Renders /\ status[g] = "NONE"
    BY <1>2 DEF Generate, Bought, Safe, ChargedOnceForWhatIsUnlocked, Renders, Rows
  <2>2. Untouched(g)
    BY <2>1, LockedUntouched
  <2>3. /\ request' = [request EXCEPT ![q] = {g}] /\ request[q] = {} /\ pc[Boot] = "up"
        /\ UNCHANGED <<pending, todo, seeded, job, pc, order, handoff>> /\ order # "ARRIVING_SOON"
        /\ status' = [status EXCEPT ![g] = "QUEUED"]
    BY <1>2 DEF Generate, Serving, RevealOpen, seeding, work
  <2>4. \A r \in Renders : OneJob(r)'
    BY <1>0, <2>1, <2>2, <2>3
  <2>5. \A r \in Free \cup Paid : status'[r] = status[r]
    BY <2>3, <1>t, RevealAssumption DEF TypeOK, Renders
  <2>6. FirstRows'
    BY <2>3, <2>5 DEF Single, FirstRows
  <2> QED
    BY <2>4, <2>6 DEF Single
<1>3. CASE EnqueueRequested(q)
  <2>1. /\ UNCHANGED <<todo, seeded, job, pc, status, order, handoff>> /\ request[q] # {}
        /\ request' = [request EXCEPT ![q] = {}]
        /\ pending' = [r \in Renders |-> IF r \in request[q] THEN pending[r] + 1 ELSE pending[r]]
    BY <1>3 DEF EnqueueRequested, Queue, db, seeding, work
  <2>2. request'[q] = {} /\ (\A p \in Requests \ {q} : request'[p] = request[p]) /\ request[q] \subseteq Renders
    BY <2>1, <1>t DEF TypeOK, Renders
  <2>3. ASSUME NEW r \in Renders PROVE OneJob(r)'
    <3>1. OneJob(r) /\ pending[r] \in Nat /\ pending'[r] = IF r \in request[q] THEN pending[r] + 1 ELSE pending[r]
      BY <2>1, <1>t DEF Single, TypeOK
    <3>2. CASE r \in request[q]
      <4>1. /\ pending'[r] = 1 /\ r \notin todo \cup seeded /\ (\A w \in Workers : job[w] # r)
            /\ \A p \in Requests \ {q} : r \notin request[p]
        BY <3>1, <3>2 DEF OneJob
      <4> QED
        BY <2>1, <2>2, <4>1 DEF OneJob
    <3>3. CASE r \notin request[q]
      BY <2>1, <2>2, <3>1, <3>3 DEF OneJob
    <3> QED
      BY <3>2, <3>3
  <2>4. pc[Boot] # "list"
    BY <2>1, <2>2 DEF Single, FirstRows, Untouched
  <2>5. FirstRows'
    BY <2>1, <2>4 DEF Single, FirstRows, Rows
  <2> QED
    BY <2>3, <2>5 DEF Single
<1> QED
  BY <1>1, <1>2, <1>3

LEMMA StartsSingle ==
  ASSUME Safe, Single, NEW w \in Workers, NEW r \in Renders, StartJob(w, r)
  PROVE  Single'
<1>t. TypeOK
  BY DEF Safe
<1>1. /\ UNCHANGED <<todo, seeded, request, status, order, handoff>> /\ pending[r] = 1 /\ pending'[r] = 0
      /\ \A x \in Renders \ {r} : pending'[x] = pending[x]
      /\ pc[w] = "idle" /\ job[w] = None
      /\ job' = job \/ job' = [job EXCEPT ![w] = r]
  BY <1>t, RevealAssumption DEF StartJob, db, seeding, work, TypeOK, Single, OneJob, Safe, RunningUnlocked, JobStages
<1>2. \A v \in Workers : job[v] # r
  BY <1>1 DEF Single, OneJob
<1>3. job'[w] \in {None, r} /\ \A v \in Workers \ {w} : job'[v] = job[v]
  BY <1>1, <1>t DEF TypeOK
<1>4. ASSUME NEW x \in Renders PROVE OneJob(x)'
  <2>1. CASE x = r
    BY <1>1, <1>2, <1>3, <2>1, RevealAssumption DEF Single, OneJob
  <2>2. CASE x # r
    <3>1. \A v \in Workers : job'[v] = x => job[v] = x
      BY <1>3, <2>2, RevealAssumption
    <3> QED
      BY <1>1, <2>2, <3>1 DEF Single, OneJob
  <2> QED
    BY <2>1, <2>2
<1>5. pc[Boot] # "list"
  BY <1>1 DEF Single, FirstRows, Untouched
<1>6. pc'[Boot] = pc[Boot]
  BY <1>t, RevealAssumption DEF StartJob, work, Goto, TypeOK, Procs
<1>7. FirstRows'
  BY <1>1, <1>5, <1>6 DEF Single, FirstRows, Rows
<1> QED
  BY <1>4, <1>7 DEF Single

\* A crash drops everything; the start-up takes each row up once.
LEMMA StartUpSingle ==
  ASSUME Safe, Single, Restart \/ BootStep \/ ResumeFails
  PROVE  Single'
<1>t. TypeOK /\ pc \in [Procs -> Stages] /\ Boot \in Procs
  BY DEF Safe, TypeOK, Procs
<1>1. CASE Restart
  <2>1. \A r \in Renders : Untouched(r)'
    BY <1>1, RevealAssumption DEF Restart, Untouched
  <2>2. \A r \in Renders : OneJob(r)'
    BY <2>1 DEF OneJob, Untouched
  <2>3. FirstRows'
    BY <1>1, <2>1 DEF Restart, db, Single, FirstRows, Rows
  <2> QED
    BY <2>2, <2>3 DEF Single
<1>2. CASE ListPendingRenders
  <2>1. /\ UNCHANGED <<pending, seeded, request, job, status, order, handoff>> /\ todo' \subseteq Renders
        /\ pc[Boot] = "list" /\ pc'[Boot] = "requeue"
    BY <1>2, <1>t DEF ListPendingRenders, Resumable, Goto, db, seeding
  <2>2. handoff = "none" /\ \A r \in Renders : Untouched(r)
    BY <2>1 DEF Single, FirstRows
  <2>3. \A r \in Renders : OneJob(r)'
    BY <2>1, <2>2 DEF Untouched, OneJob
  <2>4. FirstRows'
    BY <2>1, <2>2 DEF Single, FirstRows, Rows
  <2> QED
    BY <2>3, <2>4 DEF Single
<1>3. ASSUME NEW x \in Renders, Requeue(x) PROVE Single'
  <2>1. /\ UNCHANGED <<seeded, request, job, pc, order, handoff>> /\ todo' = todo \ {x} /\ x \in todo
        /\ pc[Boot] = "requeue" /\ status' = [status EXCEPT ![x] = "QUEUED"]
        /\ pending' = [r \in Renders |-> IF r \in {x} THEN pending[r] + 1 ELSE pending[r]]
    BY <1>3 DEF Requeue, Queue, seeding, work
  <2>2. ASSUME NEW r \in Renders PROVE OneJob(r)'
    <3>1. OneJob(r) /\ pending[r] \in Nat /\ pending'[r] = IF r = x THEN pending[r] + 1 ELSE pending[r]
      BY <2>1, <1>t DEF Single, TypeOK
    <3>2. CASE r = x
      <4>1. /\ pending'[r] = 1 /\ r \notin todo' \cup seeded /\ (\A w \in Workers : job[w] # r)
            /\ \A p \in Requests : r \notin request[p]
        BY <2>1, <3>1, <3>2 DEF OneJob
      <4> QED
        BY <2>1, <4>1 DEF OneJob
    <3>3. CASE r # x
      BY <2>1, <3>1, <3>3 DEF OneJob
    <3> QED
      BY <3>2, <3>3
  <2>3. order # "ARRIVING_SOON"
    <3>1. status[x] # "NONE"
      BY <2>1, LockedUntouched DEF Untouched
    <3> QED
      BY <3>1 DEF Single, FirstRows, Rows
  <2>4. handoff = "none"
    BY <2>1 DEF Single, FirstRows
  <2>5. FirstRows'
    BY <2>1, <2>3, <2>4 DEF FirstRows
  <2> QED
    BY <2>2, <2>5 DEF Single
<1>4. CASE ResumeOrder
  <2>1. /\ UNCHANGED <<seeded, pending, job, request, todo, status, order>>
        /\ \/ order = "ARRIVING_SOON" /\ handoff' = "waiting" /\ pc'[Boot] = "up"
           \/ order = "DELIVERED" /\ Rows = {} /\ handoff' = "read" /\ pc'[Boot] = "up"
           \/ order # "ARRIVING_SOON" /\ handoff' = "done" /\ pc'[Boot] \in {"check", "up"}
    BY <1>4, <1>t DEF ResumeOrder, ResumeSeeded, Goto, db
  <2>2. \A r \in Renders : OneJob(r)'
    BY <2>1, <1>t, PlacesStay DEF Single
  <2>3. FirstRows'
    BY <2>1 DEF Single, FirstRows, Rows, Renders
  <2> QED
    BY <2>2, <2>3 DEF Single
<1>5. CASE ResumeFails
  <2>1. /\ UNCHANGED <<seeded, pending, job, request, status, order>> /\ todo' = {} /\ pc'[Boot] = "up"
        /\ handoff' = IF handoff = "none" THEN "lost" ELSE handoff
    BY <1>5, <1>t DEF ResumeFails, Goto, db
  <2>2. \A r \in Renders : OneJob(r)'
    BY <2>1 DEF Single, OneJob
  <2>3. FirstRows'
    BY <2>1 DEF Single, FirstRows, Rows
  <2> QED
    BY <2>2, <2>3 DEF Single
<1> QED
  BY <1>1, <1>2, <1>3, <1>4, <1>5 DEF BootStep

LEMMA NextSingle == Safe /\ Single /\ [Next]_vars => Single'
<1> SUFFICES ASSUME Safe, Single, [Next]_vars PROVE Single'
  OBVIOUS
<1>1. CASE UNCHANGED vars
  BY <1>1 DEF vars, db, coins, seeding, work, Single, FirstRows, OneJob, Untouched, Rows
<1>2. CASE Next
  BY <1>2, RunsSingle, SeedingSingle, RequestsSingle, StartsSingle, StartUpSingle DEF Next, JobStep, Runs
<1> QED
  BY <1>1, <1>2

(***************************************************************************)
(* The provider is not paid twice for one image: a render never has two    *)
(* jobs, waiting or running, for any number of workers, requests, restarts *)
(* and errors (resume.ts, "aren't queued twice").                          *)
(***************************************************************************)
THEOREM NoSecondJob == Spec => []OneJobPerRender
<1>1. ASSUME Safe, Single PROVE OneJobPerRender
  <2> SUFFICES ASSUME NEW r \in Renders PROVE JobsFor(r) <= 1
    BY DEF OneJobPerRender
  <2> DEFINE J == {w \in Workers : job[w] = r}
  <2>1. OneJob(r) /\ pending[r] \in Nat
    BY <1>1 DEF Single, Safe, TypeOK
  <2>2. CASE J = {}
    <3>1. Cardinality(J) = 0
      BY <2>2, FS_EmptySet
    <3> QED
      BY <2>1, <3>1 DEF JobsFor, OneJob
  <2>3. CASE J # {}
    <3>1. PICK w \in Workers : job[w] = r
      BY <2>3
    <3>2. J = {w} /\ pending[r] = 0
      BY <2>1, <3>1 DEF OneJob
    <3>3. Cardinality(J) = 1
      BY <3>2, FS_Singleton
    <3> QED
      BY <3>2, <3>3 DEF JobsFor
  <2> QED
    BY <2>2, <2>3
<1> QED
  BY <1>1, InitSafe, NextSafe, InitSingle, NextSingle, PTL DEF Spec
--------------------------------------------------------------------------------
(***************************************************************************)
(* RevealReadyMeansFreeDone holds until the first database error: then a   *)
(* free render that is done stays done.  Nobody is left who would write    *)
(* another status over it: a job at work belongs to a render that is not   *)
(* done, and is the only one (OneJob); the start-up takes up none that is. *)
(* The check of the rows is a check of all free renders, because seeding   *)
(* creates them together.                                                  *)
(***************************************************************************)
\* The stages at which a job is about to write a status
Busy == {"mark", "generating", "done", "fail"}

Finished ==
  /\ \A w \in Workers : pc[w] \in Busy => status[job[w]] # "DONE"
  /\ \A r \in todo : status[r] # "DONE"
  /\ \A r, s \in Free : status[r] # "NONE" => status[s] # "NONE"
  /\ order = "REVEAL_READY" \/ (\E p \in Procs : pc[p] = "cas") => \A r \in Free : status[r] = "DONE"

\* Steps that write no status
LEMMA QuietFinished ==
  ASSUME Safe, Finished, status' = status, order' = "REVEAL_READY" => order = "REVEAL_READY",
         todo' \subseteq todo,
         \A w \in Workers : pc'[w] \in Busy => pc[w] \in Busy /\ job'[w] = job[w],
         \A p \in Procs : pc'[p] = "cas" => pc[p] = "cas"
  PROVE  Finished'
BY DEF Finished

\* A job writes a status.
LEMMA WriteFinished ==
  ASSUME Safe, Single, Finished, NEW w \in Workers, pc[w] \in Busy,
         NEW s \in {"RUNNING", "DONE", "FAILED"}, status' = [status EXCEPT ![job[w]] = s],
         order' = order, todo' = todo,
         \A v \in Workers \ {w} : job'[v] = job[v],
         \A p \in Procs \ {w} : pc'[p] = pc[p],
         \/ s = "RUNNING" /\ pc'[w] = "generating" /\ job'[w] = job[w]
         \/ pc'[w] \in {"check", "idle"}
  PROVE  Finished'
<1>1. PICK r \in Renders : r = job[w]
  BY DEF Safe, RunningUnlocked, JobStages, Busy
<1>2. /\ OneJob(r) /\ status[r] # "DONE" /\ status[r] # "NONE"
      /\ status \in [Renders -> Statuses]
  BY <1>1 DEF Single, Finished, Safe, TypeOK, RunningUnlocked, RowsUnlocked, Busy
<1>3. status'[r] = s /\ \A x \in Renders \ {r} : status'[x] = status[x]
  BY <1>1, <1>2
<1>4. ASSUME NEW v \in Workers, pc'[v] \in Busy PROVE status'[job'[v]] # "DONE"
  <2>1. CASE v = w
    BY <1>1, <1>3, <1>4, <2>1 DEF Busy
  <2>2. CASE v # w
    <3>1. pc[v] \in Busy /\ job'[v] = job[v] /\ job[v] # r
      BY <1>1, <1>2, <1>4, <2>2 DEF OneJob, Procs
    <3>2. job[v] \in Renders
      BY <3>1 DEF Safe, RunningUnlocked, Busy, JobStages
    <3> QED
      BY <1>3, <3>1, <3>2 DEF Finished
  <2> QED
    BY <2>1, <2>2
<1>5. \A x \in todo' : status'[x] # "DONE"
  <2>1. r \notin todo /\ todo \subseteq Renders
    BY <1>1, <1>2 DEF OneJob, Safe, TypeOK
  <2> QED
    BY <1>3, <2>1 DEF Finished
<1>6. \A x \in Renders : status'[x] = "NONE" <=> status[x] = "NONE"
  BY <1>2, <1>3
<1>7. \A x, y \in Free : status'[x] # "NONE" => status'[y] # "NONE"
  BY <1>6 DEF Finished, Renders
<1>8. ASSUME order' = "REVEAL_READY" \/ \E p \in Procs : pc'[p] = "cas", NEW x \in Free
      PROVE  status'[x] = "DONE"
  <2>1. \A y \in Free : status[y] = "DONE"
    BY <1>8 DEF Finished, Busy
  <2>2. x # r /\ x \in Renders
    BY <1>2, <2>1 DEF Renders
  <2> QED
    BY <1>3, <2>1, <2>2
<1> QED
  BY <1>4, <1>5, <1>7, <1>8 DEF Finished

LEMMA JobFinished ==
  ASSUME Safe, Single, Finished, NEW w \in Workers, JobStep(w)
  PROVE  Finished'
<1>1. /\ pc \in [Procs -> Stages] /\ job \in [Workers -> Renders \cup {None}]
      /\ w \in Procs /\ status \in [Renders -> Statuses]
  BY DEF Safe, TypeOK, Procs
<1>2. ASSUME NEW r \in Renders, StartJob(w, r) PROVE Finished'
  <2>1. status' = status /\ order' = order /\ todo' = todo
    BY <1>2 DEF StartJob, db
  <2>2. CASE UNCHANGED <<pc, job>>
    BY <2>1, <2>2, QuietFinished
  <2>3. CASE status[r] # "DONE" /\ job' = [job EXCEPT ![w] = r] /\ pc' = [pc EXCEPT ![w] = "mark"]
    <3>1. /\ job'[w] = r /\ \A v \in Workers \ {w} : job'[v] = job[v]
          /\ pc'[w] = "mark" /\ \A p \in Procs \ {w} : pc'[p] = pc[p]
      BY <1>1, <2>3
    <3> QED
      BY <2>1, <2>3, <3>1 DEF Finished, Procs
  <2> QED
    BY <1>2, <2>2, <2>3 DEF StartJob, Goto, work
<1>3. CASE MarkRunning(w)
  BY <1>1, <1>3, WriteFinished DEF MarkRunning, UpdateRender, Goto, Busy
<1>4. CASE ProviderAnswers(w) \/ ProviderFails(w)
  <2>1. /\ UNCHANGED <<status, order, todo, job>> /\ pc[w] = "generating" /\ pc'[w] \in {"done", "fail"}
        /\ \A p \in Procs \ {w} : pc'[p] = pc[p]
    BY <1>1, <1>4 DEF ProviderAnswers, ProviderFails, Goto, db
  <2> QED
    BY <2>1, QuietFinished DEF Busy, Procs
<1>5. CASE MarkDone(w) \/ MarkFailed(w)
  <2>1. PICK s \in {"DONE", "FAILED"} : status' = [status EXCEPT ![job[w]] = s]
    BY <1>5 DEF MarkDone, MarkFailed, UpdateRender
  <2>2. PICK label \in {"check", "idle"} : pc' = [pc EXCEPT ![w] = label]
    BY <1>5 DEF MarkDone, MarkFailed, EndJob, Goto
  <2>3. job' = job \/ job' = [job EXCEPT ![w] = None]
    BY <1>5 DEF MarkDone, MarkFailed, EndJob
  <2>4. pc[w] \in Busy /\ order' = order /\ todo' = todo
    BY <1>5 DEF MarkDone, MarkFailed, Busy
  <2>5. /\ pc'[w] \in {"check", "idle"} /\ \A p \in Procs \ {w} : pc'[p] = pc[p]
        /\ \A v \in Workers \ {w} : job'[v] = job[v]
    BY <1>1, <2>2, <2>3
  <2> QED
    BY <2>1, <2>4, <2>5, WriteFinished
<1> QED
  BY <1>2, <1>3, <1>4, <1>5 DEF JobStep

\* The check, the compare-and-set and the push
LEMMA CheckFinished ==
  ASSUME Safe, Finished, NEW p \in Procs, CheckStep(p)
  PROVE  Finished'
<1>1. /\ pc \in [Procs -> Stages] /\ job \in [Workers -> Renders \cup {None}]
      /\ Boot \notin Workers /\ p \in Procs
  BY RevealAssumption DEF Safe, TypeOK
<1>2. status' = status /\ todo' = todo /\ pc[p] \notin Busy
  BY DEF CheckStep, CheckRenders, MarkRevealReady, SendRevealPush, db, Busy
<1>3. PICK label \in {"cas", "push", "up", "idle"} : pc' = [pc EXCEPT ![p] = label]
  BY DEF CheckStep, CheckRenders, MarkRevealReady, SendRevealPush, EndCheck, EndJob, Goto
<1>4. job' = job \/ job' = [job EXCEPT ![p] = None]
  BY DEF CheckStep, CheckRenders, MarkRevealReady, SendRevealPush, EndCheck, EndJob
<1>5. /\ pc'[p] = label /\ \A q \in Procs \ {p} : pc'[q] = pc[q]
      /\ \A w \in Workers \ {p} : job'[w] = job[w]
  BY <1>1, <1>3, <1>4
<1>6. \A w \in Workers : pc'[w] \in Busy => pc[w] \in Busy /\ job'[w] = job[w]
  BY <1>5 DEF Busy, Procs
<1>7. CASE CheckRenders(p) /\ label = "cas"
  <2>1. AllFreeDone /\ order' = order
    BY <1>5, <1>7, <1>1 DEF CheckRenders, EndCheck, EndJob, Goto, db
  <2>2. \A r \in Free : status[r] = "DONE"
    <3>1. PICK s \in Free : status[s] # "NONE"
      BY <2>1 DEF AllFreeDone, Rows
    <3>2. \A r \in Free : r \in Rows \cap Free
      BY <3>1 DEF Finished, Rows, Renders
    <3> QED
      BY <2>1, <3>2 DEF AllFreeDone
  <2> QED
    BY <1>2, <1>6, <2>1, <2>2 DEF Finished
<1>8. CASE MarkRevealReady(p)
  <2>1. \A r \in Free : status[r] = "DONE"
    BY <1>8 DEF MarkRevealReady, Finished
  <2> QED
    BY <1>2, <1>6, <2>1 DEF Finished
<1>9. CASE (CheckRenders(p) \/ SendRevealPush(p)) /\ label # "cas"
  <2>1. order' = order
    BY <1>9 DEF CheckRenders, SendRevealPush, db
  <2> QED
    BY <1>2, <1>5, <1>6, <1>9, <2>1, QuietFinished
<1>10. SendRevealPush(p) => label # "cas"
  BY <1>1, <1>5 DEF SendRevealPush, EndCheck, EndJob, Goto
<1> QED
  BY <1>7, <1>8, <1>9, <1>10 DEF CheckStep

LEMMA SeedFinished ==
  ASSUME Safe, Single, Finished, Deliver \/ SeedStep
  PROVE  Finished'
<1>1. CASE Deliver \/ SendDeliveredPush \/ SeedRead \/ SeedEnqueue
  <2>1. /\ UNCHANGED <<status, todo, pc, job>>
        /\ order' = "REVEAL_READY" => order = "REVEAL_READY"
    BY <1>1 DEF Deliver, SendDeliveredPush, SeedRead, SeedEnqueue, db, work
  <2> QED
    BY <2>1, QuietFinished
<1>2. CASE SeedCreate
  <2>1. /\ UNCHANGED <<order, todo, pc, job>>
        /\ status' = [r \in Renders |-> IF r \in Free \cup Paid THEN "QUEUED" ELSE status[r]]
    BY <1>2 DEF SeedCreate, work
  <2>2. \A r \in Free \cup Paid : status[r] = "NONE"
    BY <1>2 DEF SeedCreate, Safe, SeedingCreates
  <2>3. \A r \in Renders : status'[r] = "DONE" => status[r] = "DONE"
    BY <2>1
  <2>4. \A r \in Free : r \in Renders /\ status'[r] = "QUEUED"
    BY <2>1 DEF Renders
  <2>5. \A w \in Workers : pc[w] \in Busy => job[w] \in Renders
    BY DEF Safe, RunningUnlocked, Busy, JobStages
  <2>6. todo \subseteq Renders
    BY DEF Safe, TypeOK
  <2>7. order = "REVEAL_READY" \/ (\E p \in Procs : pc[p] = "cas") => Free = {}
    BY <2>2 DEF Finished
  <2> QED
    BY <2>1, <2>3, <2>4, <2>5, <2>6, <2>7 DEF Finished
<1> QED
  BY <1>1, <1>2 DEF SeedStep

LEMMA RequestFinished ==
  ASSUME Safe, Finished, NEW q \in Requests,
         \/ \E key \in Keys \cup {None}, R \in SUBSET Paid : Unlock(q, key, R)
         \/ \E g \in Extra : Generate(q, g)
         \/ EnqueueRequested(q)
  PROVE  Finished'
<1>1. CASE (\E key \in Keys \cup {None}, R \in SUBSET Paid : Unlock(q, key, R)) \/ EnqueueRequested(q)
  <2>1. UNCHANGED <<status, order, todo, pc, job>>
    BY <1>1 DEF Unlock, EnqueueRequested, db, work
  <2> QED
    BY <2>1, QuietFinished
<1>2. ASSUME NEW g \in Extra, Generate(q, g) PROVE Finished'
  <2>1. UNCHANGED <<order, todo, pc, job>> /\ status' = [status EXCEPT ![g] = "QUEUED"]
    BY <1>2 DEF Generate, work
  <2>2. /\ \A r \in Renders : status'[r] = "DONE" => status[r] = "DONE"
        /\ \A r \in Free : status'[r] = status[r]
    BY <2>1, RevealAssumption DEF Safe, TypeOK, Renders
  <2>3. /\ \A w \in Workers : pc[w] \in Busy => job[w] \in Renders
        /\ todo \subseteq Renders
    BY DEF Safe, TypeOK, RunningUnlocked, Busy, JobStages
  <2> QED
    BY <2>1, <2>2, <2>3 DEF Finished
<1> QED
  BY <1>1, <1>2

LEMMA StartUpFinished ==
  ASSUME Safe, Single, Finished, Restart \/ BootStep
  PROVE  Finished'
<1>1. /\ pc \in [Procs -> Stages] /\ Boot \in Procs /\ Boot \notin Workers /\ Workers \subseteq Procs
      /\ status \in [Renders -> Statuses] /\ todo \subseteq Renders
  BY RevealAssumption DEF Safe, TypeOK, Procs
<1>2. CASE Restart
  <2>1. /\ status' = status /\ order' = order /\ todo' = {}
        /\ \A p \in Procs : pc'[p] \in {"list", "idle"}
    BY <1>2 DEF Restart, db
  <2> QED
    BY <1>1, <2>1, QuietFinished DEF Busy
<1>3. CASE ListPendingRenders
  <2>1. /\ UNCHANGED <<status, order, job>> /\ todo' = Resumable
        /\ pc'[Boot] = "requeue" /\ \A p \in Procs \ {Boot} : pc'[p] = pc[p]
    BY <1>1, <1>3 DEF ListPendingRenders, Goto, db
  <2>2. \A r \in Resumable : status[r] # "DONE"
    BY DEF Resumable
  <2> QED
    BY <1>1, <2>1, <2>2 DEF Finished
<1>4. ASSUME NEW r \in Renders, Requeue(r) PROVE Finished'
  <2>1. /\ UNCHANGED <<order, pc, job>> /\ todo' \subseteq todo /\ r \in todo
        /\ status' = [status EXCEPT ![r] = "QUEUED"]
    BY <1>4 DEF Requeue, work
  <2>2. /\ status'[r] = "QUEUED" /\ status[r] # "DONE" /\ status[r] # "NONE"
        /\ \A x \in Renders \ {r} : status'[x] = status[x]
    BY <1>1, <2>1 DEF Finished, Safe, WaitingUnlocked, RowsUnlocked
  <2>3. \A w \in Workers : pc[w] \in Busy => job[w] \in Renders
    BY DEF Safe, RunningUnlocked, Busy, JobStages
  <2>4. /\ \A x \in Renders : status'[x] = "DONE" <=> status[x] = "DONE"
        /\ \A x \in Renders : status'[x] = "NONE" <=> status[x] = "NONE"
    BY <2>2
  <2> QED
    BY <1>1, <2>1, <2>3, <2>4 DEF Finished, Renders
<1>5. CASE ResumeOrder
  <2>1. /\ UNCHANGED <<status, order, job, todo>>
        /\ pc'[Boot] \in {"up", "check"} /\ \A p \in Procs \ {Boot} : pc'[p] = pc[p]
    BY <1>1, <1>5 DEF ResumeOrder, ResumeSeeded, Goto, db
  <2> QED
    BY <1>1, <2>1, QuietFinished
<1> QED
  BY <1>2, <1>3, <1>4, <1>5 DEF BootStep

LEMMA InitFinished == Init => Finished
BY RevealAssumption DEF Init, Finished, Busy, Renders, Procs

LEMMA NextFinished ==
  ASSUME Safe, Single, failures = 0 => Finished, [Next]_vars
  PROVE  failures' = 0 => Finished'
<1>1. CASE SeedFails \/ (\E w \in Workers : JobDbFails(w)) \/ ResumeFails
  BY <1>1 DEF SeedFails, JobDbFails, ResumeFails, Safe, TypeOK
<1>2. CASE \/ Deliver \/ SeedStep \/ Restart \/ BootStep
           \/ \E w \in Workers : JobStep(w)
           \/ \E p \in Procs : CheckStep(p)
           \/ \E q \in Requests : \/ \E key \in Keys \cup {None}, R \in SUBSET Paid : Unlock(q, key, R)
                                  \/ \E g \in Extra : Generate(q, g)
                                  \/ EnqueueRequested(q)
  <2>1. failures' = failures
    <3>1. CASE Deliver \/ SeedStep \/ Restart \/ BootStep
      BY <3>1 DEF Deliver, SeedStep, SendDeliveredPush, SeedRead, SeedCreate, SeedEnqueue, Restart,
                  BootStep, ListPendingRenders, Requeue, ResumeOrder, bounds
    <3>2. ASSUME NEW w \in Workers, JobStep(w) PROVE failures' = failures
      BY <3>2 DEF JobStep, StartJob, MarkRunning, ProviderAnswers, ProviderFails, MarkDone, MarkFailed, bounds
    <3>3. ASSUME NEW p \in Procs, CheckStep(p) PROVE failures' = failures
      BY <3>3 DEF CheckStep, CheckRenders, MarkRevealReady, SendRevealPush, bounds
    <3>4. ASSUME NEW q \in Requests,
                 \/ \E key \in Keys \cup {None}, R \in SUBSET Paid : Unlock(q, key, R)
                 \/ \E g \in Extra : Generate(q, g)
                 \/ EnqueueRequested(q)
          PROVE  failures' = failures
      BY <3>4 DEF Unlock, Generate, EnqueueRequested, bounds
    <3> QED
      BY <1>2, <3>1, <3>2, <3>3, <3>4
  <2> QED
    BY <1>2, <2>1, SeedFinished, StartUpFinished, JobFinished, CheckFinished, RequestFinished
<1>3. CASE UNCHANGED vars
  <2>1. UNCHANGED <<status, order, todo, pc, job, failures>>
    BY <1>3 DEF vars, db, work, bounds
  <2> QED
    BY <2>1, QuietFinished
<1> QED
  BY <1>1, <1>2, <1>3 DEF Next

(***************************************************************************)
(* A reveal that is ready has all its free renders DONE, through any       *)
(* restarts and provider failures, as long as the database made no error:  *)
(* after one, the run reveal_failed_done shows a job in the catch block    *)
(* that marks a finished render FAILED.                                    *)
(***************************************************************************)
THEOREM ReadyMeansDone == Spec => [](failures = 0 => RevealReadyMeansFreeDone)
<1>1. Init => (failures = 0 => Finished)
  BY InitFinished
<1>2. Safe /\ Single /\ (failures = 0 => Finished) /\ [Next]_vars => (failures = 0 => Finished)'
  BY NextFinished
<1>3. (failures = 0 => Finished) => (failures = 0 => RevealReadyMeansFreeDone)
  BY DEF Finished, RevealReadyMeansFreeDone
<1> QED
  BY <1>1, <1>2, <1>3, InitSafe, NextSafe, InitSingle, NextSingle, PTL DEF Spec
=============================================================================
