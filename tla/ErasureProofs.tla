--------------------------- MODULE ErasureProofs ---------------------------
(***************************************************************************)
(* Theorems about Erasure, and about Sessions while an erasure runs into   *)
(* them.                                                                   *)
(***************************************************************************)
EXTENDS Erasure, SessionsProofs

(***************************************************************************)
(* The types of the vault and of its jobs.                                 *)
(***************************************************************************)
PreviewRows == [status : {"NONE", "PROCESSING", "READY", "FAILED"}, claim : 0 .. MaxClaims]
RequestRows == [status : {"NONE", "PENDING", "RUNNING", "DONE", "FAILED"},
                user : BOOLEAN, deleted : BOOLEAN, outbox : SUBSET Keys]
JobStates == [pc : {"none", "waiting", "active", "settling", "over"}, failed : Nat, stalled : BOOLEAN]
Runs == [pc : RunPcs, job : Jobs \cup {None}, awaited : BOOLEAN, keys : SUBSET Keys, rows : BOOLEAN]
Budgets == [claims : 0 .. MaxClaims, erasures : 0 .. MaxErasures, mishaps : Nat]

RowsFit ==
  /\ items \subseteq Items /\ storage \subseteq Keys /\ due \subseteq Keys
  /\ preview \in [Items -> PreviewRows]
  /\ gone \in BOOLEAN

AskedFits == request \in [Erasures -> RequestRows] /\ asking \subseteq Jobs

QueueFits ==
  /\ job \in [Jobs -> JobStates] /\ run \in [Workers -> Runs]
  /\ outlived \in BOOLEAN /\ lost \in BOOLEAN

\* A claim leaves one fewer to make.
BudgetFits == left \in Budgets /\ \A i \in Items : preview[i].claim + left.claims <= MaxClaims

\* What runs, runs a job; only what runs is awaited.
RunsJobs ==
  \A w \in Workers : /\ run[w].pc # "idle" => run[w].job \in Jobs
                     /\ run[w].awaited => run[w].pc # "idle"

VaultTypes == RowsFit /\ AskedFits /\ QueueFits /\ BudgetFits /\ RunsJobs

LEMMA AccountTypesAreParts == SessionTypes /\ VaultTypes => AccountTypeOK
BY TypesAreParts
   DEF VaultTypes, RowsFit, AskedFits, QueueFits, BudgetFits, AccountTypeOK, PreviewRows,
       RequestRows, JobStates, Runs, Budgets

LEMMA JobShapes ==
  ASSUME NEW j \in Jobs
  PROVE  /\ j.queue \in {"tryon", "erase"}
         /\ j.queue = "tryon" => j.item \in Items /\ j.n \in 1 .. MaxClaims /\ j = TryonJob(j.item, j.n)
         /\ j.queue = "erase" => j.n \in Erasures /\ j = EraseJob(j.n)
BY DEF Jobs, TryonJob, EraseJob

LEMMA JobNames ==
  /\ \A i \in Items, n \in 1 .. MaxClaims :
       /\ TryonJob(i, n) \in Jobs /\ TryonJob(i, n).queue = "tryon"
       /\ TryonJob(i, n).item = i /\ TryonJob(i, n).n = n
  /\ \A n \in Erasures : EraseJob(n) \in Jobs /\ EraseJob(n).queue = "erase" /\ EraseJob(n).n = n
BY DEF Jobs, TryonJob, EraseJob

LEMMA RunValues ==
  ASSUME NEW x \in Runs
  PROVE  /\ x.pc \in RunPcs /\ x.job \in Jobs \cup {None} /\ x.awaited \in BOOLEAN
         /\ x.keys \subseteq Keys /\ x.rows \in BOOLEAN
         /\ \A pc \in RunPcs : [x EXCEPT !.pc = pc] \in Runs
         /\ [x EXCEPT !.awaited = FALSE] \in Runs
         /\ \A pc \in RunPcs, S \in SUBSET Keys : [x EXCEPT !.pc = pc, !.keys = S] \in Runs
         /\ \A S \in SUBSET Keys, b \in BOOLEAN : [x EXCEPT !.pc = "mark", !.keys = S, !.rows = b] \in Runs
BY DEF Runs, RunPcs

LEMMA FreshRuns ==
  /\ NoRun \in Runs /\ NoRun.pc = "idle" /\ NoRun.awaited = FALSE
  /\ \A j \in Jobs : [NoRun EXCEPT !.pc = "read", !.job = j, !.awaited = TRUE] \in Runs
BY DEF NoRun, Runs, RunPcs

\* What becomes of a job: nothing else changes.
LEMMA RetriedJob ==
  ASSUME job \in [Jobs -> JobStates], NEW j \in Jobs
  PROVE  /\ Retried(j) \in [Jobs -> JobStates]
         /\ Retried(j)[j].pc \in {"waiting", "settling"}
         /\ \A k \in Jobs \ {j} : Retried(j)[k] = job[k]
<1> DEFINE pc == IF job[j].failed + 1 >= MaxTries THEN "settling" ELSE "waiting"
<1>0. job[j] \in JobStates /\ job[j].failed + 1 \in Nat /\ pc \in {"settling", "waiting"}
  BY DEF JobStates
<1>1. PICK x \in JobStates : x = [job[j] EXCEPT !.failed = job[j].failed + 1, !.pc = pc]
  BY <1>0 DEF JobStates
<1>2. x.pc = pc
  BY <1>0, <1>1 DEF JobStates
<1>3. Retried(j) = [job EXCEPT ![j] = x]
  BY <1>0, <1>1 DEF Retried, JobStates
<1> QED BY <1>0, <1>2, <1>3

LEMMA StalledJob ==
  ASSUME NEW x \in JobStates
  PROVE  Stalled(x) \in JobStates /\ Stalled(x).pc \in {"waiting", "settling"}
BY DEF Stalled, JobStates

\* How a handler's step moves its run and its job
LEMMA GoesOn ==
  ASSUME QueueFits, NEW w \in Workers, NEW pc \in RunPcs, Goes(w, pc)
  PROVE  /\ run' \in [Workers -> Runs] /\ job' = job
         /\ run'[w].pc = pc /\ run'[w].job = run[w].job /\ run'[w].awaited = run[w].awaited
         /\ run'[w].keys = run[w].keys /\ run'[w].rows = run[w].rows
         /\ \A v \in Workers \ {w} : run'[v] = run[v]
<1>1. PICK x \in Runs : x = [run[w] EXCEPT !.pc = pc]
  BY RunValues DEF QueueFits
<1>2. run' = [run EXCEPT ![w] = x] /\ job' = job
  BY <1>1 DEF Goes
<1>3. x.pc = pc /\ x.job = run[w].job /\ x.awaited = run[w].awaited /\ x.keys = run[w].keys
      /\ x.rows = run[w].rows
  BY <1>1 DEF Runs, QueueFits
<1> QED BY <1>2, <1>3 DEF QueueFits

LEMMA ReturnsNow ==
  ASSUME QueueFits, RunsJobs, NEW w \in Workers, run[w].pc # "idle", Returns(w)
  PROVE  /\ run' \in [Workers -> Runs] /\ job' \in [Jobs -> JobStates]
         /\ run'[w] = NoRun /\ \A v \in Workers \ {w} : run'[v] = run[v]
         /\ run[w].awaited => job'[run[w].job].pc = "over"
         /\ \A k \in Jobs : k # run[w].job \/ ~run[w].awaited => job'[k] = job[k]
<1>1. run' = [run EXCEPT ![w] = NoRun]
  BY DEF Returns
<1>2. run[w].job \in Jobs
  BY DEF RunsJobs
<1>3. PICK x \in JobStates : x = [job[run[w].job] EXCEPT !.pc = "over"]
  BY <1>2 DEF QueueFits, JobStates
<1>4. x.pc = "over" /\ job' = IF run[w].awaited THEN [job EXCEPT ![run[w].job] = x] ELSE job
  BY <1>2, <1>3 DEF Returns, QueueFits, JobStates
<1> QED BY <1>1, <1>2, <1>4, FreshRuns DEF QueueFits

LEMMA ThrowsNow ==
  ASSUME QueueFits, RunsJobs, NEW w \in Workers, run[w].pc # "idle", Throws(w)
  PROVE  /\ run' \in [Workers -> Runs] /\ job' \in [Jobs -> JobStates]
         /\ run'[w] = NoRun /\ \A v \in Workers \ {w} : run'[v] = run[v]
         /\ run[w].awaited => job'[run[w].job].pc \in {"waiting", "settling"}
         /\ \A k \in Jobs : k # run[w].job \/ ~run[w].awaited => job'[k] = job[k]
<1>1. run' = [run EXCEPT ![w] = NoRun]
  BY DEF Throws
<1>2. run[w].job \in Jobs
  BY DEF RunsJobs
<1>3. job' = IF run[w].awaited THEN Retried(run[w].job) ELSE job
  BY DEF Throws
<1> QED BY <1>1, <1>2, <1>3, FreshRuns, RetriedJob DEF QueueFits

LEMMA TakenUp ==
  ASSUME QueueFits, NEW j \in Jobs, Take(j)
  PROVE  \E w \in Workers :
           /\ run[w].pc = "idle" /\ job[j].pc = "waiting"
           /\ run' \in [Workers -> Runs] /\ job' \in [Jobs -> JobStates]
           /\ run'[w].pc = "read" /\ run'[w].job = j /\ run'[w].awaited
           /\ \A v \in Workers \ {w} : run'[v] = run[v]
           /\ job'[j].pc = "active" /\ \A k \in Jobs \ {j} : job'[k] = job[k]
<1>1. PICK w \in IdleWorkers : w = CHOOSE x \in IdleWorkers : TRUE
  BY DEF Take
<1>2. PICK y \in Runs : y = [NoRun EXCEPT !.pc = "read", !.job = j, !.awaited = TRUE]
  BY FreshRuns
<1>3. y.pc = "read" /\ y.job = j /\ y.awaited
  BY <1>2 DEF NoRun
<1>4. run' = [run EXCEPT ![w] = y] /\ job[j].pc = "waiting"
  BY <1>1, <1>2 DEF Take
<1>5. PICK x \in JobStates : x = [job[j] EXCEPT !.pc = "active"]
  BY DEF QueueFits, JobStates
<1>6. x.pc = "active" /\ job' = [job EXCEPT ![j] = x]
  BY <1>5 DEF Take, QueueFits, JobStates
<1>7. w \in Workers /\ run[w].pc = "idle"
  BY DEF IdleWorkers
<1> QED BY <1>3, <1>4, <1>6, <1>7 DEF QueueFits

LEMMA OutlivesNow ==
  ASSUME QueueFits, RunsJobs, NEW w \in Workers, run[w].pc # "idle", Outlives(w)
  PROVE  /\ run' \in [Workers -> Runs] /\ job' \in [Jobs -> JobStates]
         /\ run'[w].pc = run[w].pc /\ run'[w].job = run[w].job /\ run'[w].awaited = FALSE
         /\ run'[w].keys = run[w].keys /\ run'[w].rows = run[w].rows
         /\ \A v \in Workers \ {w} : run'[v] = run[v]
         /\ job'[run[w].job].pc \in {"waiting", "settling"}
         /\ \A k \in Jobs \ {run[w].job} : job'[k] = job[k]
<1>1. PICK x \in Runs : x = [run[w] EXCEPT !.awaited = FALSE]
  BY RunValues DEF QueueFits
<1>2. run' = [run EXCEPT ![w] = x]
  BY <1>1 DEF Outlives
<1>3. x.pc = run[w].pc /\ x.job = run[w].job /\ x.awaited = FALSE /\ x.keys = run[w].keys
      /\ x.rows = run[w].rows
  BY <1>1 DEF Runs, QueueFits
<1>4. run[w].job \in Jobs /\ job[run[w].job] \in JobStates
  BY DEF RunsJobs, QueueFits
<1>5. job' = Retried(run[w].job) \/ job' = [job EXCEPT ![run[w].job] = Stalled(job[run[w].job])]
  BY DEF Outlives
<1> QED BY <1>2, <1>3, <1>4, <1>5, RetriedJob, StalledJob DEF QueueFits

LEMMA WorkersGone ==
  ASSUME QueueFits, WorkerDies
  PROVE  /\ run' \in [Workers -> Runs] /\ job' \in [Jobs -> JobStates]
         /\ \A w \in Workers : run'[w].pc = "idle" /\ run'[w].awaited = FALSE
         /\ \A j \in Jobs : IF job[j].pc \in {"active", "settling"}
                            THEN job'[j].pc \in {"waiting", "settling"}
                            ELSE job'[j] = job[j]
<1>1. \A j \in Jobs : job[j] \in JobStates /\ Stalled(job[j]) \in JobStates
                      /\ Stalled(job[j]).pc \in {"waiting", "settling"}
  BY StalledJob DEF QueueFits
<1> QED BY <1>1, FreshRuns DEF WorkerDies

(***************************************************************************)
(* Every step keeps these types.                                           *)
(***************************************************************************)
LEMMA AtErase ==
  ASSUME QueueFits, NEW w \in Workers, NEW pc, At(w, "erase", pc)
  PROVE  /\ run[w].job.n \in Erasures /\ run[w].job = EraseJob(run[w].job.n)
         /\ run[w].job \in Jobs /\ run[w].pc = pc /\ run[w] \in Runs /\ run[w].keys \in SUBSET Keys
<1>1. run[w] \in Runs /\ run[w].job \in Jobs /\ run[w].job.queue = "erase" /\ run[w].keys \in SUBSET Keys
  BY DEF QueueFits, Runs, At
<1> QED BY <1>1, JobShapes DEF At

LEMMA AtTryon ==
  ASSUME QueueFits, NEW w \in Workers, NEW pc, At(w, "tryon", pc)
  PROVE  /\ run[w].job.item \in Items /\ run[w].job.n \in 1 .. MaxClaims
         /\ run[w].job = TryonJob(run[w].job.item, run[w].job.n)
         /\ run[w].job \in Jobs /\ run[w].pc = pc /\ run[w] \in Runs
<1>1. run[w] \in Runs /\ run[w].job \in Jobs /\ run[w].job.queue = "tryon"
  BY DEF QueueFits, Runs, At
<1> QED BY <1>1, JobShapes DEF At

\* An update of the picture's row of i
LEMMA FinishedRow ==
  ASSUME RowsFit, NEW i \in Items, NEW s \in {"READY", "FAILED"}
  PROVE  /\ Finished(i, s) \in [Items -> PreviewRows]
         /\ \A k \in Items : Finished(i, s)[k].claim = preview[k].claim
         /\ \A k \in Items \ {i} : Finished(i, s)[k] = preview[k]
         /\ Finished(i, s)[i].status = IF preview[i].status = "PROCESSING" THEN s ELSE preview[i].status
<1>1. preview[i] \in PreviewRows
  BY DEF RowsFit
<1>2. PICK x \in PreviewRows : x = [preview[i] EXCEPT !.status = s]
  BY <1>1 DEF PreviewRows
<1>3. x.status = s /\ x.claim = preview[i].claim
  BY <1>1, <1>2 DEF PreviewRows
<1>4. Finished(i, s) = IF preview[i].status = "PROCESSING" THEN [preview EXCEPT ![i] = x] ELSE preview
  BY <1>1, <1>2 DEF Finished, RowsFit, PreviewRows
<1> QED BY <1>3, <1>4 DEF RowsFit

\* An update of the request whose erasure w runs
LEMMA NotesRow ==
  ASSUME AskedFits, NEW w \in Workers, run[w].job.n \in Erasures, NEW r \in RequestRows, Notes(w, r)
  PROVE  /\ request' \in [Erasures -> RequestRows]
         /\ request'[run[w].job.n] = r
         /\ \A m \in Erasures \ {run[w].job.n} : request'[m] = request[m]
BY DEF AskedFits, Notes

LEMMA RequestUpdates ==
  ASSUME NEW r \in RequestRows, NEW S \in SUBSET Keys
  PROVE  /\ [r EXCEPT !.status = "RUNNING"] \in RequestRows
         /\ [r EXCEPT !.status = "FAILED"] \in RequestRows
         /\ [r EXCEPT !.deleted = TRUE] \in RequestRows
         /\ [r EXCEPT !.outbox = S, !.deleted = FALSE] \in RequestRows
         /\ [r EXCEPT !.outbox = S, !.deleted = TRUE] \in RequestRows
         /\ [r EXCEPT !.status = "DONE", !.user = FALSE, !.deleted = TRUE, !.outbox = {}] \in RequestRows
BY DEF RequestRows

\* What is left of the bounds
LEMMA Spent ==
  ASSUME BudgetFits, Mishap \/ left' = left,
         \A i \in Items : preview'[i].claim = preview[i].claim
  PROVE  BudgetFits'
<1>1. left \in Budgets /\ left' \in Budgets /\ left'.claims = left.claims
  BY DEF BudgetFits, Budgets, Mishap
<1>2. \A i \in Items : preview'[i].claim + left'.claims <= MaxClaims
  BY <1>1 DEF BudgetFits
<1> QED BY <1>1, <1>2 DEF BudgetFits, Budgets

\* The queue and its workers
LEMMA HandlersStep ==
  ASSUME QueueFits, RunsJobs, NEW w \in Workers, run[w].pc # "idle",
         (\E pc \in RunPcs \ {"idle"} : Goes(w, pc)) \/ Returns(w) \/ Throws(w),
         UNCHANGED <<outlived, lost>>
  PROVE  QueueFits' /\ RunsJobs'
<1>0. NoRun.pc = "idle" /\ NoRun.awaited = FALSE
  BY DEF NoRun
<1>1. CASE \E pc \in RunPcs \ {"idle"} : Goes(w, pc)
  BY <1>1, GoesOn DEF QueueFits, RunsJobs
<1>2. CASE Returns(w)
  BY <1>0, <1>2, ReturnsNow DEF QueueFits, RunsJobs
<1>3. CASE Throws(w)
  BY <1>0, <1>3, ThrowsNow DEF QueueFits, RunsJobs
<1> QED BY <1>1, <1>2, <1>3

LEMMA QueueStays ==
  ASSUME QueueFits, RunsJobs, UNCHANGED <<job, run, outlived, lost>>
  PROVE  QueueFits' /\ RunsJobs'
BY DEF QueueFits, RunsJobs

LEMMA RowsStay ==
  ASSUME RowsFit, UNCHANGED <<items, storage, due, preview, gone>>
  PROVE  RowsFit' /\ \A i \in Items : preview'[i].claim = preview[i].claim
BY DEF RowsFit

LEMMA AskingTypes ==
  ASSUME VaultTypes,
         (\E i \in Items : Claim(i)) \/ AskErasure \/ ApiDies
           \/ (\E j \in Jobs : Queue(j) \/ QueueFails(j))
  PROVE  VaultTypes'
<1>t. RowsFit /\ AskedFits /\ QueueFits /\ BudgetFits /\ RunsJobs
  BY DEF VaultTypes
<1>1. ASSUME NEW i \in Items, Claim(i) PROVE VaultTypes'
  <2> DEFINE n == preview[i].claim + 1
  <2>1. n \in 1 .. MaxClaims /\ n \in 0 .. MaxClaims /\ left \in Budgets
    <3>1. preview[i].claim \in 0 .. MaxClaims /\ left.claims \in 0 .. MaxClaims /\ left \in Budgets
      BY <1>1, <1>t DEF RowsFit, PreviewRows, BudgetFits, Budgets
    <3>2. preview[i].claim + left.claims <= MaxClaims /\ left.claims > 0
      BY <1>1, <1>t DEF Claim, BudgetFits
    <3> QED BY <3>1, <3>2, ErasureAssumption
  <2> HIDE DEF n
  <2>2. PICK x \in PreviewRows : x = [status |-> "PROCESSING", claim |-> n]
    BY <2>1 DEF PreviewRows
  <2>3. preview' = [preview EXCEPT ![i] = x] /\ x.claim = n
    BY <1>1, <2>2 DEF Claim, n
  <2>4. RowsFit'
    BY <1>1, <1>t, <2>3 DEF Claim, RowsFit
  <2>5. AskedFits'
    BY <1>1, <1>t, <2>1, JobNames DEF Claim, AskedFits, n
  <2>6. left' \in Budgets /\ left'.claims = left.claims - 1
    BY <1>1, <2>1, ErasureAssumption DEF Claim, Budgets
  <2>7. \A k \in Items : preview'[k].claim + left'.claims <= MaxClaims
    <3>1. \A k \in Items : preview[k].claim \in Nat /\ preview[k].claim + left.claims <= MaxClaims
      BY <1>t, ErasureAssumption DEF BudgetFits, RowsFit, PreviewRows
    <3>2. \A k \in Items : preview'[k].claim = IF k = i THEN n ELSE preview[k].claim
      BY <2>3, <1>t DEF RowsFit
    <3>3. left.claims \in Nat /\ n = preview[i].claim + 1
      BY <2>1, ErasureAssumption DEF Budgets, n
    <3> QED BY <3>1, <3>2, <3>3, <2>6, ErasureAssumption
  <2>8. QueueFits' /\ RunsJobs'
    BY <1>1, <1>t, QueueStays DEF Claim
  <2> QED BY <2>4, <2>5, <2>6, <2>7, <2>8 DEF VaultTypes, BudgetFits, Budgets
<1>2. CASE AskErasure
  <2>1. RowsFit' /\ QueueFits' /\ RunsJobs'
    BY <1>2, <1>t, QueueStays, RowsStay DEF AskErasure
  <2>2. BudgetFits'
    <3>1. left \in Budgets /\ left' \in Budgets /\ left'.claims = left.claims
      BY <1>2, <1>t, ErasureAssumption DEF AskErasure, BudgetFits, Budgets
    <3> QED BY <3>1, <1>2, <1>t DEF AskErasure, BudgetFits, Budgets
  <2>3. PICK r \in RequestRows : r = [NoRequest EXCEPT !.status = "PENDING", !.user = TRUE]
    BY DEF RequestRows, NoRequest
  <2>4. AskedFits'
    BY <1>2, <1>t, <2>3, JobNames DEF AskErasure, AskedFits
  <2> QED BY <2>1, <2>2, <2>4 DEF VaultTypes
<1>3. CASE ApiDies
  <2>1. RowsFit' /\ RunsJobs' /\ QueueFits' /\ AskedFits'
    BY <1>3, <1>t DEF ApiDies, vault, RowsFit, RunsJobs, QueueFits, AskedFits
  <2>2. BudgetFits'
    BY <1>3, <1>t, Spent DEF ApiDies, vault
  <2> QED BY <2>1, <2>2 DEF VaultTypes
<1>4. ASSUME NEW j \in Jobs, Queue(j) PROVE VaultTypes'
  <2>1. PICK x \in JobStates : x = [job[j] EXCEPT !.pc = "waiting"]
    BY <1>t DEF QueueFits, JobStates
  <2>2. job' = IF job[j].pc = "none" THEN [job EXCEPT ![j] = x] ELSE job
    BY <1>4, <1>t, <2>1 DEF Queue, QueueFits, JobStates
  <2>3. RowsFit' /\ RunsJobs' /\ AskedFits'
    BY <1>4, <1>t DEF Queue, vault, RowsFit, RunsJobs, AskedFits
  <2>4. QueueFits'
    BY <1>4, <1>t, <2>2 DEF Queue, QueueFits
  <2>5. BudgetFits'
    BY <1>4, <1>t, Spent DEF Queue, vault
  <2> QED BY <2>3, <2>4, <2>5 DEF VaultTypes
<1>5. ASSUME NEW j \in Jobs, QueueFails(j) PROVE VaultTypes'
  <2>1. /\ preview' \in [Items -> PreviewRows]
        /\ \A i \in Items : preview'[i].claim = preview[i].claim
    BY <1>5, <1>t, FinishedRow, JobShapes DEF QueueFails, RowsFit
  <2>2. RowsFit' /\ RunsJobs' /\ AskedFits' /\ QueueFits'
    BY <1>5, <1>t, <2>1 DEF QueueFails, RowsFit, RunsJobs, AskedFits, QueueFits
  <2>3. BudgetFits'
    BY <1>5, <1>t, <2>1, Spent DEF QueueFails
  <2> QED BY <2>2, <2>3 DEF VaultTypes
<1> QED BY <1>1, <1>2, <1>3, <1>4, <1>5

LEMMA QueueTypes ==
  ASSUME VaultTypes,
         (\E j \in Jobs : Take(j) \/ Settle(j)) \/ WorkerDies \/ (\E w \in Workers : Errs(w) \/ Outlives(w))
  PROVE  VaultTypes'
<1>t. RowsFit /\ AskedFits /\ QueueFits /\ BudgetFits /\ RunsJobs
  BY DEF VaultTypes
<1>1. ASSUME NEW j \in Jobs, Take(j) PROVE VaultTypes'
  <2>1. RowsFit' /\ AskedFits' /\ BudgetFits'
    BY <1>1, <1>t DEF Take, vault, RowsFit, AskedFits, BudgetFits
  <2>2. QueueFits' /\ RunsJobs'
    <3>1. PICK w \in Workers :
            /\ run' \in [Workers -> Runs] /\ job' \in [Jobs -> JobStates]
            /\ run'[w].pc = "read" /\ run'[w].job = j
            /\ \A v \in Workers \ {w} : run'[v] = run[v]
      BY <1>1, <1>t, TakenUp
    <3> QED BY <3>1, <1>1, <1>t DEF Take, QueueFits, RunsJobs
  <2> QED BY <2>1, <2>2 DEF VaultTypes
<1>2. ASSUME NEW j \in Jobs, Settle(j) PROVE VaultTypes'
  <2>1. PICK x \in JobStates : x = [job[j] EXCEPT !.pc = "over"]
    BY <1>t DEF QueueFits, JobStates
  <2>2. job' = [job EXCEPT ![j] = x]
    BY <1>2, <1>t, <2>1 DEF Settle, QueueFits, JobStates
  <2>3. QueueFits' /\ RunsJobs'
    BY <1>2, <1>t, <2>2 DEF Settle, QueueFits, RunsJobs
  <2>4. /\ preview' \in [Items -> PreviewRows]
        /\ \A i \in Items : preview'[i].claim = preview[i].claim
    BY <1>2, <1>t, FinishedRow, JobShapes DEF Settle, Settled, RowsFit
  <2>5. request' \in [Erasures -> RequestRows]
    <3>1. CASE UNCHANGED request
      BY <3>1, <1>t DEF AskedFits
    <3>2. CASE j.queue = "erase" /\ request' = [request EXCEPT ![j.n].status = "FAILED"]
      <4>1. PICK r \in RequestRows : r = [request[j.n] EXCEPT !.status = "FAILED"]
        BY <3>2, <1>t, JobShapes, RequestUpdates DEF AskedFits
      <4> QED BY <3>2, <4>1, <1>t DEF AskedFits, RequestRows
    <3> QED BY <3>1, <3>2, <1>2, JobShapes DEF Settle, Settled
  <2>6. RowsFit' /\ AskedFits'
    BY <1>2, <1>t, <2>4, <2>5 DEF Settle, RowsFit, AskedFits
  <2>7. BudgetFits'
    BY <1>2, <1>t, <2>4, Spent DEF Settle
  <2> QED BY <2>3, <2>6, <2>7 DEF VaultTypes
<1>3. CASE WorkerDies
  <2>1. RowsFit' /\ AskedFits' /\ QueueFits' /\ RunsJobs'
    BY <1>3, <1>t, WorkersGone DEF WorkerDies, vault, RowsFit, AskedFits, QueueFits, RunsJobs
  <2>2. BudgetFits'
    BY <1>3, <1>t, Spent DEF WorkerDies, vault
  <2> QED BY <2>1, <2>2 DEF VaultTypes
<1>4. ASSUME NEW w \in Workers, Errs(w) PROVE VaultTypes'
  <2>1. RowsFit' /\ AskedFits'
    BY <1>4, <1>t DEF Errs, vault, RowsFit, AskedFits
  <2>2. QueueFits' /\ RunsJobs'
    BY <1>4, <1>t, HandlersStep DEF Errs
  <2>3. BudgetFits'
    BY <1>4, <1>t, Spent DEF Errs, vault
  <2> QED BY <2>1, <2>2, <2>3 DEF VaultTypes
<1>5. ASSUME NEW w \in Workers, Outlives(w) PROVE VaultTypes'
  <2>1. RowsFit' /\ AskedFits'
    BY <1>5, <1>t DEF Outlives, vault, RowsFit, AskedFits
  <2>2. QueueFits' /\ RunsJobs'
    <3>1. run[w].pc # "idle" /\ outlived' \in BOOLEAN /\ lost' = lost
      BY <1>5, <1>t DEF Outlives, RunsJobs, QueueFits
    <3>2. /\ run' \in [Workers -> Runs] /\ job' \in [Jobs -> JobStates]
          /\ run'[w].job = run[w].job /\ run'[w].awaited = FALSE
          /\ \A v \in Workers \ {w} : run'[v] = run[v]
      BY <3>1, <1>5, <1>t, OutlivesNow
    <3>3. RunsJobs'
      BY <3>1, <3>2, <1>t DEF RunsJobs
    <3> QED BY <3>1, <3>2, <3>3, <1>t DEF QueueFits
  <2>3. BudgetFits'
    BY <1>5, <1>t, Spent DEF Outlives, vault
  <2> QED BY <2>1, <2>2, <2>3 DEF VaultTypes
<1> QED BY <1>1, <1>2, <1>3, <1>4, <1>5

LEMMA TryonTypes ==
  ASSUME VaultTypes, NEW w \in Workers, Tryon(w)
  PROVE  VaultTypes'
<1>t. RowsFit /\ AskedFits /\ QueueFits /\ BudgetFits /\ RunsJobs
  BY DEF VaultTypes
<1>1. CASE ReadPreview(w)
  <2>1. RowsFit' /\ AskedFits' /\ BudgetFits'
    BY <1>1, <1>t DEF ReadPreview, vault, RowsFit, AskedFits, BudgetFits
  <2>2. QueueFits' /\ RunsJobs'
    BY <1>1, <1>t, HandlersStep DEF ReadPreview, At, RunPcs
  <2> QED BY <2>1, <2>2 DEF VaultTypes
<1>2. CASE Render(w)
  <2>1. RowsFit' /\ AskedFits' /\ BudgetFits'
    BY <1>2, <1>t DEF Render, vault, RowsFit, AskedFits, BudgetFits
  <2>2. QueueFits' /\ RunsJobs'
    BY <1>2, <1>t, HandlersStep DEF Render, At, RunPcs
  <2> QED BY <2>1, <2>2 DEF VaultTypes
<1>3. CASE Put(w)
  <2>1. Picture(run[w].job.item) \in Keys
    BY <1>3, <1>t, AtTryon DEF Put, Keys
  <2>2. RowsFit' /\ AskedFits' /\ BudgetFits'
    BY <1>3, <1>t, <2>1 DEF Put, RowsFit, AskedFits, BudgetFits
  <2>3. QueueFits' /\ RunsJobs'
    BY <1>3, <1>t, HandlersStep DEF Put, At, RunPcs
  <2> QED BY <2>2, <2>3 DEF VaultTypes
<1>4. CASE Finish(w)
  <2>1. /\ preview' \in [Items -> PreviewRows]
        /\ \A i \in Items : preview'[i].claim = preview[i].claim
    BY <1>4, <1>t, AtTryon, FinishedRow DEF Finish
  <2>2. RowsFit' /\ AskedFits'
    BY <1>4, <1>t, <2>1 DEF Finish, RowsFit, AskedFits
  <2>3. BudgetFits'
    BY <1>4, <1>t, <2>1, Spent DEF Finish
  <2>4. QueueFits' /\ RunsJobs'
    BY <1>4, <1>t, HandlersStep DEF Finish, At
  <2> QED BY <2>2, <2>3, <2>4 DEF VaultTypes
<1> QED BY <1>1, <1>2, <1>3, <1>4 DEF Tryon

LEMMA PointedAtKeys ==
  ASSUME RowsFit
  PROVE  PointedAt \in SUBSET Keys
BY DEF RowsFit, PointedAt, Keys

LEMMA NotingTypes ==
  ASSUME VaultTypes, NEW w \in Workers,
         MarkRunning(w) \/ KeepKeys(w) \/ NoteDeleted(w) \/ KeepLeft(w) \/ FinishErasure(w)
  PROVE  VaultTypes'
<1>t. RowsFit /\ AskedFits /\ QueueFits /\ BudgetFits /\ RunsJobs
  BY DEF VaultTypes
<1>1. run[w].job.n \in Erasures /\ run[w].pc # "idle" /\ run[w].keys \in SUBSET Keys
  BY <1>t, AtErase DEF MarkRunning, KeepKeys, NoteDeleted, KeepLeft, FinishErasure
<1>2. Of(w) \in RequestRows
  BY <1>1, <1>t DEF Of, AskedFits
<1>3. (\E r \in RequestRows : Notes(w, r)) \/ UNCHANGED request
  BY <1>1, <1>2, RequestUpdates DEF MarkRunning, KeepKeys, NoteDeleted, KeepLeft, FinishErasure
<1>4. request' \in [Erasures -> RequestRows]
  BY <1>1, <1>3, <1>t, NotesRow DEF AskedFits
<1>5. RowsFit' /\ AskedFits' /\ BudgetFits'
  BY <1>4, <1>t
     DEF MarkRunning, KeepKeys, NoteDeleted, KeepLeft, FinishErasure, RowsFit, AskedFits, BudgetFits
<1>6. UNCHANGED <<outlived, lost>>
  BY DEF MarkRunning, KeepKeys, NoteDeleted, KeepLeft, FinishErasure
<1>7. (\E pc \in RunPcs \ {"idle"} : Goes(w, pc)) \/ Returns(w) \/ Throws(w)
  BY DEF MarkRunning, KeepKeys, NoteDeleted, KeepLeft, FinishErasure, RunPcs
<1> QED BY <1>1, <1>5, <1>6, <1>7, <1>t, HandlersStep DEF VaultTypes

\* A handler of an erasure goes on with other keys.
LEMMA KeysStep ==
  ASSUME QueueFits, RunsJobs, NEW w \in Workers, run[w].pc # "idle", NEW x \in Runs,
         run' = [run EXCEPT ![w] = x], x.pc # "idle", x.job = run[w].job,
         UNCHANGED <<job, outlived, lost>>
  PROVE  QueueFits' /\ RunsJobs'
BY DEF QueueFits, RunsJobs

LEMMA ErasingTypes ==
  ASSUME VaultTypes, NEW w \in Workers, ReadRequest(w) \/ ListKeys(w) \/ DeleteRows(w) \/ DeleteObjects(w)
  PROVE  VaultTypes'
<1>t. RowsFit /\ AskedFits /\ QueueFits /\ BudgetFits /\ RunsJobs
  BY DEF VaultTypes
<1>1. CASE ReadRequest(w)
  <2>1. RowsFit' /\ AskedFits' /\ BudgetFits'
    BY <1>1, <1>t DEF ReadRequest, vault, RowsFit, AskedFits, BudgetFits
  <2>2. run[w] \in Runs /\ run[w].pc # "idle" /\ Of(w) \in RequestRows
    BY <1>1, <1>t, AtErase DEF ReadRequest, AskedFits, Of
  <2>3. CASE Returns(w)
    BY <2>1, <2>2, <2>3, <1>1, <1>t, HandlersStep DEF ReadRequest, VaultTypes
  <2>4. CASE ~Returns(w)
    <3>1. PICK x \in Runs : x = [run[w] EXCEPT !.pc = "mark", !.keys = Of(w).outbox,
                                               !.rows = Of(w).user /\ ~Of(w).deleted]
      BY <2>2, RunValues DEF RequestRows
    <3>2. x.pc = "mark" /\ x.job = run[w].job
      BY <2>2, <3>1 DEF Runs
    <3>3. run' = [run EXCEPT ![w] = x] /\ UNCHANGED <<job, outlived, lost>>
      BY <2>4, <3>1, <1>1 DEF ReadRequest
    <3> QED BY <2>1, <2>2, <3>2, <3>3, <1>t, KeysStep DEF VaultTypes
  <2> QED BY <2>3, <2>4
<1>2. CASE ListKeys(w)
  <2>1. RowsFit' /\ AskedFits' /\ BudgetFits'
    BY <1>2, <1>t DEF ListKeys, vault, RowsFit, AskedFits, BudgetFits
  <2>2. run[w] \in Runs /\ run[w].pc # "idle" /\ Collected(w) \in SUBSET Keys
    BY <1>2, <1>t, AtErase, PointedAtKeys DEF ListKeys, Collected
  <2>3. PICK x \in Runs : x = [run[w] EXCEPT !.pc = "keep", !.keys = Collected(w)]
    BY <2>2, RunValues DEF RunPcs
  <2>4. x.pc = "keep" /\ x.job = run[w].job
    BY <2>2, <2>3 DEF Runs
  <2>5. run' = [run EXCEPT ![w] = x]
    BY <2>2, <2>3, <1>2, <1>t DEF ListKeys, QueueFits, Runs
  <2> QED BY <2>1, <2>2, <2>4, <2>5, <1>2, <1>t, KeysStep DEF VaultTypes, ListKeys
<1>3. CASE DeleteRows(w)
  <2>1. RowsFit' /\ \A i \in Items : preview'[i].claim = preview[i].claim
    <3>1. CASE gone
      BY <3>1, <1>3, <1>t DEF DeleteRows, RowsFit
    <3>2. CASE ~gone
      <4>1. preview' = [i \in Items |-> [preview[i] EXCEPT !.status = "NONE"]]
        BY <3>2, <1>3 DEF DeleteRows
      <4>2. \A i \in Items : preview'[i] \in PreviewRows /\ preview'[i].claim = preview[i].claim
        BY <4>1, <1>t DEF RowsFit, PreviewRows
      <4>3. preview' \in [Items -> PreviewRows]
        BY <4>1, <4>2
      <4>4. due' \subseteq Keys
        BY <3>2, <1>3, <1>t, PointedAtKeys DEF DeleteRows
      <4> QED BY <3>2, <4>2, <4>3, <4>4, <1>3, <1>t DEF DeleteRows, RowsFit
    <3> QED BY <3>1, <3>2
  <2>2. AskedFits'
    BY <1>3, <1>t DEF DeleteRows, AskedFits
  <2>3. BudgetFits'
    BY <1>3, <1>t, <2>1, Spent DEF DeleteRows
  <2>4. QueueFits' /\ RunsJobs'
    BY <1>3, <1>t, HandlersStep DEF DeleteRows, At, RunPcs
  <2> QED BY <2>1, <2>2, <2>3, <2>4 DEF VaultTypes
<1>4. CASE DeleteObjects(w)
  <2>1. PICK failing \in SUBSET run[w].keys :
          /\ IF failing = {} THEN UNCHANGED left ELSE Mishap
          /\ storage' = storage \ (run[w].keys \ failing)
          /\ run' = [run EXCEPT ![w] = [@ EXCEPT !.keys = failing,
                                        !.pc = IF run[w].keys = {} THEN "done" ELSE "left"]]
    BY <1>4 DEF DeleteObjects
  <2>2. run[w] \in Runs /\ run[w].pc # "idle" /\ failing \in SUBSET Keys
    <3>1. At(w, "erase", "objects")
      BY <1>4 DEF DeleteObjects
    <3>2. run[w] \in Runs /\ run[w].pc = "objects" /\ run[w].keys \in SUBSET Keys
      BY <3>1, <1>t, AtErase
    <3> QED BY <3>2, <2>1
  <2> DEFINE pc == IF run[w].keys = {} THEN "done" ELSE "left"
  <2>3. PICK x \in Runs : x = [run[w] EXCEPT !.pc = pc, !.keys = failing]
    BY <2>2, RunValues DEF RunPcs
  <2>4. x.pc # "idle" /\ x.job = run[w].job
    BY <2>2, <2>3 DEF Runs
  <2>5. run' = [run EXCEPT ![w] = x]
    BY <2>1, <2>2, <2>3, <1>t DEF QueueFits, Runs
  <2>6. QueueFits' /\ RunsJobs'
    BY <2>2, <2>4, <2>5, <1>4, <1>t, KeysStep DEF DeleteObjects
  <2>7. RowsFit' /\ AskedFits'
    BY <1>4, <1>t, <2>1 DEF DeleteObjects, RowsFit, AskedFits
  <2>8. BudgetFits'
    BY <1>4, <1>t, <2>1, Spent DEF DeleteObjects
  <2> QED BY <2>6, <2>7, <2>8 DEF VaultTypes
<1> QED BY <1>1, <1>2, <1>3, <1>4

LEMMA VaultStays ==
  ASSUME VaultTypes, UNCHANGED <<vault, queues, left>>
  PROVE  VaultTypes'
BY DEF VaultTypes, vault, queues, RowsFit, AskedFits, QueueFits, BudgetFits, RunsJobs

LEMMA AccountVaultTypes ==
  ASSUME VaultTypes, AccountNext
  PROVE  VaultTypes'
BY AskingTypes, QueueTypes, TryonTypes, NotingTypes, ErasingTypes, VaultStays
   DEF AccountNext, Works, Erase

(***************************************************************************)
(* The sessions of an account.                                             *)
(***************************************************************************)
\* Everything but a session's own step and the deletion of the rows leaves the sessions alone.
LEMMA OnlyRowsTouchSessions ==
  ASSUME AccountNext
  PROVE  \/ Next
         \/ UNCHANGED vars
         \/ \E w \in Workers : DeleteRows(w) /\ ~gone
BY DEF AccountNext, Works, Tryon, Erase, Claim, AskErasure, ApiDies, WorkerDies, Queue, Take, Settle,
       QueueFails, Errs, Outlives, ReadPreview, Render, Put, Finish, ReadRequest, MarkRunning,
       ListKeys, KeepKeys, DeleteRows, NoteDeleted, DeleteObjects, KeepLeft, FinishErasure

\* The subject's rows go, and what works on them is turned away.
LEMMA RowsGo ==
  ASSUME SessionTypes, UsersSound, StoreSound, NEW w \in Workers, DeleteRows(w), ~gone
  PROVE  SessionTypes' /\ UsersSound' /\ StoreSound'
<1>t. Ledgers /\ RequestsFit /\ AppFits
  BY DEF SessionTypes
<1>1. /\ known' = known \ {Subject} /\ grants' = [grants EXCEPT ![Subject] = 0]
      /\ live' = {t \in live : owner[t] # Subject}
      /\ withheld' = withheld \ {Subject}
      /\ UNCHANGED <<code, owner, expired, revoking, device, faults>>
  BY DEF DeleteRows
<1>2. PICK found \in [Handlers -> {Refused, Failed}] : handler' = Turned(found)
  BY DEF DeleteRows
<1>3. ASSUME NEW h \in Handlers
      PROVE  /\ handler'[h] \in Requested(Issued)
             /\ \/ /\ handler'[h].pc = "answer"
                   /\ handler[h].user = Subject
                \/ /\ handler'[h] = handler[h]
                   /\ ~(handler[h].user = Subject /\ handler[h].pc \in {"grant", "save"})
  <2>1. handler[h] \in Requested(Issued) /\ found[h] \in {Refused, Failed}
    BY <1>t DEF RequestsFit
  <2>2. PICK y \in Requested(Issued) : y = [handler[h] EXCEPT !.pc = "answer", !.answer = found[h]]
    BY <2>1, RequestValues
  <2>3. y.pc = "answer"
    BY <2>1, <2>2 DEF Requested
  <2>4. handler'[h] = IF handler[h].user = Subject /\ handler[h].pc \in {"grant", "save"}
                      THEN y ELSE handler[h]
    BY <1>2, <2>2 DEF Turned
  <2> QED BY <2>1, <2>3, <2>4
<1>4. Ledgers'
  BY <1>1, <1>t, ErasureAssumption DEF Ledgers, Issued
<1>5. RequestsFit'
  <2>1. handler' \in [Handlers -> Requested(Issued)]
    BY <1>2, <1>3 DEF Turned
  <2>2. (handler \in [Handlers -> Requested(Issued)])'
    BY <2>1, <1>1 DEF Requested, Issued
  <2>3. Addressed'
    BY <1>3, <1>t DEF RequestsFit, Addressed, Signing
  <2> QED BY <2>2, <2>3 DEF RequestsFit
<1>i. Issued' = Issued
  BY <1>1 DEF Issued
<1>6. AppFits'
  BY <1>1, <1>i, <1>t, AppStays DEF AppFits
<1>7. RowsThere'
  BY <1>1, <1>3, <1>t DEF UsersSound, RowsThere, OnRow
<1>8. GrantsSound'
  BY <1>1, <1>3, <1>t DEF UsersSound, GrantsSound, Ledgers
<1>9. OnboardingGrantedOnce'
  <2> SUFFICES ASSUME NEW u \in Users
               PROVE  /\ grants'[u] <= 1
                      /\ u \in known' =>
                           \/ grants'[u] = 1 \/ u \in withheld'
                           \/ \E h \in Handlers : handler'[h].pc = "grant" /\ handler'[h].user = u
    BY DEF OnboardingGrantedOnce
  <2>1. CASE u = Subject
    BY <2>1, <1>1, <1>t DEF Ledgers
  <2>2. CASE u # Subject
    <3>1. grants'[u] = grants[u] /\ (u \in known' => u \in known) /\ (u \in withheld => u \in withheld')
      BY <2>2, <1>1, <1>t DEF Ledgers
    <3>2. \A h \in Handlers : handler[h].user = u => handler'[h] = handler[h]
      BY <2>2, <1>3
    <3> QED BY <3>1, <3>2 DEF UsersSound, OnboardingGrantedOnce
  <2> QED BY <2>1, <2>2
<1>10. StoreSound'
  BY <1>1 DEF device, StoreSound, StoreCatchesUp
<1> QED BY <1>4, <1>5, <1>6, <1>7, <1>8, <1>9, <1>10 DEF SessionTypes, UsersSound

(***************************************************************************)
(* An account starts well.                                                 *)
(***************************************************************************)
LEMMA SignedInStarts ==
  ASSUME NEW n \in Nat \ {0}, NEW here \in BOOLEAN, HasPairs(n, here), faults \in 0 .. MaxFaults
  PROVE  SessionTypes /\ UsersSound /\ StoreSound
<1> DEFINE held == IF here THEN n ELSE SignedOut
<1>1. owner \in Seq(Users) /\ Len(owner) = n /\ \A t \in 1 .. n : owner[t] = Subject
  BY ErasureAssumption DEF HasPairs
<1>2. n \in Issued /\ held \in {SignedOut} \cup Issued
  BY <1>1 DEF Issued
<1> HIDE DEF held
<1>3. /\ known = {Subject} /\ grants = [u \in Users |-> IF u = Subject THEN 1 ELSE 0]
      /\ code = (IF here THEN {} ELSE {Subject})
      /\ live = {n} /\ expired = {}
      /\ handler = [h \in Handlers |-> NoHandler] /\ revoking = {}
      /\ session = held /\ who = (IF here THEN Subject ELSE None)
      /\ signing = None /\ renewal = NoRenewal
      /\ call = [c \in Calls |-> NoCall]
      /\ store = [kept |-> held, writing |-> Nothing, pending |-> Nothing, bad |-> FALSE]
      /\ mixed = FALSE /\ withheld = {}
  BY DEF HasPairs, held
<1>4. Ledgers
  BY <1>1, <1>2, <1>3, ErasureAssumption DEF Ledgers
<1>5. RequestsFit
  BY <1>3, FreshRequests DEF RequestsFit, Addressed, Signing, NoHandler
<1>6. SessionFits /\ RenewalFits /\ call \in [Calls -> CallsOf(Issued)] /\ StoreFits
  BY <1>2, <1>3, ErasureAssumption
     DEF SessionFits, RenewalFits, Renewals, NoRenewal, CallsOf, NoCall, StoreFits, Stores
<1>7. AppFits
  BY <1>3, <1>6 DEF AppFits
<1>8. UsersSound
  BY <1>1, <1>3 DEF UsersSound, RowsThere, GrantsSound, OnboardingGrantedOnce, OnRow, NoHandler
<1>9. StoreSound
  BY <1>3 DEF StoreSound, StoreCatchesUp
<1> QED BY <1>4, <1>5, <1>7, <1>8, <1>9 DEF SessionTypes

LEMMA AccountStarts ==
  ASSUME AccountInit
  PROVE  SessionTypes /\ UsersSound /\ StoreSound /\ VaultTypes
<1>1. SessionTypes /\ UsersSound /\ StoreSound
  <2>1. CASE Init
    BY <2>1, SignedOutStarts
  <2>2. ASSUME NEW here \in BOOLEAN, HasPairs(MaxTokens - 1, here), faults = MaxFaults - 1
        PROVE  SessionTypes /\ UsersSound /\ StoreSound
    <3>1. MaxTokens - 1 \in Nat \ {0} /\ faults \in 0 .. MaxFaults
      BY <2>2, SessionAssumption, ErasureAssumption
    <3> QED BY <2>2, <3>1, SignedInStarts
  <2>3. CASE HasPairs(MaxTokens, FALSE) /\ faults = MaxFaults
    <3>1. MaxTokens \in Nat \ {0} /\ faults \in 0 .. MaxFaults
      BY <2>3, SessionAssumption, ErasureAssumption
    <3> QED BY <2>3, <3>1, SignedInStarts
  <2> QED BY <2>1, <2>2, <2>3 DEF AccountInit
<1>2. left \in Budgets
  <2>1. NoneLeft \in Budgets /\ [NoneLeft EXCEPT !.erasures = 1] \in Budgets
    BY ErasureAssumption DEF NoneLeft, Budgets
  <2> QED BY <2>1, ErasureAssumption DEF AccountInit, Budgets
<1>3. items \subseteq Items
  BY DEF AccountInit
<1>4. RowsFit /\ \A i \in Items : preview[i].claim = 0
  <2>1. /\ preview = [i \in Items |-> [status |-> "NONE", claim |-> 0]]
        /\ storage = {Photo(i) : i \in items} /\ gone = FALSE /\ due = {}
    BY DEF AccountInit, NoVault
  <2>2. preview \in [Items -> PreviewRows] /\ \A i \in Items : preview[i].claim = 0
    BY <2>1, ErasureAssumption DEF PreviewRows
  <2>3. storage \subseteq Keys
    BY <2>1, <1>3 DEF Keys
  <2> QED BY <2>1, <2>2, <2>3, <1>3 DEF RowsFit
<1>5. AskedFits
  BY DEF AccountInit, NoVault, AskedFits, NoRequest, RequestRows
<1>6. QueueFits /\ RunsJobs
  BY FreshRuns DEF AccountInit, NoVault, QueueFits, RunsJobs, JobStates
<1>7. BudgetFits
  BY <1>2, <1>4, ErasureAssumption DEF BudgetFits, Budgets
<1> QED BY <1>1, <1>4, <1>5, <1>6, <1>7 DEF VaultTypes

(***************************************************************************)
(* Theorems about the sessions of an account.                              *)
(***************************************************************************)
AccountSound == SessionTypes /\ UsersSound /\ StoreSound /\ VaultTypes

LEMMA AccountStep ==
  ASSUME AccountSound, AccountNext
  PROVE  AccountSound'
<1>1. VaultTypes'
  BY AccountVaultTypes DEF AccountSound
<1>2. CASE Next
  <2>1. SessionTypes /\ UsersSound /\ StoreSound
    BY DEF AccountSound
  <2>2. Ledgers' /\ RequestsFit' /\ AppFits'
    BY <2>1, <1>2, SessionAssumption, NextLedgers, NextRequests, NextApp
  <2>3. UsersSound' /\ StoreSound'
    BY <2>1, <1>2, NextUsers, NextStored
  <2> QED BY <1>1, <2>2, <2>3 DEF AccountSound, SessionTypes
<1>3. CASE UNCHANGED vars
  BY <1>1, <1>3, SessionsStay DEF AccountSound
<1>4. ASSUME NEW w \in Workers, DeleteRows(w), ~gone PROVE AccountSound'
  BY <1>1, <1>4, RowsGo DEF AccountSound
<1> QED BY <1>2, <1>3, <1>4, OnlyRowsTouchSessions

LEMMA AccountStutters ==
  ASSUME AccountSound, UNCHANGED accountVars
  PROVE  AccountSound'
BY SessionsStay, VaultStays DEF AccountSound, accountVars

LEMMA AccountIsSound == AccountSpec => []AccountSound
<1>1. AccountInit => AccountSound
  BY AccountStarts DEF AccountSound
<1>2. AccountSound /\ [AccountNext]_accountVars => AccountSound'
  BY AccountStep, AccountStutters
<1> QED BY <1>1, <1>2, PTL DEF AccountSpec

\* The sessions' state, the vault and its jobs have their types, in every account.
THEOREM AccountTypes == AccountSpec => []AccountTypeOK
<1>1. AccountSound => AccountTypeOK
  BY AccountTypesAreParts DEF AccountSound
<1> QED BY <1>1, AccountIsSound, PTL

\* However sign-ins run into each other, into retries and into the erasure, the onboarding coins
\* come at most once, and a user's row is without them only while the sign-in that inserted it is
\* about to grant them, or for good when that one died or erred first (tokens.ts: verifyAndLogin).
THEOREM CoinsOnce == AccountSpec => []OnboardingGrantedOnce
<1>1. AccountSound => OnboardingGrantedOnce
  BY DEF AccountSound, UsersSound
<1> QED BY <1>1, AccountIsSound, PTL

\* The secure store's writer ends with the session's pair, or with none after a sign-out.
THEOREM StoreIsSession == AccountSpec => []StoreCatchesUp
<1>1. AccountSound => StoreCatchesUp
  BY DEF AccountSound, StoreSound
<1> QED BY <1>1, AccountIsSound, PTL

(***************************************************************************)
(* Who is awaited.                                                         *)
(***************************************************************************)
\* A job that is awaited is active, and one attempt of it is.
Awaits ==
  /\ \A w \in Workers : run[w].awaited => job[run[w].job].pc = "active"
  /\ \A v, w \in Workers : run[v].awaited /\ run[w].awaited /\ run[v].job = run[w].job => v = w

\* The handler at w goes on with its job.
Advances(w) ==
  /\ run[w].pc # "idle" /\ run'[w].pc # "idle"
  /\ run'[w].job = run[w].job /\ run'[w].awaited = run[w].awaited
  /\ \A v \in Workers \ {w} : run'[v] = run[v]
  /\ job' = job

LEMMA GoesAdvances ==
  ASSUME QueueFits, NEW w \in Workers, run[w].pc # "idle",
         \E pc \in RunPcs \ {"idle"} : Goes(w, pc)
  PROVE  Advances(w)
BY GoesOn DEF Advances

LEMMA HandlerMoves ==
  ASSUME VaultTypes, NEW w \in Workers, Tryon(w) \/ Erase(w) \/ Errs(w)
  PROVE  run[w].pc # "idle" /\ (Advances(w) \/ Returns(w) \/ Throws(w))
<1>t. QueueFits
  BY DEF VaultTypes
<1>1. run[w].pc # "idle"
  BY DEF Tryon, Erase, Errs, At, ReadPreview, Render, Put, Finish, ReadRequest, MarkRunning, ListKeys,
         KeepKeys, DeleteRows, NoteDeleted, DeleteObjects, KeepLeft, FinishErasure
<1>2. CASE ReadRequest(w) /\ ~Returns(w)
  <2>1. run' = [run EXCEPT ![w] = [@ EXCEPT !.pc = "mark", !.keys = Of(w).outbox,
                                               !.rows = Of(w).user /\ ~Of(w).deleted]]
        /\ job' = job
    BY <1>2 DEF ReadRequest
  <2> QED BY <2>1, <1>1, <1>t DEF Advances, QueueFits, Runs
<1>3. CASE ListKeys(w)
  BY <1>1, <1>3, <1>t DEF ListKeys, Advances, QueueFits, Runs
<1>4. CASE DeleteObjects(w)
  <2>1. PICK S : run' = [run EXCEPT ![w] = [@ EXCEPT !.keys = S,
                                        !.pc = IF run[w].keys = {} THEN "done" ELSE "left"]]
    BY <1>4 DEF DeleteObjects
  <2>2. job' = job
    BY <1>4 DEF DeleteObjects
  <2> QED BY <2>1, <2>2, <1>1, <1>t DEF Advances, QueueFits, Runs
<1>5. ASSUME ~ReadRequest(w), ~ListKeys(w), ~DeleteObjects(w)
      PROVE  (\E pc \in RunPcs \ {"idle"} : Goes(w, pc)) \/ Returns(w) \/ Throws(w)
  BY <1>5 DEF Tryon, Erase, Errs, ReadPreview, Render, Put, Finish, MarkRunning, KeepKeys, DeleteRows,
              NoteDeleted, KeepLeft, FinishErasure, RunPcs
<1> QED BY <1>1, <1>2, <1>3, <1>4, <1>5, <1>t, GoesAdvances

\* The other steps leave the handlers alone.
LEMMA OtherMoves ==
  ASSUME AccountNext, \A w \in Workers : ~Tryon(w) /\ ~Erase(w) /\ ~Errs(w)
  PROVE  \/ UNCHANGED <<run, job>>
         \/ \E j \in Jobs : Queue(j) \/ Take(j) \/ Settle(j)
         \/ WorkerDies
         \/ \E w \in Workers : Outlives(w)
BY DEF AccountNext, Works, Claim, AskErasure, ApiDies, QueueFails, queues

LEMMA AwaitsStep ==
  ASSUME VaultTypes, Awaits, AccountNext
  PROVE  Awaits'
<1>t. QueueFits /\ RunsJobs
  BY DEF VaultTypes
<1>1. ASSUME NEW w \in Workers, Tryon(w) \/ Erase(w) \/ Errs(w) PROVE Awaits'
  <2>1. run[w].pc # "idle" /\ (Advances(w) \/ Returns(w) \/ Throws(w))
    BY <1>1, HandlerMoves
  <2>2. CASE Advances(w)
    BY <2>2 DEF Advances, Awaits
  <2>3. CASE Returns(w) \/ Throws(w)
    <3>1. /\ run'[w].awaited = FALSE /\ \A v \in Workers \ {w} : run'[v] = run[v]
          /\ \A k \in Jobs : k # run[w].job \/ ~run[w].awaited => job'[k] = job[k]
      BY <2>1, <2>3, <1>t, ReturnsNow, ThrowsNow, FreshRuns
    <3>2. ASSUME NEW v \in Workers, run'[v].awaited PROVE job'[run'[v].job].pc = "active"
      <4>1. v # w /\ run'[v] = run[v] /\ run[v].awaited /\ run[v].job \in Jobs
        BY <3>1, <3>2, <1>t DEF RunsJobs
      <4>2. run[w].awaited => run[v].job # run[w].job
        BY <4>1 DEF Awaits
      <4> QED BY <3>1, <4>1, <4>2 DEF Awaits
    <3> QED BY <3>1, <3>2 DEF Awaits
  <2> QED BY <2>1, <2>2, <2>3
<1>2. CASE UNCHANGED <<run, job>>
  BY <1>2 DEF Awaits
<1>3. ASSUME NEW j \in Jobs, Queue(j) \/ Settle(j) PROVE Awaits'
  <2>1. job[j].pc # "active" => \A k \in Jobs \ {j} : job'[k] = job[k]
    BY <1>3, <1>t DEF Queue, Settle, QueueFits
  <2>2. job[j].pc = "active" => job' = job
    BY <1>3 DEF Queue, Settle
  <2>3. run' = run
    BY <1>3 DEF Queue, Settle
  <2> QED BY <2>1, <2>2, <2>3, <1>t DEF Awaits, RunsJobs
<1>4. ASSUME NEW j \in Jobs, Take(j) PROVE Awaits'
  <2>1. PICK w \in Workers :
           /\ run[w].pc = "idle" /\ job[j].pc = "waiting"
           /\ run'[w].job = j /\ run'[w].awaited
           /\ \A v \in Workers \ {w} : run'[v] = run[v]
           /\ job'[j].pc = "active" /\ \A k \in Jobs \ {j} : job'[k] = job[k]
    BY <1>4, <1>t, TakenUp
  <2>2. \A v \in Workers : run[v].awaited => run[v].job # j /\ run[v].job \in Jobs
    BY <2>1, <1>t DEF Awaits, RunsJobs
  <2> QED BY <2>1, <2>2 DEF Awaits
<1>5. CASE WorkerDies
  BY <1>5, <1>t, WorkersGone DEF Awaits
<1>6. ASSUME NEW w \in Workers, Outlives(w) PROVE Awaits'
  <2>1. run[w].awaited /\ run[w].pc # "idle"
    BY <1>6, <1>t DEF Outlives, RunsJobs
  <2>2. /\ run'[w].awaited = FALSE
        /\ \A v \in Workers \ {w} : run'[v] = run[v]
        /\ \A k \in Jobs \ {run[w].job} : job'[k] = job[k]
    BY <2>1, <1>6, <1>t, OutlivesNow
  <2>3. \A v \in Workers \ {w} : run[v].awaited => run[v].job # run[w].job /\ run[v].job \in Jobs
    BY <2>1, <1>t DEF Awaits, RunsJobs
  <2> QED BY <2>2, <2>3 DEF Awaits
<1> QED BY <1>1, <1>2, <1>3, <1>4, <1>5, <1>6, OtherMoves

(***************************************************************************)
(* The job of a picture that is waited for.                                *)
(***************************************************************************)
\* The job of a picture's last claim is queued, about to be, running or being settled, unless a
\* crash lost it.
Covered ==
  \A i \in Items :
    LET j == TryonJob(i, preview[i].claim)
    IN  preview[i].status = "PROCESSING" /\ ~lost =>
          /\ preview[i].claim > 0
          /\ (j \in asking /\ job[j].pc = "none") \/ job[j].pc \in {"waiting", "active", "settling"}

\* No job has the number of a claim to come.
Fresh ==
  \A i \in Items, n \in 1 .. MaxClaims :
    n > preview[i].claim => TryonJob(i, n) \notin asking /\ job[TryonJob(i, n)].pc = "none"

\* What a job may become while its picture is waited for
Lives(j, b) == (j \in asking /\ job[j].pc = "none") \/ job[j].pc \in {"waiting", "active", "settling"}
                 => (b /\ job'[j].pc = "none") \/ job'[j].pc \in {"waiting", "active", "settling"}

LEMMA CoveredStays ==
  ASSUME VaultTypes, Covered, lost => lost',
         \A i \in Items : preview'[i].claim = preview[i].claim,
         \A i \in Items : preview'[i].status = "PROCESSING" => preview[i].status = "PROCESSING",
         \A i \in Items : LET j == TryonJob(i, preview[i].claim)
                          IN  j \in Jobs /\ preview'[i].status = "PROCESSING" /\ ~lost' =>
                                Lives(j, j \in asking')
  PROVE  Covered'
<1> SUFFICES ASSUME NEW i \in Items, preview'[i].status = "PROCESSING", ~lost'
             PROVE  LET j == TryonJob(i, preview'[i].claim)
                    IN  /\ preview'[i].claim > 0
                        /\ (j \in asking' /\ job'[j].pc = "none")
                             \/ job'[j].pc \in {"waiting", "active", "settling"}
  BY DEF Covered
<1>1. preview[i].claim \in 1 .. MaxClaims
  BY ErasureAssumption DEF Covered, VaultTypes, RowsFit, PreviewRows
<1>2. TryonJob(i, preview[i].claim) \in Jobs
  BY <1>1, JobNames
<1> QED BY <1>2 DEF Covered, Lives

LEMMA FreshStays ==
  ASSUME Fresh, \A i \in Items : preview'[i].claim = preview[i].claim, asking' \subseteq asking,
         \A k \in Jobs : job[k].pc = "none" /\ k \notin asking => job'[k].pc = "none"
  PROVE  Fresh'
BY JobNames DEF Fresh

\* A handler that returns leaves no picture of its job waited for.
LEMMA HandlerRows ==
  ASSUME VaultTypes, NEW w \in Workers, Tryon(w) \/ Erase(w) \/ Errs(w)
  PROVE  /\ asking' = asking /\ lost' = lost
         /\ \A i \in Items : /\ preview'[i].claim = preview[i].claim
                             /\ preview'[i].status = "PROCESSING" => preview[i].status = "PROCESSING"
         /\ \/ Advances(w) \/ Throws(w)
            \/ /\ Returns(w)
               /\ \A i \in Items, n \in 1 .. MaxClaims :
                    run[w].job = TryonJob(i, n) => preview'[i].status # "PROCESSING"
<1>t. RowsFit /\ QueueFits
  BY DEF VaultTypes
<1>1. asking' = asking /\ lost' = lost
  BY DEF Tryon, Erase, Errs, ReadPreview, Render, Put, Finish, ReadRequest, MarkRunning, ListKeys,
         KeepKeys, DeleteRows, NoteDeleted, DeleteObjects, KeepLeft, FinishErasure
<1>2. run[w].pc # "idle" /\ (Advances(w) \/ Returns(w) \/ Throws(w))
  BY HandlerMoves
<1>3. CASE Finish(w)
  <2> DEFINE i == run[w].job.item
  <2>1. PICK s \in {"READY", "FAILED"} : preview' = Finished(i, s)
    BY <1>3 DEF Finish
  <2>2. i \in Items
    BY <1>3, <1>t, AtTryon DEF Finish
  <2> HIDE DEF i
  <2>3. \A k \in Items : /\ preview'[k].claim = preview[k].claim
                         /\ preview'[k].status = "PROCESSING" => preview[k].status = "PROCESSING"
    BY <2>1, <2>2, <1>t, FinishedRow
  <2>4. preview'[i].status # "PROCESSING"
    BY <2>1, <2>2, <1>t, FinishedRow
  <2>5. \A k \in Items, n \in 1 .. MaxClaims : run[w].job = TryonJob(k, n) => k = i
    BY JobNames DEF i
  <2> QED BY <2>3, <2>4, <2>5, <1>1, <1>3 DEF Finish
<1>4. CASE DeleteRows(w)
  <2>1. \A i \in Items : /\ preview'[i].claim = preview[i].claim
                         /\ preview'[i].status = "PROCESSING" => preview[i].status = "PROCESSING"
    <3>1. CASE gone
      BY <3>1, <1>4 DEF DeleteRows
    <3>2. CASE ~gone
      <4>1. preview' = [i \in Items |-> [preview[i] EXCEPT !.status = "NONE"]]
        BY <3>2, <1>4 DEF DeleteRows
      <4> QED BY <4>1, <1>t DEF RowsFit, PreviewRows
    <3> QED BY <3>1, <3>2
  <2>2. Advances(w)
    BY <1>2, <1>4, <1>t, GoesAdvances DEF DeleteRows, RunPcs
  <2> QED BY <2>1, <2>2, <1>1
<1>5. CASE ~Finish(w) /\ ~DeleteRows(w)
  <2>1. preview' = preview
    BY <1>5 DEF Tryon, Erase, Errs, vault, ReadPreview, Render, Put, ReadRequest, MarkRunning, ListKeys,
         KeepKeys, NoteDeleted, DeleteObjects, KeepLeft, FinishErasure
  <2>2. ASSUME ~Advances(w), ~Throws(w)
        PROVE  /\ Returns(w)
               /\ \A i \in Items, n \in 1 .. MaxClaims :
                    run[w].job = TryonJob(i, n) => preview[i].status # "PROCESSING"
    <3>1. Returns(w)
      BY <2>2, <1>2
    <3>2. CASE ReadPreview(w)
      <4>1. preview[run[w].job.item].status # "PROCESSING"
        <5>1. \/ preview[run[w].job.item].status # "PROCESSING"
              \/ \E pc \in RunPcs \ {"idle"} : Goes(w, pc)
          BY <3>2 DEF ReadPreview, RunPcs
        <5> QED BY <5>1, <2>2, <1>2, <1>t, GoesAdvances
      <4> QED BY <3>1, <4>1, JobNames
    <3>3. CASE ~ReadPreview(w)
      <4>1. At(w, "erase", "read") \/ At(w, "erase", "done") \/ (\E pc \in RunPcs \ {"idle"} : Goes(w, pc))
            \/ ListKeys(w) \/ DeleteObjects(w) \/ Throws(w)
        BY <3>3, <1>5 DEF Tryon, Erase, Errs, Render, Put, ReadRequest, MarkRunning,
             KeepKeys, NoteDeleted, KeepLeft, FinishErasure, RunPcs
      <4>2. At(w, "erase", "read") \/ At(w, "erase", "done") \/ At(w, "erase", "list") \/ At(w, "erase", "objects")
        BY <4>1, <2>2, <1>2, <1>t, GoesAdvances DEF ListKeys, DeleteObjects
      <4>3. run[w].job.queue = "erase"
        BY <4>2 DEF At
      <4> QED BY <3>1, <4>3, JobNames
    <3> QED BY <3>2, <3>3
  <2> QED BY <2>1, <2>2, <1>1
<1> QED BY <1>3, <1>4, <1>5

\* And a handler's move leaves the job alone, puts it back, or ends it.
LEMMA HandlerJobs ==
  ASSUME VaultTypes, Awaits, NEW w \in Workers, run[w].pc # "idle",
         Advances(w) \/ Returns(w) \/ Throws(w)
  PROVE  /\ \A k \in Jobs : job[k].pc = "none" => job'[k].pc = "none"
         /\ \A k \in Jobs : job'[k] = job[k] \/ job'[k].pc \in {"waiting", "settling"} \/ k = run[w].job
         /\ ~Returns(w) => \A k \in Jobs : job'[k] = job[k] \/ job'[k].pc \in {"waiting", "settling"}
<1>t. QueueFits /\ RunsJobs
  BY DEF VaultTypes
<1>1. run[w].awaited => job[run[w].job].pc = "active"
  BY DEF Awaits
<1>2. CASE Advances(w)
  BY <1>2 DEF Advances
<1>3. CASE Returns(w)
  BY <1>1, <1>3, <1>t, ReturnsNow
<1>4. CASE Throws(w)
  BY <1>1, <1>4, <1>t, ThrowsNow
<1> QED BY <1>2, <1>3, <1>4

LEMMA CoveredStep ==
  ASSUME VaultTypes, Awaits, Covered, Fresh, AccountNext
  PROVE  Covered' /\ Fresh'
<1>t. RowsFit /\ QueueFits /\ RunsJobs
  BY DEF VaultTypes
<1>1. ASSUME NEW w \in Workers, Tryon(w) \/ Erase(w) \/ Errs(w) PROVE Covered' /\ Fresh'
  <2>1. /\ asking' = asking /\ lost' = lost
        /\ \A i \in Items : /\ preview'[i].claim = preview[i].claim
                            /\ preview'[i].status = "PROCESSING" => preview[i].status = "PROCESSING"
        /\ \/ Advances(w) \/ Throws(w)
           \/ /\ Returns(w)
              /\ \A i \in Items, n \in 1 .. MaxClaims :
                   run[w].job = TryonJob(i, n) => preview'[i].status # "PROCESSING"
    BY <1>1, HandlerRows
  <2>2. run[w].pc # "idle" /\ (Advances(w) \/ Returns(w) \/ Throws(w))
    BY <1>1, HandlerMoves
  <2>3. /\ \A k \in Jobs : job[k].pc = "none" => job'[k].pc = "none"
        /\ \A k \in Jobs : job'[k] = job[k] \/ job'[k].pc \in {"waiting", "settling"} \/ k = run[w].job
    BY <2>2, HandlerJobs
  <2>4. ASSUME NEW i \in Items, TryonJob(i, preview[i].claim) \in Jobs, preview'[i].status = "PROCESSING"
        PROVE  Lives(TryonJob(i, preview[i].claim), TryonJob(i, preview[i].claim) \in asking')
    <3> DEFINE j == TryonJob(i, preview[i].claim)
    <3>1. job'[j] = job[j] \/ job'[j].pc \in {"waiting", "settling"}
      <4>1. CASE Advances(w)
        BY <4>1 DEF Advances
      <4>2. CASE Throws(w)
        <5>1. \A k \in Jobs : k # run[w].job \/ ~run[w].awaited => job'[k] = job[k]
          BY <4>2, <2>2, <1>t, ThrowsNow
        <5>2. run[w].awaited => job'[run[w].job].pc \in {"waiting", "settling"}
          BY <4>2, <2>2, <1>t, ThrowsNow
        <5> QED BY <5>1, <5>2, <2>4
      <4>3. ASSUME \A k \in Items, n \in 1 .. MaxClaims :
                     run[w].job = TryonJob(k, n) => preview'[k].status # "PROCESSING"
            PROVE  job'[j] = job[j] \/ job'[j].pc \in {"waiting", "settling"}
        <5>1. j.n = preview[i].claim /\ j.queue = "tryon"
          BY DEF TryonJob
        <5>2. preview[i].claim \in 1 .. MaxClaims
          BY <5>1, <2>4, JobShapes
        <5>3. j # run[w].job
          BY <5>2, <4>3, <2>4
        <5> QED BY <5>3, <2>3, <2>4
      <4> QED BY <4>1, <4>2, <4>3, <2>1
    <3> QED BY <3>1, <2>1 DEF Lives
  <2>5. Covered'
    BY <2>1, <2>4, CoveredStays
  <2>6. Fresh'
    BY <2>1, <2>3, FreshStays
  <2> QED BY <2>5, <2>6
<1>2. ASSUME NEW i \in Items, Claim(i) PROVE Covered' /\ Fresh'
  <2> DEFINE n == preview[i].claim + 1
  <2>1. /\ preview' = [preview EXCEPT ![i] = [status |-> "PROCESSING", claim |-> n]]
        /\ asking' = asking \cup {TryonJob(i, n)} /\ job' = job /\ lost' = lost
        /\ left.claims > 0
    BY <1>2 DEF Claim
  <2>2. n \in 1 .. MaxClaims /\ preview[i].claim \in Nat
    <3>1. preview[i].claim \in 0 .. MaxClaims /\ left.claims \in 0 .. MaxClaims
          /\ preview[i].claim + left.claims <= MaxClaims
      BY <1>t DEF PreviewRows, RowsFit, VaultTypes, BudgetFits, Budgets
    <3> QED BY <3>1, <2>1, ErasureAssumption
  <2>3. preview'[i].status = "PROCESSING" /\ preview'[i].claim = n /\ \A k \in Items \ {i} : preview'[k] = preview[k]
    BY <2>1, <1>t DEF RowsFit
  <2>4. TryonJob(i, n) \notin asking /\ job[TryonJob(i, n)].pc = "none"
    BY <2>2 DEF Fresh
  <2> HIDE DEF n
  <2>5. Covered'
    <3>1. n > 0 /\ TryonJob(i, n) \in asking' /\ job'[TryonJob(i, n)].pc = "none"
      BY <2>1, <2>2, <2>4
    <3>2. ASSUME NEW k \in Items, k # i, preview'[k].status = "PROCESSING", ~lost'
          PROVE  LET j == TryonJob(k, preview'[k].claim)
                 IN  /\ preview'[k].claim > 0
                     /\ (j \in asking' /\ job'[j].pc = "none") \/ job'[j].pc \in {"waiting", "active", "settling"}
      BY <3>2, <2>1, <2>3 DEF Covered
    <3> QED BY <3>1, <3>2, <2>3 DEF Covered
  <2>6. Fresh'
    <3>1. ASSUME NEW k \in Items, NEW m \in 1 .. MaxClaims, m > preview'[k].claim
          PROVE  m > preview[k].claim /\ TryonJob(k, m) # TryonJob(i, n)
      <4>1. CASE k = i
        BY <4>1, <3>1, <2>2, <2>3, JobNames DEF n
      <4>2. CASE k # i
        BY <4>2, <3>1, <2>2, <2>3, JobNames
      <4> QED BY <4>1, <4>2
    <3> QED BY <3>1, <2>1 DEF Fresh
  <2> QED BY <2>5, <2>6
<1>3. CASE AskErasure
  <2>1. /\ preview' = preview /\ job' = job /\ lost' = lost
        /\ \E n \in Erasures : asking' = asking \cup {EraseJob(n)}
    BY <1>3 DEF AskErasure
  <2>2. \A i \in Items, n \in 1 .. MaxClaims : TryonJob(i, n) \in asking' <=> TryonJob(i, n) \in asking
    BY <2>1 DEF TryonJob, EraseJob
  <2>3. Fresh'
    BY <2>1, <2>2 DEF Fresh
  <2>4. Covered'
    BY <2>1 DEF Covered
  <2> QED BY <2>3, <2>4
<1>4. CASE ApiDies
  <2>1. preview' = preview /\ job' = job /\ lost' /\ asking' \subseteq asking
    BY <1>4 DEF ApiDies, vault
  <2> QED BY <2>1 DEF Covered, Fresh
<1>5. ASSUME NEW j \in Jobs, Queue(j) PROVE Covered' /\ Fresh'
  <2>1. preview' = preview /\ lost' = lost /\ j \in asking
    BY <1>5 DEF Queue, vault
  <2>2. /\ asking' \subseteq asking /\ \A k \in Jobs \ {j} : job'[k] = job[k] /\ (k \in asking => k \in asking')
        /\ job'[j].pc = IF job[j].pc = "none" THEN "waiting" ELSE job[j].pc
    BY <1>5, <1>t DEF Queue, QueueFits, JobStates
  <2>3. Covered'
    BY <2>1, <2>2, CoveredStays DEF Lives
  <2>4. Fresh'
    BY <2>1, <2>2, FreshStays
  <2> QED BY <2>3, <2>4
<1>6. ASSUME NEW j \in Jobs, QueueFails(j) PROVE Covered' /\ Fresh'
  <2>1. job' = job /\ lost' = lost /\ asking' = asking \ {j}
        /\ preview' = IF j.queue = "tryon" THEN Finished(j.item, "FAILED") ELSE preview
    BY <1>6 DEF QueueFails
  <2>2. \A i \in Items : /\ preview'[i].claim = preview[i].claim
                         /\ preview'[i].status = "PROCESSING" => preview[i].status = "PROCESSING"
    BY <2>1, <1>t, FinishedRow, JobShapes, SMTT(30)
  <2>3. ASSUME NEW i \in Items, NEW n, j = TryonJob(i, n) PROVE preview'[i].status # "PROCESSING"
    <3>1. j.queue = "tryon" /\ j.item = i
      BY <2>3 DEF TryonJob
    <3> QED BY <3>1, <2>1, <1>t, FinishedRow
  <2>4. Covered'
    BY <2>1, <2>2, <2>3, CoveredStays DEF Lives
  <2>5. Fresh'
    BY <2>1, <2>2, FreshStays
  <2> QED BY <2>4, <2>5
<1>7. ASSUME NEW j \in Jobs, Take(j) PROVE Covered' /\ Fresh'
  <2>1. preview' = preview /\ lost' = lost /\ asking' = asking
    BY <1>7 DEF Take, vault
  <2>2. job[j].pc = "waiting" /\ job'[j].pc = "active" /\ \A k \in Jobs \ {j} : job'[k] = job[k]
    BY <1>7, <1>t, TakenUp
  <2>3. Covered'
    BY <2>1, <2>2, CoveredStays DEF Lives
  <2>4. Fresh'
    BY <2>1, <2>2, FreshStays
  <2> QED BY <2>3, <2>4
<1>8. ASSUME NEW j \in Jobs, Settle(j) PROVE Covered' /\ Fresh'
  <2>1. /\ asking' = asking /\ job[j].pc = "settling" /\ \A k \in Jobs \ {j} : job'[k] = job[k]
        /\ (lost' /\ preview' = preview) \/ (lost' = lost /\ Settled(j))
    BY <1>8, <1>t DEF Settle, QueueFits
  <2>2. \A i \in Items : /\ preview'[i].claim = preview[i].claim
                         /\ preview'[i].status = "PROCESSING" => preview[i].status = "PROCESSING"
    BY <2>1, <1>t, FinishedRow, JobShapes DEF Settled
  <2>3. ASSUME NEW i \in Items, NEW n, j = TryonJob(i, n) PROVE preview'[i].status # "PROCESSING" \/ lost'
    <3>1. j.queue = "tryon" /\ j.item = i
      BY <2>3 DEF TryonJob
    <3> QED BY <3>1, <2>1, <1>t, FinishedRow DEF Settled
  <2>4. Covered'
    BY <2>1, <2>2, <2>3, CoveredStays DEF Lives
  <2>5. Fresh'
    BY <2>1, <2>2, FreshStays
  <2> QED BY <2>4, <2>5
<1>9. CASE WorkerDies
  <2>1. preview' = preview /\ lost' = lost /\ asking' = asking
    BY <1>9 DEF WorkerDies, vault
  <2>2. \A k \in Jobs : IF job[k].pc \in {"active", "settling"}
                            THEN job'[k].pc \in {"waiting", "settling"}
                            ELSE job'[k] = job[k]
    BY <1>9, <1>t, WorkersGone
  <2>3. Covered'
    BY <2>1, <2>2, CoveredStays DEF Lives
  <2>4. Fresh'
    BY <2>1, <2>2, FreshStays
  <2> QED BY <2>3, <2>4
<1>10. ASSUME NEW w \in Workers, Outlives(w) PROVE Covered' /\ Fresh'
  <2>1. preview' = preview /\ lost' = lost /\ asking' = asking
    BY <1>10 DEF Outlives, vault
  <2>2. run[w].awaited /\ run[w].pc # "idle" /\ job[run[w].job].pc = "active"
    BY <1>10, <1>t DEF Outlives, RunsJobs, Awaits
  <2>3. job'[run[w].job].pc \in {"waiting", "settling"} /\ \A k \in Jobs \ {run[w].job} : job'[k] = job[k]
    BY <2>2, <1>10, <1>t, OutlivesNow
  <2>4. Covered'
    BY <2>1, <2>3, CoveredStays DEF Lives
  <2>5. Fresh'
    BY <2>1, <2>2, <2>3, FreshStays
  <2> QED BY <2>4, <2>5
<1>11. CASE UNCHANGED <<vault, queues>>
  BY <1>11 DEF vault, queues, Covered, Fresh
<1> QED BY <1>1, <1>2, <1>3, <1>4, <1>5, <1>6, <1>7, <1>8, <1>9, <1>10, <1>11 DEF AccountNext, Works

(***************************************************************************)
(* Requests, and what an erasure does when.                                *)
(***************************************************************************)
\* A job of an erasure is that of a request, and a request starts with nothing collected.
Named ==
  /\ \A n \in Erasures :
       EraseJob(n) \in asking \/ job[EraseJob(n)].pc # "none" => request[n].status # "NONE"
  /\ \A n \in Erasures, w \in Workers :
       run[w].pc # "idle" /\ run[w].job = EraseJob(n) => request[n].status # "NONE"
  /\ \A n \in Erasures : request[n].status = "NONE" => request[n].outbox = {}

AfterRows == {"note", "objects", "left", "done"}

\* What an erasure does after the rows, or without them, it does when they are gone.
GoneWhen ==
  /\ \A w \in Workers :
       run[w].pc \in AfterRows \/ (run[w].pc = "mark" /\ ~run[w].rows) => gone
  /\ \A n \in Erasures :
       request[n].status # "NONE" /\ (~request[n].user \/ request[n].deleted) => gone

\* A handler writes the request of its own job.
LEMMA HandlerRequests ==
  ASSUME VaultTypes, NEW w \in Workers, Tryon(w) \/ Erase(w) \/ Errs(w)
  PROVE  \/ request' = request
         \/ \E n \in Erasures :
              /\ run[w].job = EraseJob(n) /\ run[w].pc # "idle"
              /\ \A m \in Erasures \ {n} : request'[m] = request[m]
              /\ request'[n].status = request[n].status \/ request'[n].status \in {"RUNNING", "DONE"}
              /\ request'[n].user = request[n].user \/ run[w].pc \in AfterRows
              /\ request'[n].deleted = request[n].deleted \/ ~request'[n].deleted \/ run[w].pc \in AfterRows
<1>t. AskedFits /\ QueueFits
  BY DEF VaultTypes
<1>1. CASE MarkRunning(w) \/ KeepKeys(w) \/ NoteDeleted(w) \/ KeepLeft(w) \/ FinishErasure(w)
  <2>1. PICK n \in Erasures : n = run[w].job.n /\ run[w].job = EraseJob(n) /\ run[w].pc # "idle"
                              /\ run[w].keys \in SUBSET Keys
    BY <1>1, <1>t, AtErase DEF MarkRunning, KeepKeys, NoteDeleted, KeepLeft, FinishErasure
  <2>2. Of(w) = request[n] /\ request[n] \in RequestRows
    BY <2>1, <1>t DEF Of, AskedFits
  <2>3. CASE UNCHANGED request
    BY <2>3
  <2>4. CASE MarkRunning(w) /\ ~UNCHANGED request
    <3>1. PICK r \in RequestRows : r = [request[n] EXCEPT !.status = "RUNNING"]
      BY <2>2, RequestUpdates
    <3>2. r.status = "RUNNING" /\ r.user = request[n].user /\ r.deleted = request[n].deleted
      BY <2>2, <3>1 DEF RequestRows
    <3>3. Notes(w, r)
      BY <2>2, <2>4, <3>1 DEF MarkRunning
    <3> QED BY <2>1, <3>2, <3>3, <1>t, NotesRow
  <2>5. CASE KeepKeys(w)
    <3>1. PICK r \in RequestRows : r = [request[n] EXCEPT !.outbox = run[w].keys, !.deleted = FALSE]
      BY <2>1, <2>2, RequestUpdates
    <3>2. r.status = request[n].status /\ r.user = request[n].user /\ ~r.deleted
      BY <2>2, <3>1 DEF RequestRows
    <3>3. Notes(w, r)
      BY <2>2, <2>5, <3>1 DEF KeepKeys
    <3> QED BY <2>1, <3>2, <3>3, <1>t, NotesRow
  <2>6. CASE NoteDeleted(w) \/ KeepLeft(w)
    <3>1. PICK r \in RequestRows : Notes(w, r) /\ r.status = request[n].status
      <4>1. PICK r \in RequestRows : r = [request[n] EXCEPT !.deleted = TRUE]
        BY <2>2, RequestUpdates
      <4>2. PICK q \in RequestRows : q = [request[n] EXCEPT !.outbox = run[w].keys, !.deleted = TRUE]
        BY <2>1, <2>2, RequestUpdates
      <4>3. r.status = request[n].status /\ q.status = request[n].status
        BY <2>2, <4>1, <4>2 DEF RequestRows
      <4>4. Notes(w, r) \/ Notes(w, q)
        BY <2>2, <2>6, <4>1, <4>2 DEF NoteDeleted, KeepLeft
      <4> QED BY <4>3, <4>4
    <3>2. run[w].pc \in AfterRows
      BY <2>6 DEF NoteDeleted, KeepLeft, At, AfterRows
    <3> QED BY <2>1, <3>1, <3>2, <1>t, NotesRow
  <2>7. CASE FinishErasure(w)
    <3>1. PICK r \in RequestRows :
            r = [request[n] EXCEPT !.status = "DONE", !.user = FALSE, !.deleted = TRUE, !.outbox = {}]
      BY <2>2, RequestUpdates
    <3>2. r.status = "DONE"
      BY <2>2, <3>1 DEF RequestRows
    <3>3. Notes(w, r) /\ run[w].pc \in AfterRows
      BY <2>2, <2>7, <3>1 DEF FinishErasure, At, AfterRows
    <3> QED BY <2>1, <3>2, <3>3, <1>t, NotesRow
  <2> QED BY <1>1, <2>3, <2>4, <2>5, <2>6, <2>7
<1>2. CASE ~(MarkRunning(w) \/ KeepKeys(w) \/ NoteDeleted(w) \/ KeepLeft(w) \/ FinishErasure(w))
  BY <1>2 DEF Tryon, Erase, Errs, vault, ReadPreview, Render, Put, Finish, ReadRequest, ListKeys,
       DeleteRows, DeleteObjects
<1> QED BY <1>1, <1>2

\* So does the job's settling.
LEMMA SettledRequest ==
  ASSUME VaultTypes, NEW j \in Jobs, Settle(j)
  PROVE  \/ request' = request
         \/ \E n \in Erasures :
              /\ j = EraseJob(n)
              /\ \A m \in Erasures \ {n} : request'[m] = request[m]
              /\ request'[n].status = "FAILED" /\ request[n].status # "DONE"
              /\ request'[n].user = request[n].user /\ request'[n].deleted = request[n].deleted
              /\ request'[n].outbox = request[n].outbox
<1>t. AskedFits
  BY DEF VaultTypes
<1>1. CASE j.queue = "erase" /\ request[j.n].status # "DONE"
           /\ request' = [request EXCEPT ![j.n].status = "FAILED"]
  <2>1. j.n \in Erasures /\ j = EraseJob(j.n) /\ request[j.n] \in RequestRows
    BY <1>1, <1>t, JobShapes DEF AskedFits
  <2> QED BY <1>1, <2>1, <1>t DEF AskedFits, RequestRows
<1> QED BY <1>1, JobShapes DEF Settle, Settled

\* What is asked for is open, or new.
LEMMA AskedRequest ==
  ASSUME VaultTypes, AskErasure
  PROVE  \E n \in Erasures :
           /\ asking' = asking \cup {EraseJob(n)}
           /\ \A m \in Erasures \ {n} : request'[m] = request[m]
           /\ \/ request'[n] = request[n] /\ request[n].status \in {"PENDING", "RUNNING"}
              \/ /\ request[n].status = "NONE" /\ request'[n].status = "PENDING"
                 /\ request'[n].user /\ ~request'[n].deleted /\ request'[n].outbox = {}
<1>t. AskedFits
  BY DEF VaultTypes
<1>1. CASE \E n \in Erasures : Open(n) /\ asking' = asking \cup {EraseJob(n)} /\ UNCHANGED request
  BY <1>1 DEF Open
<1>2. ASSUME NEW n \in Erasures, request[n].status = "NONE",
             request' = [request EXCEPT ![n] = [NoRequest EXCEPT !.status = "PENDING", !.user = TRUE]],
             asking' = asking \cup {EraseJob(n)}
      PROVE  /\ asking' = asking \cup {EraseJob(n)}
             /\ \A m \in Erasures \ {n} : request'[m] = request[m]
             /\ request[n].status = "NONE" /\ request'[n].status = "PENDING"
             /\ request'[n].user /\ ~request'[n].deleted /\ request'[n].outbox = {}
  BY <1>2, <1>t DEF AskedFits, NoRequest
<1> QED BY <1>1, <1>2 DEF AskErasure

LEMMA NamedStep ==
  ASSUME VaultTypes, Awaits, Named, AccountNext
  PROVE  Named'
<1>t. QueueFits /\ RunsJobs
  BY DEF VaultTypes
<1>1. ASSUME NEW w \in Workers, Tryon(w) \/ Erase(w) \/ Errs(w) PROVE Named'
  <2>1. run[w].pc # "idle" /\ (Advances(w) \/ Returns(w) \/ Throws(w))
    BY <1>1, HandlerMoves
  <2>2. asking' = asking /\ \A k \in Jobs : job[k].pc = "none" => job'[k].pc = "none"
    BY <2>1, <1>1, HandlerJobs, HandlerRows
  <2>3. \A v \in Workers : run'[v].pc # "idle" => run[v].pc # "idle" /\ run'[v].job = run[v].job
    <3>1. CASE Advances(w)
      BY <3>1 DEF Advances
    <3>2. CASE Returns(w) \/ Throws(w)
      BY <3>2, <2>1, <1>t, ReturnsNow, ThrowsNow, FreshRuns
    <3> QED BY <2>1, <3>1, <3>2
  <2>4. \A n \in Erasures : \/ request'[n] = request[n]
                            \/ request[n].status # "NONE" /\ request'[n].status # "NONE"
    BY <1>1, HandlerRequests DEF Named
  <2> QED BY <2>2, <2>3, <2>4, JobNames DEF Named
<1>2. CASE AskErasure
  <2>1. run' = run /\ job' = job
    BY <1>2 DEF AskErasure
  <2>2. \A m, n \in Erasures : EraseJob(m) = EraseJob(n) => m = n
    BY JobNames
  <2>3. PICK n \in Erasures :
           /\ asking' = asking \cup {EraseJob(n)}
           /\ \A m \in Erasures \ {n} : request'[m] = request[m]
           /\ request'[n].status # "NONE"
    BY <1>2, AskedRequest
  <2> QED BY <2>1, <2>2, <2>3 DEF Named
<1>3. ASSUME request' = request, asking' \subseteq asking, run' = run, job' = job PROVE Named'
  BY <1>3 DEF Named
<1>4. ASSUME NEW i \in Items, Claim(i) PROVE Named'
  <2>1. /\ request' = request /\ run' = run /\ job' = job
        /\ asking' = asking \cup {TryonJob(i, preview[i].claim + 1)}
    BY <1>4 DEF Claim
  <2>2. \A n \in Erasures : EraseJob(n) # TryonJob(i, preview[i].claim + 1)
    BY DEF EraseJob, TryonJob
  <2> QED BY <2>1, <2>2 DEF Named
<1>5. ASSUME NEW j \in Jobs, Queue(j) PROVE Named'
  <2>1. /\ request' = request /\ asking' \subseteq asking /\ run' = run /\ j \in asking
        /\ \A k \in Jobs \ {j} : job'[k] = job[k]
    BY <1>5, <1>t DEF Queue, vault, QueueFits
  <2> QED BY <2>1, JobNames DEF Named
<1>6. ASSUME NEW j \in Jobs, Take(j) PROVE Named'
  <2>1. request' = request /\ asking' = asking
    BY <1>6 DEF Take, vault
  <2>2. PICK w \in Workers :
           /\ job[j].pc = "waiting" /\ run'[w].job = j /\ \A v \in Workers \ {w} : run'[v] = run[v]
           /\ \A k \in Jobs \ {j} : job'[k] = job[k]
    BY <1>6, <1>t, TakenUp
  <2>3. \A n \in Erasures : job'[EraseJob(n)].pc # "none" => job[EraseJob(n)].pc # "none"
    BY <2>2, JobNames
  <2>4. \A n \in Erasures, v \in Workers : run'[v].pc # "idle" /\ run'[v].job = EraseJob(n) =>
                                              request[n].status # "NONE"
    BY <2>2 DEF Named
  <2> QED BY <2>1, <2>3, <2>4 DEF Named
<1>7. ASSUME NEW j \in Jobs, Settle(j) PROVE Named'
  <2>1. /\ asking' = asking /\ run' = run /\ job[j].pc = "settling"
        /\ \A k \in Jobs \ {j} : job'[k] = job[k]
    BY <1>7, <1>t DEF Settle, QueueFits
  <2>2. \A n \in Erasures : \/ request'[n] = request[n]
                            \/ request[n].status # "NONE" /\ request'[n].status # "NONE"
    BY <1>7, <2>1, SettledRequest DEF Named
  <2> QED BY <2>1, <2>2, JobNames DEF Named
<1>8. CASE WorkerDies
  <2>1. request' = request /\ asking' = asking
    BY <1>8 DEF WorkerDies, vault
  <2>2. \A w \in Workers : run'[w].pc = "idle"
    BY <1>8, <1>t, WorkersGone
  <2>3. \A k \in Jobs : job[k].pc = "none" => job'[k] = job[k]
    BY <1>8, <1>t, WorkersGone
  <2> QED BY <2>1, <2>2, <2>3, JobNames DEF Named
<1>9. ASSUME NEW w \in Workers, Outlives(w) PROVE Named'
  <2>1. request' = request /\ asking' = asking /\ run[w].pc # "idle"
    BY <1>9, <1>t DEF Outlives, vault, RunsJobs
  <2>2. /\ run'[w].pc = run[w].pc /\ run'[w].job = run[w].job
        /\ \A v \in Workers \ {w} : run'[v] = run[v]
        /\ \A k \in Jobs \ {run[w].job} : job'[k] = job[k]
    BY <2>1, <1>9, <1>t, OutlivesNow
  <2> QED BY <2>1, <2>2, JobNames DEF Named
<1>10. ApiDies \/ (\E j \in Jobs : QueueFails(j)) \/ UNCHANGED <<vault, queues>> => Named'
  BY <1>3 DEF ApiDies, QueueFails, vault, queues
<1> QED BY <1>1, <1>2, <1>4, <1>5, <1>6, <1>7, <1>8, <1>9, <1>10 DEF AccountNext, Works

LEMMA GoneForGood ==
  ASSUME AccountNext, gone
  PROVE  gone'
BY DEF AccountNext, Works, Tryon, Erase, Claim, AskErasure, ApiDies, WorkerDies, Queue, Take, Settle,
       QueueFails, Errs, Outlives, ReadPreview, Render, Put, Finish, ReadRequest, MarkRunning,
       ListKeys, KeepKeys, DeleteRows, NoteDeleted, DeleteObjects, KeepLeft, FinishErasure, vault

\* How a handler comes to where the rows are gone, or to a picture's end
LEMMA HandlerGoes ==
  ASSUME VaultTypes, NEW w \in Workers, Tryon(w) \/ Erase(w) \/ Errs(w)
  PROVE  /\ \A v \in Workers \ {w} : run'[v] = run[v]
         /\ \/ run'[w].pc \notin AfterRows \cup {"mark", "finish"}
            \/ /\ At(w, "erase", "read") /\ run'[w].pc = "mark"
               /\ run'[w].rows = (Of(w).user /\ ~Of(w).deleted)
            \/ run[w].pc = "mark" /\ ~run[w].rows /\ run'[w].pc = "objects"
            \/ DeleteRows(w) /\ run'[w].pc = "note"
            \/ run[w].pc \in AfterRows /\ run'[w].pc # "finish"
            \/ Put(w) /\ run'[w].pc = "finish" /\ run'[w].job = run[w].job
<1>t. QueueFits /\ RunsJobs
  BY DEF VaultTypes
<1>1. run[w].pc # "idle" /\ (Advances(w) \/ Returns(w) \/ Throws(w))
  BY HandlerMoves
<1>2. \A v \in Workers \ {w} : run'[v] = run[v]
  BY <1>1, <1>t, ReturnsNow, ThrowsNow DEF Advances
<1>3. Returns(w) \/ Throws(w) => run'[w].pc = "idle"
  BY <1>1, <1>t, ReturnsNow, ThrowsNow, FreshRuns
<1>4. CASE Returns(w) \/ Throws(w)
  BY <1>2, <1>3, <1>4 DEF AfterRows
<1>5. \A pc \in RunPcs : Goes(w, pc) => run'[w].pc = pc /\ run'[w].job = run[w].job
  BY <1>t, GoesOn
<1>6. CASE ReadRequest(w) /\ ~Returns(w)
  <2>1. PICK x \in Runs : x = [run[w] EXCEPT !.pc = "mark", !.keys = Of(w).outbox,
                                               !.rows = Of(w).user /\ ~Of(w).deleted]
    <3>1. run[w] \in Runs /\ Of(w) \in RequestRows
      BY <1>6, <1>t, AtErase DEF ReadRequest, Of, VaultTypes, AskedFits
    <3> QED BY <3>1, RunValues DEF RequestRows
  <2>2. x.pc = "mark" /\ x.rows = (Of(w).user /\ ~Of(w).deleted)
    BY <2>1, <1>t DEF QueueFits, Runs
  <2>3. run' = [run EXCEPT ![w] = x]
    BY <1>6, <2>1 DEF ReadRequest
  <2> QED BY <2>2, <2>3, <1>2, <1>6, <1>t DEF ReadRequest, QueueFits
<1>7. CASE DeleteObjects(w)
  <2>1. run[w].pc = "objects"
    BY <1>7 DEF DeleteObjects, At
  <2>2. PICK S : run' = [run EXCEPT ![w] = [@ EXCEPT !.keys = S,
                                        !.pc = IF run[w].keys = {} THEN "done" ELSE "left"]]
    BY <1>7 DEF DeleteObjects
  <2>3. run'[w].pc # "finish"
    BY <2>2, <1>t DEF QueueFits, Runs
  <2> QED BY <2>1, <2>3, <1>2 DEF AfterRows
<1>8. CASE ListKeys(w)
  BY <1>2, <1>8, <1>t DEF ListKeys, QueueFits, Runs, AfterRows
<1>9. CASE ReadPreview(w) \/ Render(w) \/ Put(w)
  BY <1>2, <1>4, <1>5, <1>9 DEF ReadPreview, Render, Put, AfterRows, RunPcs
<1>10. CASE KeepKeys(w) \/ DeleteRows(w) \/ NoteDeleted(w) \/ KeepLeft(w)
  BY <1>2, <1>4, <1>5, <1>10 DEF KeepKeys, DeleteRows, NoteDeleted, KeepLeft, At, AfterRows, RunPcs
<1>11. CASE MarkRunning(w)
  BY <1>2, <1>4, <1>5, <1>11 DEF MarkRunning, At, AfterRows, RunPcs
<1>12. Finish(w) \/ FinishErasure(w) \/ Errs(w) => Returns(w) \/ Throws(w)
  BY DEF Finish, FinishErasure, Errs
<1> QED BY <1>4, <1>6, <1>7, <1>8, <1>9, <1>10, <1>11, <1>12 DEF Tryon, Erase

LEMMA GoneStep ==
  ASSUME VaultTypes, Named, GoneWhen, AccountNext
  PROVE  GoneWhen'
<1>t. QueueFits /\ RunsJobs /\ AskedFits
  BY DEF VaultTypes
<1>g. gone => gone'
  BY GoneForGood
<1>1. ASSUME NEW w \in Workers, Tryon(w) \/ Erase(w) \/ Errs(w) PROVE GoneWhen'
  <2>1. \A v \in Workers :
          run'[v].pc \in AfterRows \/ (run'[v].pc = "mark" /\ ~run'[v].rows) => gone'
    <3>1. /\ \A v \in Workers \ {w} : run'[v] = run[v]
          /\ \/ run'[w].pc \notin AfterRows \cup {"mark"}
             \/ /\ At(w, "erase", "read") /\ run'[w].pc = "mark"
                /\ run'[w].rows = (Of(w).user /\ ~Of(w).deleted)
             \/ run[w].pc = "mark" /\ ~run[w].rows
             \/ DeleteRows(w)
             \/ run[w].pc \in AfterRows
      BY <1>1, HandlerGoes DEF AfterRows
    <3>2. DeleteRows(w) => gone'
      BY DEF DeleteRows
    <3>3. At(w, "erase", "read") => (Of(w).user /\ ~Of(w).deleted) \/ gone
      <4> SUFFICES ASSUME At(w, "erase", "read") PROVE (Of(w).user /\ ~Of(w).deleted) \/ gone
        OBVIOUS
      <4>1. run[w].job.n \in Erasures /\ run[w].job = EraseJob(run[w].job.n) /\ run[w].pc = "read"
        BY <1>t, AtErase
      <4>2. request[run[w].job.n].status # "NONE"
        BY <4>1 DEF Named
      <4> QED BY <4>1, <4>2 DEF GoneWhen, Of
    <3> QED BY <3>1, <3>2, <3>3, <1>g DEF GoneWhen, AfterRows
  <2>2. ASSUME NEW n \in Erasures, request'[n].status # "NONE", ~request'[n].user \/ request'[n].deleted
        PROVE  gone'
    <3>1. CASE request'[n] = request[n]
      BY <3>1, <2>2, <1>g DEF GoneWhen
    <3>2. CASE request'[n] # request[n]
      <4>1. /\ run[w].job = EraseJob(n) /\ run[w].pc # "idle"
            /\ request'[n].user = request[n].user \/ run[w].pc \in AfterRows
            /\ request'[n].deleted = request[n].deleted \/ ~request'[n].deleted \/ run[w].pc \in AfterRows
        BY <3>2, <1>1, HandlerRequests
      <4>2. request[n].status # "NONE"
        BY <4>1 DEF Named
      <4> QED BY <4>1, <4>2, <2>2, <1>g DEF GoneWhen
    <3> QED BY <3>1, <3>2
  <2> QED BY <2>1, <2>2 DEF GoneWhen
<1>2. CASE AskErasure
  <2>1. run' = run
    BY <1>2 DEF AskErasure
  <2>2. \A n \in Erasures : request'[n] = request[n] \/ (request'[n].user /\ ~request'[n].deleted)
    BY <1>2, AskedRequest
  <2> QED BY <2>1, <2>2, <1>g DEF GoneWhen
<1>3. ASSUME NEW j \in Jobs, Settle(j) PROVE GoneWhen'
  <2>1. run' = run /\ job[j].pc = "settling"
    BY <1>3 DEF Settle
  <2>2. \A n \in Erasures : \/ request'[n] = request[n]
                            \/ /\ request[n].status # "NONE"
                               /\ request'[n].user = request[n].user /\ request'[n].deleted = request[n].deleted
    BY <1>3, <2>1, SettledRequest DEF Named
  <2> QED BY <2>1, <2>2, <1>g DEF GoneWhen
<1>4. ASSUME request' = request,
             \A w \in Workers : run'[w].pc \in {"idle", "read"}
                                \/ (run'[w].pc = run[w].pc /\ run'[w].rows = run[w].rows)
      PROVE  GoneWhen'
  BY <1>4, <1>g DEF GoneWhen, AfterRows
<1>5. ASSUME NEW j \in Jobs, Take(j) PROVE GoneWhen'
  <2>1. PICK w \in Workers : run'[w].pc = "read" /\ \A v \in Workers \ {w} : run'[v] = run[v]
    BY <1>5, <1>t, TakenUp
  <2>2. request' = request
    BY <1>5 DEF Take, vault
  <2> QED BY <2>1, <2>2, <1>4
<1>6. CASE WorkerDies
  BY <1>6, <1>4, <1>t, WorkersGone DEF WorkerDies, vault
<1>7. ASSUME NEW w \in Workers, Outlives(w) PROVE GoneWhen'
  <2>1. request' = request /\ run[w].pc # "idle"
    BY <1>7, <1>t DEF Outlives, vault, RunsJobs
  <2>2. /\ run'[w].pc = run[w].pc /\ run'[w].rows = run[w].rows
        /\ \A v \in Workers \ {w} : run'[v] = run[v]
    BY <2>1, <1>7, <1>t, OutlivesNow
  <2> QED BY <2>1, <2>2, <1>4
<1>8. (\E i \in Items : Claim(i)) \/ ApiDies \/ (\E j \in Jobs : Queue(j) \/ QueueFails(j))
        \/ UNCHANGED <<vault, queues>> => GoneWhen'
  BY <1>4 DEF Claim, ApiDies, Queue, QueueFails, vault, queues
<1> QED BY <1>1, <1>2, <1>3, <1>5, <1>6, <1>7, <1>8 DEF AccountNext, Works

(***************************************************************************)
(* Pictures and their objects.                                             *)
(***************************************************************************)
\* A picture is stored before its row says so.
StoredFirst ==
  ~gone =>
    /\ \A i \in Items : preview[i].status = "READY" => Picture(i) \in storage
    /\ \A w \in Workers : run[w].pc = "finish" => Picture(run[w].job.item) \in storage

LEMMA ObjectsStay ==
  ASSUME GoneWhen, AccountNext, ~gone
  PROVE  storage \subseteq storage'
<1>1. ASSUME NEW w \in Workers, DeleteObjects(w) PROVE FALSE
  <2>1. run[w].pc = "objects"
    BY <1>1 DEF DeleteObjects, At
  <2> QED BY <2>1 DEF GoneWhen, AfterRows
<1>2. ASSUME NEW w \in Workers, Put(w) PROVE storage \subseteq storage'
  BY <1>2 DEF Put
<1>3. ASSUME NEW w \in Workers, (Tryon(w) /\ ~Put(w)) \/ (Erase(w) /\ ~DeleteObjects(w)) \/ Errs(w)
      PROVE  storage' = storage
  BY <1>3 DEF Tryon, Erase, Errs, vault, ReadPreview, Render, Finish, ReadRequest, MarkRunning, ListKeys,
       KeepKeys, DeleteRows, NoteDeleted, KeepLeft, FinishErasure
<1>4. ASSUME \A w \in Workers : ~Tryon(w) /\ ~Erase(w) /\ ~Errs(w) PROVE storage' = storage
  BY <1>4 DEF AccountNext, Works, Claim, AskErasure, ApiDies, WorkerDies, Queue, Take, Settle,
       QueueFails, Outlives, vault
<1> QED BY <1>1, <1>2, <1>3, <1>4

\* A picture is ready when its job says so, and then until the rows are deleted.
LEMMA ReadyRows ==
  ASSUME VaultTypes, AccountNext, ~gone', NEW i \in Items
  PROVE  /\ preview[i].status = "READY" => preview'[i].status = "READY"
         /\ preview'[i].status = "READY" =>
              \/ preview[i].status = "READY"
              \/ \E w \in Workers : run[w].pc = "finish" /\ run[w].job.item = i
<1>t. RowsFit /\ QueueFits
  BY DEF VaultTypes
<1>1. ASSUME NEW k \in Items, preview' = Finished(k, "FAILED") PROVE preview'[i].status = "READY" <=> preview[i].status = "READY"
  BY <1>1, <1>t, FinishedRow
<1>2. ASSUME NEW k \in Items, Claim(k) PROVE preview'[i].status = "READY" <=> preview[i].status = "READY"
  BY <1>2, <1>t DEF Claim, Claimable, RowsFit
<1>3. ASSUME NEW w \in Workers, Finish(w)
      PROVE  /\ preview[i].status = "READY" => preview'[i].status = "READY"
             /\ preview'[i].status = "READY" =>
                  preview[i].status = "READY" \/ (run[w].pc = "finish" /\ run[w].job.item = i)
  <2>1. PICK pc \in {"finish", "fail"} :
          /\ At(w, "tryon", pc)
          /\ preview' = Finished(run[w].job.item, IF pc = "finish" THEN "READY" ELSE "FAILED")
    BY <1>3 DEF Finish
  <2>2. run[w].job.item \in Items /\ run[w].pc = pc
    BY <2>1, <1>t, AtTryon
  <2>3. CASE pc = "fail"
    BY <2>1, <2>2, <2>3, <1>1
  <2>4. CASE pc = "finish"
    BY <2>1, <2>2, <2>4, <1>t, FinishedRow
  <2> QED BY <2>1, <2>3, <2>4
<1>4. ASSUME NEW j \in Jobs, QueueFails(j) \/ Settle(j) PROVE preview'[i].status = "READY" <=> preview[i].status = "READY"
  <2>1. preview' = preview \/ (j.queue = "tryon" /\ preview' = Finished(j.item, "FAILED"))
    BY <1>4 DEF QueueFails, Settle, Settled
  <2> QED BY <2>1, <1>1, JobShapes
<1>5. ASSUME NEW w \in Workers, DeleteRows(w) PROVE preview' = preview
  BY <1>5 DEF DeleteRows
<1>6. ASSUME NEW w \in Workers, (Tryon(w) /\ ~Finish(w)) \/ (Erase(w) /\ ~DeleteRows(w)) \/ Errs(w)
      PROVE  preview' = preview
  BY <1>6 DEF Tryon, Erase, Errs, vault, ReadPreview, Render, Put, ReadRequest, MarkRunning, ListKeys,
       KeepKeys, DeleteObjects, NoteDeleted, KeepLeft, FinishErasure
<1>7. ASSUME \A w \in Workers : ~Tryon(w) /\ ~Erase(w) /\ ~Errs(w), \A k \in Items : ~Claim(k),
             \A j \in Jobs : ~QueueFails(j) /\ ~Settle(j)
      PROVE  preview' = preview
  BY <1>7 DEF AccountNext, Works, AskErasure, ApiDies, WorkerDies, Queue, Take, Outlives, vault
<1> QED BY <1>2, <1>3, <1>4, <1>5, <1>6, <1>7

\* How a handler comes to write that a picture is ready
LEMMA ReadyNext ==
  ASSUME VaultTypes, AccountNext, NEW v \in Workers, run'[v].pc = "finish"
  PROVE  \/ run[v].pc = "finish" /\ run'[v].job = run[v].job
         \/ Put(v) /\ run'[v].job = run[v].job
<1>t. QueueFits /\ RunsJobs
  BY DEF VaultTypes
<1>1. ASSUME NEW w \in Workers, Tryon(w) \/ Erase(w) \/ Errs(w)
      PROVE  run'[v] = run[v] \/ (Put(v) /\ run'[v].job = run[v].job)
  <2>1. v # w => run'[v] = run[v]
    BY <1>1, HandlerGoes
  <2>2. v = w => Put(v) /\ run'[v].job = run[v].job
    BY <1>1, HandlerGoes DEF AfterRows
  <2> QED BY <2>1, <2>2
<1>2. ASSUME NEW j \in Jobs, Take(j) PROVE run'[v] = run[v]
  BY <1>2, <1>t, TakenUp
<1>3. WorkerDies => FALSE
  BY <1>t, WorkersGone
<1>4. ASSUME NEW w \in Workers, Outlives(w) PROVE run'[v].pc = run[v].pc /\ run'[v].job = run[v].job
  <2>1. run[w].pc # "idle"
    BY <1>4, <1>t DEF Outlives, RunsJobs
  <2>2. /\ run'[w].pc = run[w].pc /\ run'[w].job = run[w].job
        /\ \A u \in Workers \ {w} : run'[u] = run[u]
    BY <2>1, <1>4, <1>t, OutlivesNow
  <2> QED BY <2>2
<1>5. ASSUME NEW j \in Jobs, Queue(j) \/ Settle(j) PROVE run' = run
  BY <1>5 DEF Queue, Settle
<1> QED BY <1>1, <1>2, <1>3, <1>4, <1>5, OtherMoves

LEMMA StoredStep ==
  ASSUME VaultTypes, GoneWhen, StoredFirst, AccountNext
  PROVE  StoredFirst'
<1> SUFFICES ASSUME ~gone'
             PROVE  /\ \A i \in Items : preview'[i].status = "READY" => Picture(i) \in storage'
                    /\ \A w \in Workers : run'[w].pc = "finish" => Picture(run'[w].job.item) \in storage'
  BY DEF StoredFirst, Picture
<1>1. ~gone /\ storage \subseteq storage'
  BY GoneForGood, ObjectsStay
<1>2. ASSUME NEW i \in Items, preview'[i].status = "READY" PROVE Picture(i) \in storage'
  BY <1>1, <1>2, ReadyRows DEF StoredFirst
<1>3. ASSUME NEW w \in Workers, run'[w].pc = "finish" PROVE Picture(run'[w].job.item) \in storage'
  <2>1. CASE run[w].pc = "finish" /\ run'[w].job = run[w].job
    BY <2>1, <1>1 DEF StoredFirst
  <2>2. CASE Put(w) /\ run'[w].job = run[w].job
    BY <2>2 DEF Put
  <2> QED BY <2>1, <2>2, <1>3, ReadyNext
<1> QED BY <1>2, <1>3

LEMMA PictureStaysStep ==
  ASSUME VaultTypes, GoneWhen, StoredFirst, AccountNext, ~gone', NEW i \in Items, preview[i].status = "READY"
  PROVE  preview'[i].status = "READY" /\ Picture(i) \in storage'
BY GoneForGood, ObjectsStay, ReadyRows DEF StoredFirst

(***************************************************************************)
(* Outboxes.                                                               *)
(***************************************************************************)
EraseRun(w) == run[w].pc # "idle" /\ run[w].job.queue = "erase"

\* What the attempt at w knows of its request's outbox
KnowsOutbox(w) ==
  LET r == request[run[w].job.n]
  IN  /\ run[w].pc \notin {"read", "mark"} => r.status = "RUNNING"
      /\ run[w].pc \in {"mark", "list", "rows", "note", "objects"} => r.outbox = run[w].keys
      /\ run[w].pc = "keep" => r.outbox \subseteq run[w].keys
      /\ run[w].pc = "left" =>
           gone /\ run[w].keys \subseteq r.outbox /\ (r.outbox \ run[w].keys) \cap due \cap storage = {}
      /\ run[w].pc = "done" => r.outbox = {}

OutboxSound ==
  ~outlived => \A w \in Workers : EraseRun(w) => run[w].awaited /\ KnowsOutbox(w)

\* The second half of NothingForgotten
Remembered ==
  gone /\ ~outlived =>
    \A k \in due \cap storage :
      \E n \in Erasures : k \in request[n].outbox /\ request[n].status # "DONE"

\* What each step of an erasure writes
LEMMA WrittenRequest ==
  ASSUME VaultTypes, NEW w \in Workers,
         MarkRunning(w) \/ KeepKeys(w) \/ NoteDeleted(w) \/ KeepLeft(w) \/ FinishErasure(w)
  PROVE  LET n == run[w].job.n
             r == request'[n]
             o == request[n]
         IN  /\ n \in Erasures /\ run[w].job = EraseJob(n) /\ EraseRun(w)
             /\ \A m \in Erasures \ {n} : request'[m] = request[m]
             /\ MarkRunning(w) => request' = request \/ (r.status = "RUNNING" /\ r.outbox = o.outbox)
             /\ KeepKeys(w) => r.status = o.status /\ r.outbox = run[w].keys
             /\ NoteDeleted(w) => r.status = o.status /\ r.outbox = o.outbox
             /\ KeepLeft(w) => r.status = o.status /\ r.outbox = run[w].keys
             /\ FinishErasure(w) => r.status = "DONE" /\ r.outbox = {}
<1>t. AskedFits /\ QueueFits
  BY DEF VaultTypes
<1>1. PICK n \in Erasures : n = run[w].job.n /\ run[w].job = EraseJob(n) /\ run[w].pc # "idle"
                            /\ run[w].keys \in SUBSET Keys
  BY <1>t, AtErase DEF MarkRunning, KeepKeys, NoteDeleted, KeepLeft, FinishErasure
<1>2. Of(w) = request[n] /\ request[n] \in RequestRows /\ EraseRun(w)
  BY <1>1, <1>t, JobNames DEF Of, AskedFits, EraseRun
<1>3. MarkRunning(w) => request' = request \/ Notes(w, [Of(w) EXCEPT !.status = "RUNNING"])
  BY DEF MarkRunning
<1>4. \A m \in Erasures \ {n} : request'[m] = request[m]
  BY <1>1, <1>3, <1>t DEF KeepKeys, NoteDeleted, KeepLeft, FinishErasure, Notes, AskedFits
<1>5. ASSUME NEW r, Notes(w, r) PROVE request'[n] = r
  BY <1>1, <1>5, <1>t DEF Notes, AskedFits
<1>6. MarkRunning(w) => request' = request
        \/ (request'[n].status = "RUNNING" /\ request'[n].outbox = request[n].outbox)
  BY <1>2, <1>3, <1>5 DEF RequestRows
<1>7. KeepKeys(w) => request'[n].status = request[n].status /\ request'[n].outbox = run[w].keys
  BY <1>2, <1>5 DEF RequestRows, KeepKeys
<1>8. NoteDeleted(w) => request'[n].status = request[n].status /\ request'[n].outbox = request[n].outbox
  BY <1>2, <1>5 DEF RequestRows, NoteDeleted
<1>9. KeepLeft(w) => request'[n].status = request[n].status /\ request'[n].outbox = run[w].keys
  BY <1>2, <1>5, ZenonT(30) DEF RequestRows, KeepLeft
<1>10. FinishErasure(w) => request'[n].status = "DONE" /\ request'[n].outbox = {}
  BY <1>2, <1>5 DEF RequestRows, FinishErasure
<1> QED BY <1>1, <1>2, <1>4, <1>6, <1>7, <1>8, <1>9, <1>10

\* Once the rows are gone, no more objects are due.
LEMMA DueShrinks ==
  ASSUME AccountNext, gone
  PROVE  due' \cap storage' \subseteq due \cap storage
<1>1. ASSUME NEW w \in Workers, Put(w) PROVE due' \cap storage' \subseteq due \cap storage
  BY <1>1 DEF Put
<1>2. ASSUME NEW w \in Workers, DeleteRows(w) PROVE due' = due /\ storage' = storage
  BY <1>2 DEF DeleteRows
<1>3. ASSUME NEW w \in Workers, DeleteObjects(w) PROVE due' = due /\ storage' \subseteq storage
  BY <1>3 DEF DeleteObjects
<1>4. ASSUME NEW w \in Workers,
             (Tryon(w) /\ ~Put(w)) \/ (Erase(w) /\ ~DeleteObjects(w) /\ ~DeleteRows(w)) \/ Errs(w)
      PROVE  due' = due /\ storage' = storage
  BY <1>4 DEF Tryon, Erase, Errs, vault, ReadPreview, Render, Finish, ReadRequest, MarkRunning, ListKeys,
       KeepKeys, NoteDeleted, KeepLeft, FinishErasure
<1>5. ASSUME \A w \in Workers : ~Tryon(w) /\ ~Erase(w) /\ ~Errs(w) PROVE due' = due /\ storage' = storage
  BY <1>5 DEF AccountNext, Works, Claim, AskErasure, ApiDies, WorkerDies, Queue, Take, Settle,
       QueueFails, Outlives, vault
<1> QED BY <1>1, <1>2, <1>3, <1>4, <1>5

\* What an attempt knows stays true while it and its request rest.
LEMMA KnowsStays ==
  ASSUME AccountNext, NEW w \in Workers, KnowsOutbox(w), run'[w] = run[w],
         request'[run[w].job.n] = request[run[w].job.n]
  PROVE  KnowsOutbox(w)'
BY GoneForGood, DueShrinks DEF KnowsOutbox

\* And through its own steps
LEMMA KnowsNext ==
  ASSUME VaultTypes, GoneWhen, AccountNext, NEW w \in Workers, Erase(w), KnowsOutbox(w)
  PROVE  run'[w].pc = "idle" \/ KnowsOutbox(w)'
<1>t. QueueFits /\ AskedFits /\ RunsJobs
  BY DEF VaultTypes
<1>0. run[w].pc # "idle" /\ run[w] \in Runs /\ run[w].job.n \in Erasures
  <2>1. \E pc \in RunPcs \ {"idle"} : At(w, "erase", pc)
    BY DEF Erase, ReadRequest, MarkRunning, ListKeys, KeepKeys, DeleteRows, NoteDeleted, DeleteObjects,
           KeepLeft, FinishErasure, RunPcs
  <2> QED BY <2>1, <1>t, AtErase
<1>1. Returns(w) \/ Throws(w) => run'[w].pc = "idle"
  BY <1>0, <1>t, ReturnsNow, ThrowsNow, FreshRuns
<1>2. \A pc \in RunPcs : Goes(w, pc) => run'[w].pc = pc /\ run'[w].job = run[w].job /\ run'[w].keys = run[w].keys
  BY <1>t, GoesOn
<1>3. CASE ReadRequest(w) /\ ~Returns(w)
  <2>1. run' = [run EXCEPT ![w] = [@ EXCEPT !.pc = "mark", !.keys = Of(w).outbox,
                                               !.rows = Of(w).user /\ ~Of(w).deleted]]
        /\ request' = request
    BY <1>3 DEF ReadRequest, vault
  <2>2. run'[w].pc = "mark" /\ run'[w].job = run[w].job /\ run'[w].keys = Of(w).outbox
    BY <2>1, <1>0, <1>t DEF QueueFits, Runs
  <2> QED BY <2>1, <2>2 DEF KnowsOutbox, Of
<1>4. CASE MarkRunning(w)
  <2>1. Throws(w) \/ (request'[run[w].job.n].status = "RUNNING" /\ (Goes(w, "list") \/ Goes(w, "objects")))
    <3>1. Throws(w) \/ (Notes(w, [Of(w) EXCEPT !.status = "RUNNING"]) /\ (Goes(w, "list") \/ Goes(w, "objects")))
      BY <1>4 DEF MarkRunning
    <3>2. Of(w) \in RequestRows
      BY <1>0, <1>t DEF Of, AskedFits
    <3> QED BY <3>1, <3>2, <1>0, <1>t DEF Notes, AskedFits, RequestRows
  <2>2. request'[run[w].job.n].outbox = request[run[w].job.n].outbox
    BY <1>4, WrittenRequest
  <2>3. request[run[w].job.n].outbox = run[w].keys
    BY <1>4 DEF MarkRunning, At, KnowsOutbox
  <2> QED BY <2>1, <2>2, <2>3, <1>1, <1>2 DEF KnowsOutbox, RunPcs
<1>5. CASE ListKeys(w)
  <2>1. request' = request /\ run[w].pc = "list"
    BY <1>5 DEF ListKeys, vault, At
  <2>2. run'[w].pc = "keep" /\ run'[w].job = run[w].job /\ run'[w].keys = Collected(w)
    BY <1>5, <1>0, <1>t DEF ListKeys, QueueFits, Runs
  <2> QED BY <2>1, <2>2 DEF KnowsOutbox, Collected
<1>6. CASE KeepKeys(w)
  <2>1. Goes(w, "rows") /\ run[w].pc = "keep"
    BY <1>6 DEF KeepKeys, At
  <2>2. request'[run[w].job.n].status = request[run[w].job.n].status /\ request'[run[w].job.n].outbox = run[w].keys
    BY <1>6, WrittenRequest
  <2> QED BY <2>1, <2>2, <1>2 DEF KnowsOutbox, RunPcs
<1>7. CASE DeleteRows(w)
  <2>1. Goes(w, "note") /\ run[w].pc = "rows" /\ request' = request
    BY <1>7 DEF DeleteRows, At
  <2> QED BY <2>1, <1>2 DEF KnowsOutbox, RunPcs
<1>8. CASE NoteDeleted(w)
  <2>1. Goes(w, "objects") /\ run[w].pc = "note"
    BY <1>8 DEF NoteDeleted, At
  <2>2. /\ request'[run[w].job.n].status = request[run[w].job.n].status
        /\ request'[run[w].job.n].outbox = request[run[w].job.n].outbox
    BY <1>8, WrittenRequest
  <2> QED BY <2>1, <2>2, <1>2 DEF KnowsOutbox, RunPcs
<1>9. CASE DeleteObjects(w)
  <2>1. PICK failing \in SUBSET run[w].keys :
          /\ storage' = storage \ (run[w].keys \ failing)
          /\ run' = [run EXCEPT ![w] = [@ EXCEPT !.keys = failing,
                                        !.pc = IF run[w].keys = {} THEN "done" ELSE "left"]]
    BY <1>9 DEF DeleteObjects
  <2>2. request' = request /\ gone' = gone /\ due' = due /\ run[w].pc = "objects"
    BY <1>9 DEF DeleteObjects, At
  <2>3. /\ run'[w].pc = IF run[w].keys = {} THEN "done" ELSE "left"
        /\ run'[w].job = run[w].job /\ run'[w].keys = failing
    BY <2>1, <1>0, <1>t DEF QueueFits, Runs
  <2>4. gone
    BY <2>2 DEF GoneWhen, AfterRows
  <2>5. /\ request[run[w].job.n].status = "RUNNING"
        /\ request[run[w].job.n].outbox = run[w].keys
    BY <2>2 DEF KnowsOutbox
  <2>6. (run[w].keys \ failing) \cap due' \cap storage' = {}
    BY <2>1
  <2> QED BY <2>1, <2>2, <2>3, <2>4, <2>5, <2>6 DEF KnowsOutbox
<1>10. CASE KeepLeft(w)
  <2>1. run[w].pc = "left" /\ ((run[w].keys = {} /\ Goes(w, "done")) \/ Throws(w))
    BY <1>10 DEF KeepLeft, At
  <2>2. request'[run[w].job.n].status = request[run[w].job.n].status /\ request'[run[w].job.n].outbox = run[w].keys
    BY <1>10, WrittenRequest
  <2> QED BY <2>1, <2>2, <1>1, <1>2 DEF KnowsOutbox, RunPcs
<1>11. CASE FinishErasure(w)
  BY <1>1, <1>11 DEF FinishErasure
<1> QED BY <1>1, <1>3, <1>4, <1>5, <1>6, <1>7, <1>8, <1>9, <1>10, <1>11 DEF Erase

\* Two attempts that are awaited run different jobs, so nobody else writes an attempt's request.
LEMMA OutboxStep ==
  ASSUME VaultTypes, Awaits, Named, GoneWhen, OutboxSound, AccountNext
  PROVE  OutboxSound'
<1>t. QueueFits /\ RunsJobs
  BY DEF VaultTypes
<1> SUFFICES ASSUME ~outlived'
             PROVE  \A w \in Workers : EraseRun(w)' => run'[w].awaited /\ KnowsOutbox(w)'
  BY DEF OutboxSound
<1>0. ~outlived
  BY DEF AccountNext, Works, Tryon, Erase, Claim, AskErasure, ApiDies, WorkerDies, Queue, Take, Settle,
       QueueFails, Errs, Outlives, ReadPreview, Render, Put, Finish, ReadRequest, MarkRunning,
       ListKeys, KeepKeys, DeleteRows, NoteDeleted, DeleteObjects, KeepLeft, FinishErasure, queues
<1>k. ASSUME NEW w \in Workers, EraseRun(w)
      PROVE  /\ run[w].awaited /\ KnowsOutbox(w) /\ job[run[w].job].pc = "active"
             /\ run[w].job.n \in Erasures /\ run[w].job = EraseJob(run[w].job.n) /\ run[w].job \in Jobs
             /\ request[run[w].job.n].status # "NONE"
  <2>1. run[w].awaited /\ KnowsOutbox(w)
    BY <1>0, <1>k DEF OutboxSound
  <2>2. run[w].job \in Jobs /\ run[w].job.queue = "erase" /\ run[w].pc # "idle"
    BY <1>k, <1>t DEF EraseRun, RunsJobs
  <2>3. run[w].job.n \in Erasures /\ run[w].job = EraseJob(run[w].job.n)
    BY <2>2, JobShapes
  <2> QED BY <2>1, <2>2, <2>3 DEF Awaits, Named
\* A worker that does not move, and whose request does not change
<1>s. ASSUME NEW w \in Workers, EraseRun(w)', run'[w] = run[w],
             \A n \in Erasures : run[w].job = EraseJob(n) => request'[n] = request[n]
      PROVE  run'[w].awaited /\ KnowsOutbox(w)'
  <2>1. EraseRun(w)
    BY <1>s DEF EraseRun
  <2> QED BY <2>1, <1>s, <1>k, KnowsStays
<1>1. ASSUME NEW w \in Workers, Tryon(w) \/ Erase(w) \/ Errs(w), NEW v \in Workers, EraseRun(v)'
      PROVE  run'[v].awaited /\ KnowsOutbox(v)'
  <2>1. CASE v # w
    <3>1. run'[v] = run[v]
      BY <2>1, <1>1, HandlerGoes
    <3>2. EraseRun(v)
      BY <3>1, <1>1 DEF EraseRun
    <3>3. ASSUME NEW n \in Erasures, run[v].job = EraseJob(n) PROVE request'[n] = request[n]
      <4>1. CASE request'[n] # request[n]
        <5>1. run[w].job = EraseJob(n) /\ run[w].pc # "idle"
          BY <4>1, <1>1, HandlerRequests
        <5>2. EraseRun(w)
          BY <5>1 DEF EraseRun, EraseJob
        <5> QED BY <5>1, <5>2, <3>2, <3>3, <2>1, <1>k DEF Awaits
      <4> QED BY <4>1
    <3> QED BY <3>1, <3>3, <1>1, <1>s
  <2>2. CASE v = w
    <3>1. run'[w].pc # "idle"
      BY <2>2, <1>1 DEF EraseRun
    <3>2. Advances(w)
      <4>1. run[w].pc # "idle" /\ (Advances(w) \/ Returns(w) \/ Throws(w))
        BY <1>1, HandlerMoves
      <4> QED BY <4>1, <3>1, <1>t, ReturnsNow, ThrowsNow, FreshRuns
    <3>3. EraseRun(w)
      BY <2>2, <3>2, <1>1 DEF EraseRun, Advances
    <3>4. Erase(w)
      <4>1. Errs(w) => run'[w].pc = "idle"
        BY <3>2, <1>t, ThrowsNow, FreshRuns DEF Errs, Advances
      <4>2. Tryon(w) => run[w].job.queue = "tryon"
        BY DEF Tryon, ReadPreview, Render, Put, Finish, At
      <4> QED BY <4>1, <4>2, <3>1, <3>3, <1>1 DEF EraseRun
    <3>5. KnowsOutbox(w)'
      BY <3>1, <3>3, <3>4, <1>k, KnowsNext
    <3> QED BY <2>2, <3>2, <3>3, <3>5, <1>k DEF Advances
  <2> QED BY <2>1, <2>2
<1>2. ASSUME AskErasure, NEW v \in Workers, EraseRun(v)' PROVE run'[v].awaited /\ KnowsOutbox(v)'
  <2>1. run' = run
    BY <1>2 DEF AskErasure
  <2>2. EraseRun(v)
    BY <2>1, <1>2 DEF EraseRun
  <2>3. \A n \in Erasures : request[n].status # "NONE" => request'[n] = request[n]
    BY <1>2, AskedRequest
  <2> QED BY <2>1, <2>2, <2>3, <1>2, <1>k, <1>s, JobNames
<1>3. ASSUME NEW j \in Jobs, Settle(j), NEW v \in Workers, EraseRun(v)'
      PROVE  run'[v].awaited /\ KnowsOutbox(v)'
  <2>1. run' = run /\ job[j].pc = "settling"
    BY <1>3 DEF Settle
  <2>2. EraseRun(v)
    BY <2>1, <1>3 DEF EraseRun
  <2>3. \A n \in Erasures : EraseJob(n) # j => request'[n] = request[n]
    BY <1>3, SettledRequest
  <2> QED BY <2>1, <2>2, <2>3, <1>3, <1>k, <1>s
<1>4. ASSUME NEW j \in Jobs, Take(j), NEW v \in Workers, EraseRun(v)'
      PROVE  run'[v].awaited /\ KnowsOutbox(v)'
  <2>1. PICK w \in Workers : run'[w].pc = "read" /\ run'[w].awaited /\ \A u \in Workers \ {w} : run'[u] = run[u]
    BY <1>4, <1>t, TakenUp
  <2>2. request' = request
    BY <1>4 DEF Take, vault
  <2>3. CASE v = w
    BY <2>1, <2>3 DEF KnowsOutbox
  <2>4. CASE v # w
    BY <2>1, <2>2, <2>4, <1>4, <1>s
  <2> QED BY <2>3, <2>4
<1>5. ASSUME WorkerDies, NEW v \in Workers, EraseRun(v)' PROVE FALSE
  BY <1>5, <1>t, WorkersGone DEF EraseRun
<1>6. ASSUME NEW w \in Workers, Outlives(w), NEW v \in Workers, EraseRun(v)'
      PROVE  run'[v].awaited /\ KnowsOutbox(v)'
  <2>1. run[w].pc # "idle" /\ run[w].job.queue # "erase" /\ request' = request
    BY <1>6, <1>t DEF Outlives, RunsJobs, vault
  <2>2. run'[w].job = run[w].job /\ \A u \in Workers \ {w} : run'[u] = run[u]
    BY <2>1, <1>6, <1>t, OutlivesNow
  <2>3. v # w
    BY <2>1, <2>2, <1>6 DEF EraseRun
  <2> QED BY <2>1, <2>2, <2>3, <1>6, <1>s
<1>7. ASSUME run' = run, request' = request, NEW v \in Workers, EraseRun(v)'
      PROVE  run'[v].awaited /\ KnowsOutbox(v)'
  BY <1>7, <1>s
<1>8. (\E i \in Items : Claim(i)) \/ ApiDies \/ (\E j \in Jobs : Queue(j) \/ QueueFails(j))
        \/ UNCHANGED <<vault, queues>> => run' = run /\ request' = request
  BY DEF Claim, ApiDies, Queue, QueueFails, vault, queues
<1> QED BY <1>1, <1>2, <1>3, <1>4, <1>5, <1>6, <1>7, <1>8 DEF AccountNext, Works

\* What is due and in an outbox stays in it until it is deleted.
LEMMA OutboxKept ==
  ASSUME VaultTypes, Named, OutboxSound, ~outlived, AccountNext, NEW k \in due \cap storage, NEW n \in Erasures,
         k \in request[n].outbox, request[n].status # "DONE"
  PROVE  k \in request'[n].outbox /\ request'[n].status # "DONE"
<1>t. QueueFits /\ RunsJobs
  BY DEF VaultTypes
<1>1. ASSUME NEW w \in Workers,
             MarkRunning(w) \/ KeepKeys(w) \/ NoteDeleted(w) \/ KeepLeft(w) \/ FinishErasure(w)
      PROVE  k \in request'[n].outbox /\ request'[n].status # "DONE"
  <2>1. EraseRun(w) /\ \A m \in Erasures \ {run[w].job.n} : request'[m] = request[m]
    BY <1>1, WrittenRequest
  <2>2. CASE run[w].job.n # n
    BY <2>1, <2>2
  <2>3. CASE run[w].job.n = n
    <3>1. KnowsOutbox(w)
      BY <2>1 DEF OutboxSound
    <3>2. CASE MarkRunning(w)
      BY <2>3, <3>2, WrittenRequest
    <3>3. CASE KeepKeys(w)
      <4>1. request'[n].status = request[n].status /\ request'[n].outbox = run[w].keys
        BY <2>3, <3>3, WrittenRequest
      <4>2. request[n].outbox \subseteq run[w].keys
        BY <2>3, <3>1, <3>3 DEF KnowsOutbox, KeepKeys, At
      <4> QED BY <4>1, <4>2
    <3>4. CASE NoteDeleted(w)
      BY <2>3, <3>4, WrittenRequest
    <3>5. CASE KeepLeft(w)
      <4>1. request'[n].status = request[n].status /\ request'[n].outbox = run[w].keys
        BY <2>3, <3>5, WrittenRequest
      <4>2. (request[n].outbox \ run[w].keys) \cap due \cap storage = {}
        BY <2>3, <3>1, <3>5 DEF KnowsOutbox, KeepLeft, At
      <4> QED BY <4>1, <4>2
    <3>6. CASE FinishErasure(w)
      BY <2>3, <3>1, <3>6 DEF KnowsOutbox, FinishErasure, At
    <3> QED BY <1>1, <3>2, <3>3, <3>4, <3>5, <3>6
  <2> QED BY <2>2, <2>3
<1>2. ASSUME NEW w \in Workers,
             ~(MarkRunning(w) \/ KeepKeys(w) \/ NoteDeleted(w) \/ KeepLeft(w) \/ FinishErasure(w)),
             Tryon(w) \/ Erase(w) \/ Errs(w)
      PROVE  request' = request
  BY <1>2 DEF Tryon, Erase, Errs, vault, ReadPreview, Render, Put, Finish, ReadRequest, ListKeys,
       DeleteRows, DeleteObjects
<1>3. CASE AskErasure
  <2>1. request[n].status # "NONE"
    BY DEF Named
  <2> QED BY <2>1, <1>3, AskedRequest
<1>4. ASSUME NEW j \in Jobs, Settle(j) PROVE k \in request'[n].outbox /\ request'[n].status # "DONE"
  BY <1>4, SettledRequest
<1>5. ASSUME \A w \in Workers : ~Tryon(w) /\ ~Erase(w) /\ ~Errs(w), ~AskErasure, \A j \in Jobs : ~Settle(j)
      PROVE  request' = request
  BY <1>5 DEF AccountNext, Works, Claim, ApiDies, WorkerDies, Queue, Take, QueueFails, Outlives, vault
<1> QED BY <1>1, <1>2, <1>3, <1>4, <1>5

LEMMA RememberedStep ==
  ASSUME VaultTypes, Named, OutboxSound, Remembered, AccountNext
  PROVE  Remembered'
<1> SUFFICES ASSUME gone', ~outlived', NEW k \in due' \cap storage'
             PROVE  \E n \in Erasures : k \in request'[n].outbox /\ request'[n].status # "DONE"
  BY DEF Remembered
<1>t. QueueFits
  BY DEF VaultTypes
<1>0. ~outlived
  BY DEF AccountNext, Works, Tryon, Erase, Claim, AskErasure, ApiDies, WorkerDies, Queue, Take, Settle,
       QueueFails, Errs, Outlives, ReadPreview, Render, Put, Finish, ReadRequest, MarkRunning,
       ListKeys, KeepKeys, DeleteRows, NoteDeleted, DeleteObjects, KeepLeft, FinishErasure, queues
<1>1. CASE gone
  <2>1. k \in due \cap storage
    BY <1>1, DueShrinks
  <2>2. PICK n \in Erasures : k \in request[n].outbox /\ request[n].status # "DONE"
    BY <2>1, <1>0, <1>1 DEF Remembered
  <2> QED BY <2>1, <2>2, <1>0, OutboxKept
<1>2. CASE ~gone
  <2>1. PICK w \in Workers : DeleteRows(w)
    BY <1>2 DEF AccountNext, Works, Tryon, Erase, Claim, AskErasure, ApiDies, WorkerDies, Queue, Take, Settle,
       QueueFails, Errs, Outlives, ReadPreview, Render, Put, Finish, ReadRequest, MarkRunning,
       ListKeys, KeepKeys, NoteDeleted, DeleteObjects, KeepLeft, FinishErasure, vault
  <2>2. due' = PointedAt \cap run[w].keys /\ request' = request /\ At(w, "erase", "rows")
    BY <1>2, <2>1 DEF DeleteRows
  <2>3. run[w].pc = "rows" /\ EraseRun(w) /\ run[w].job.n \in Erasures
    BY <2>2, <1>t, AtErase DEF EraseRun, At
  <2>4. request[run[w].job.n].status = "RUNNING" /\ request[run[w].job.n].outbox = run[w].keys
    BY <2>3, <1>0 DEF OutboxSound, KnowsOutbox
  <2> QED BY <2>2, <2>3, <2>4
<1> QED BY <1>1, <1>2

(***************************************************************************)
(* Theorems about the vault of an account.                                 *)
(***************************************************************************)
VaultSound == Awaits /\ Covered /\ Fresh /\ Named /\ GoneWhen /\ StoredFirst /\ OutboxSound /\ Remembered

LEMMA VaultStarts ==
  ASSUME AccountInit
  PROVE  VaultSound
<1>1. /\ \A i \in Items : preview[i].status = "NONE"
      /\ request = [n \in Erasures |-> NoRequest] /\ asking = {}
      /\ \A j \in Jobs : job[j].pc = "none"
      /\ \A w \in Workers : run[w].pc = "idle" /\ run[w].awaited = FALSE
      /\ gone = FALSE
  BY DEF AccountInit, NoVault, NoRun
<1>2. \A n \in Erasures : request[n].status = "NONE" /\ request[n].outbox = {}
  BY <1>1 DEF NoRequest
<1>3. Awaits /\ Covered /\ Fresh
  BY <1>1, JobNames DEF Awaits, Covered, Fresh
<1>4. Named
  BY <1>1, <1>2, JobNames DEF Named
<1>5. GoneWhen /\ StoredFirst
  BY <1>1, <1>2 DEF GoneWhen, StoredFirst, AfterRows
<1>6. OutboxSound /\ Remembered
  BY <1>1 DEF OutboxSound, Remembered, EraseRun
<1> QED BY <1>3, <1>4, <1>5, <1>6 DEF VaultSound

LEMMA VaultStep ==
  ASSUME VaultTypes, VaultSound, AccountNext
  PROVE  VaultSound'
BY AwaitsStep, CoveredStep, NamedStep, GoneStep, StoredStep, OutboxStep, RememberedStep DEF VaultSound

LEMMA VaultStutters ==
  ASSUME VaultSound, UNCHANGED accountVars
  PROVE  VaultSound'
<1>1. UNCHANGED <<items, preview, storage, request, gone, due, asking, job, run, outlived, lost>>
  BY DEF accountVars, vault, queues
<1>2. Awaits' /\ Covered' /\ Fresh' /\ Named'
  BY <1>1 DEF VaultSound, Awaits, Covered, Fresh, Named
<1>3. GoneWhen' /\ StoredFirst' /\ Remembered'
  BY <1>1 DEF VaultSound, GoneWhen, StoredFirst, Remembered
<1>4. OutboxSound'
  BY <1>1 DEF VaultSound, OutboxSound, EraseRun, KnowsOutbox
<1> QED BY <1>2, <1>3, <1>4 DEF VaultSound

LEMMA VaultIsSound == AccountSpec => []VaultSound
<1>1. AccountInit => VaultSound
  BY VaultStarts
<1>2. AccountSound /\ VaultSound /\ [AccountNext]_accountVars => VaultSound'
  BY VaultStep, VaultStutters DEF AccountSound
<1> QED BY <1>1, <1>2, AccountIsSound, PTL DEF AccountSpec

\* A picture that the app waits for has a job that will settle it, whatever older claims of the
\* item do and whichever worker dies, unless a crash lost the job.
THEOREM PicturesCovered == AccountSpec => []NoPreviewForgotten
<1>1. VaultSound => NoPreviewForgotten
  BY DEF VaultSound, Covered, NoPreviewForgotten
<1> QED BY <1>1, VaultIsSound, PTL

\* An erasure forgets nothing: no pair of the user's tokens stays good, and what it found is
\* deleted or in the outbox of a request that is not done.
THEOREM ErasureRemembers == AccountSpec => []NothingForgotten
<1>1. AccountSound /\ VaultSound => NothingForgotten
  BY DEF AccountSound, UsersSound, RowsThere, VaultSound, Remembered, NothingForgotten
<1> QED BY <1>1, AccountIsSound, VaultIsSound, PTL

\* No late failure, second claim or failed erasure takes away a picture that is ready.
THEOREM PicturesStay == AccountSpec => PictureStays
<1> DEFINE A == \A i \in Items : preview[i].status = "READY" =>
                  gone' \/ (preview'[i].status = "READY" /\ Picture(i) \in storage')
<1>1. AccountSound /\ VaultSound /\ [AccountNext]_accountVars => [A]_accountVars
  BY PictureStaysStep DEF AccountSound, VaultSound
<1>2. AccountSpec => [][A]_accountVars
  BY <1>1, AccountIsSound, VaultIsSound, PTL DEF AccountSpec
<1> QED BY <1>2 DEF PictureStays
=============================================================================
