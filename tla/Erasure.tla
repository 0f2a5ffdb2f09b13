------------------------------- MODULE Erasure -------------------------------
(***************************************************************************)
(* The worker's jobs on a user's vault, over the sessions of its user: the *)
(* try-on pictures of wardrobe items (routes/wardrobe.ts,                  *)
(* jobs/wardrobe-tryon.ts, tryon_previews) and DELETE /vault               *)
(* (routes/vault.ts, jobs/privacy-erase.ts, privacy_requests), both run by *)
(* createJobProcessor (packages/shared/src/queues.ts) on BullMQ.           *)
(*                                                                         *)
(* BullMQ runs a job at least once.  An attempt that takes too long is     *)
(* given up, and goes on all the same; a job whose worker died or fell     *)
(* silent is run again.  Every await of a handler is a step.               *)
(*                                                                         *)
(* Time is left out: a claim may be old, and a failed picture may be asked *)
(* for again, at any moment.  Gmail sources are left out.                  *)
(***************************************************************************)
EXTENDS Sessions

CONSTANTS
  Subject,       \* the user whose vault it is
  Items,         \* wardrobe items, each with a photo
  Workers,       \* handlers that run at a time
  MaxTries,      \* attempts of a job
  MaxClaims,     \* bound on the claims of an item's picture
  MaxErasures,   \* bound on the erasure requests
  Bounds         \* how often a picture and an erasure may be asked for, with how many errors,
                 \* time-outs, stalls, crashes and lost answers around jobs

ASSUME ErasureAssumption ==
  /\ Subject \in Users /\ None \notin Items
  /\ MaxTokens > 1 /\ MaxFaults > 0
  /\ MaxTries \in Nat \ {0}
  /\ MaxClaims \in Nat /\ MaxErasures \in Nat \ {0}
  /\ \A b \in Bounds : b \in [claims : 0 .. MaxClaims, erasures : 0 .. MaxErasures, mishaps : Nat]

VARIABLES
  items,      \* wardrobe_items
  preview,    \* tryon_previews: status, "NONE" for no row, and how often it was claimed
  storage,    \* keys of the objects stored
  request,    \* privacy_requests of kind ERASE
  asking,     \* jobs that a route is about to queue
  job,        \* BullMQ's jobs
  run,        \* the handlers that run
  gone,       \* were the subject's rows deleted?
  due,        \* objects whose deletion the erasure answers for (history)
  outlived,   \* did an erasure outlive its attempt? (history)
  lost,       \* did a crash lose a job, or an error a job's last write? (history)
  left        \* what is left of the bounds

vault == <<items, preview, storage, request, gone, due>>
queues == <<asking, job, run, outlived, lost>>
accountVars == <<vars, vault, queues, left>>

Photo(i) == <<"photo", i>>
Picture(i) == <<"tryon", i>>

NoneLeft == [claims |-> 0, erasures |-> 0, mishaps |-> 0]

Erasures == 1 .. MaxErasures

TryonJob(i, n) == [queue |-> "tryon", item |-> i, n |-> n]
EraseJob(n) == [queue |-> "erase", item |-> None, n |-> n]
Jobs == {TryonJob(i, n) : i \in Items, n \in 1 .. MaxClaims} \cup {EraseJob(n) : n \in Erasures}

NoRun == [pc |-> "idle", job |-> None, awaited |-> FALSE, keys |-> {}, rows |-> FALSE]

NoRequest == [status |-> "NONE", user |-> FALSE, deleted |-> FALSE, outbox |-> {}]

NoVault ==
  /\ preview = [i \in Items |-> [status |-> "NONE", claim |-> 0]]
  /\ storage = {Photo(i) : i \in items}
  /\ request = [n \in Erasures |-> NoRequest]
  /\ asking = {}
  /\ job = [j \in Jobs |-> [pc |-> "none", failed |-> 0, stalled |-> FALSE]]
  /\ run = [w \in Workers |-> NoRun]
  /\ gone = FALSE /\ due = {} /\ outlived = FALSE /\ lost = FALSE

\* n pairs were issued to the subject, the last of which is good: held by the device, or by another
\* one while this one is at the sign-in screen.
HasPairs(n, here) ==
  LET held == IF here THEN n ELSE SignedOut
  IN  /\ known = {Subject} /\ grants = [u \in Users |-> IF u = Subject THEN 1 ELSE 0]
      /\ code = IF here THEN {} ELSE {Subject}
      /\ live = {n} /\ owner = [t \in 1 .. n |-> Subject] /\ expired = {}
      /\ handler = [h \in Handlers |-> NoHandler] /\ revoking = {}
      /\ session = held /\ who = (IF here THEN Subject ELSE None)
      /\ signing = None /\ renewal = NoRenewal
      /\ call = [c \in Calls |-> NoCall]
      /\ store = [kept |-> held, writing |-> Nothing, pending |-> Nothing, bad |-> FALSE]
      /\ mixed = FALSE /\ withheld = {}

\* Ways to spend the bounds: on sessions, on an erasure during a renewal or a sign-in, on pictures,
\* and on erasures with pictures under way.
AccountInit ==
  /\ \/ Init /\ items = {} /\ left = NoneLeft
     \/ /\ \E here \in BOOLEAN : HasPairs(MaxTokens - 1, here)
        /\ faults = MaxFaults - 1
        /\ items = {} /\ left = [NoneLeft EXCEPT !.erasures = 1]
     \/ /\ HasPairs(MaxTokens, FALSE) /\ faults = MaxFaults
        /\ items = Items /\ left \in Bounds
  /\ NoVault

\* One of the mishaps that Bounds bounds
Mishap == left.mishaps > 0 /\ left' = [left EXCEPT !.mishaps = @ - 1]

(***************************************************************************)
(* Asking: the rows are written first, and then the job is queued.         *)
(***************************************************************************)
\* Mutant: an update by the row's key alone.
FinishedAnyhow(i, status) ==
  IF preview[i].status # "NONE" THEN [preview EXCEPT ![i].status = status] ELSE preview

\* finishWardrobeTryon: only a PROCESSING row, if it is still there
Finished(i, status) ==
  IF preview[i].status = "PROCESSING" THEN [preview EXCEPT ![i].status = status] ELSE preview

\* previewClaimable, at any time
Claimable(i) == preview[i].status # "READY"

\* POST /wardrobe/:id/tryon: claimWardrobeTryon
Claim(i) ==
  LET n == preview[i].claim + 1
  IN  /\ i \in items
      /\ Claimable(i)
      /\ left.claims > 0 /\ left' = [left EXCEPT !.claims = @ - 1]
      /\ preview' = [preview EXCEPT ![i] = [status |-> "PROCESSING", claim |-> n]]
      /\ asking' = asking \cup {TryonJob(i, n)}
      /\ UNCHANGED <<vars, items, storage, request, gone, due, job, run, outlived, lost>>

Open(n) == request[n].status \in {"PENDING", "RUNNING"}

\* DELETE /vault, from any device: createPrivacyRequest returns the open request if there is one.
\* An access token of an erased user still asks for one.
AskErasure ==
  /\ Subject \in known <=> ~gone
  /\ left.erasures > 0 /\ left' = [left EXCEPT !.erasures = @ - 1]
  /\ \/ \E n \in Erasures : Open(n) /\ asking' = asking \cup {EraseJob(n)} /\ UNCHANGED request
     \/ /\ \A n \in Erasures : ~Open(n)
        /\ \E n \in Erasures :
             /\ request[n].status = "NONE" /\ \A m \in 1 .. n - 1 : request[m].status # "NONE"
             /\ request' = [request EXCEPT ![n] = [NoRequest EXCEPT !.status = "PENDING", !.user = TRUE]]
             /\ asking' = asking \cup {EraseJob(n)}
  /\ UNCHANGED <<vars, items, preview, storage, gone, due, job, run, outlived, lost>>

\* enqueueJob: the first job of an id is kept.  A time-out may come though the job is there.
Queue(j) ==
  /\ j \in asking
  /\ job' = IF job[j].pc = "none" THEN [job EXCEPT ![j].pc = "waiting"] ELSE job
  /\ \/ asking' = asking \ {j} /\ UNCHANGED left
     \/ Mishap /\ job[j].pc = "none" /\ UNCHANGED asking
  /\ UNCHANGED <<vars, vault, run, outlived, lost>>

\* A failed add releases the claim.
QueueFails(j) ==
  /\ j \in asking /\ Mishap
  /\ asking' = asking \ {j}
  /\ preview' = IF j.queue = "tryon" THEN Finished(j.item, "FAILED") ELSE preview
  /\ UNCHANGED <<vars, items, storage, request, gone, due, job, run, outlived, lost>>

\* The API process dies before it has queued what it was about to.
ApiDies ==
  /\ asking # {} /\ Mishap
  /\ asking' = {} /\ lost' = TRUE
  /\ UNCHANGED <<vars, vault, job, run, outlived>>

(***************************************************************************)
(* The worker: attempts, and what becomes of the job after them.           *)
(***************************************************************************)
\* The attempt failed: BullMQ runs the job again, or after the last one settles it.
Retried(j) ==
  [job EXCEPT ![j].failed = @ + 1,
              ![j].pc = IF job[j].failed + 1 >= MaxTries THEN "settling" ELSE "waiting"]

\* Mutant: a job that BullMQ fails itself is not settled.
StalledUnsettled(jb) == [jb EXCEPT !.pc = IF jb.stalled THEN "over" ELSE "waiting", !.stalled = TRUE]

\* A stalled job runs again, once; the second time BullMQ fails it.
Stalled(jb) == [jb EXCEPT !.pc = IF jb.stalled THEN "settling" ELSE "waiting", !.stalled = TRUE]

IdleWorkers == {w \in Workers : run[w].pc = "idle"}

Take(j) ==
  /\ job[j].pc = "waiting" /\ IdleWorkers # {}
  /\ LET w == CHOOSE x \in IdleWorkers : TRUE
     IN  run' = [run EXCEPT ![w] = [NoRun EXCEPT !.pc = "read", !.job = j, !.awaited = TRUE]]
  /\ job' = [job EXCEPT ![j].pc = "active"]
  /\ UNCHANGED <<vars, vault, asking, outlived, lost, left>>

\* The handler of w goes on at pc, or returns, or throws.
Goes(w, pc) == run' = [run EXCEPT ![w].pc = pc] /\ UNCHANGED job

Returns(w) ==
  /\ run' = [run EXCEPT ![w] = NoRun]
  /\ job' = IF run[w].awaited THEN [job EXCEPT ![run[w].job].pc = "over"] ELSE job

Throws(w) ==
  /\ run' = [run EXCEPT ![w] = NoRun]
  /\ job' = IF run[w].awaited THEN Retried(run[w].job) ELSE job

Errs(w) ==
  /\ run[w].pc # "idle" /\ Mishap
  /\ Throws(w)
  /\ UNCHANGED <<vars, vault, asking, outlived, lost>>

\* withTimeout, or a lock that a silent worker lost: the handler goes on, and nobody awaits it.
Outlives(w) ==
  /\ run[w].awaited /\ Mishap
  /\ run' = [run EXCEPT ![w].awaited = FALSE]
  /\ job' \in {Retried(run[w].job), [job EXCEPT ![run[w].job] = Stalled(@)]}
  /\ outlived' = (outlived \/ run[w].job.queue = "erase")
  /\ UNCHANGED <<vars, vault, asking, lost>>

WorkerDies ==
  /\ IdleWorkers # Workers /\ Mishap
  /\ run' = [w \in Workers |-> NoRun]
  /\ job' = [j \in Jobs |-> IF job[j].pc \in {"active", "settling"} THEN Stalled(job[j]) ELSE job[j]]
  /\ UNCHANGED <<vars, vault, asking, outlived, lost>>

\* Mutant: no onFinalFailure.
SettledRows(j) == UNCHANGED <<preview, request>>

\* onFinalFailure: failWardrobeTryonJob, failPrivacyRequestJob.  The latter's read and write are
\* one step: only an attempt that outlived its job could come in between.
Settled(j) ==
  IF j.queue = "tryon"
  THEN preview' = Finished(j.item, "FAILED") /\ UNCHANGED request
  ELSE /\ request' = IF request[j.n].status = "DONE" THEN request
                     ELSE [request EXCEPT ![j.n].status = "FAILED"]
       /\ UNCHANGED preview

Settle(j) ==
  /\ job[j].pc = "settling"
  /\ job' = [job EXCEPT ![j].pc = "over"]
  /\ \/ Settled(j) /\ UNCHANGED <<lost, left>>
     \/ Mishap /\ lost' = TRUE /\ UNCHANGED <<preview, request>>
  /\ UNCHANGED <<vars, items, storage, gone, due, asking, run, outlived>>

(***************************************************************************)
(* handleWardrobeTryon                                                     *)
(***************************************************************************)
At(w, queue, pc) == run[w].pc = pc /\ run[w].job # None /\ run[w].job.queue = queue

\* The reads of the row, the item and the avatar
ReadPreview(w) ==
  LET i == run[w].job.item
  IN  /\ At(w, "tryon", "read")
      /\ \/ preview[i].status # "PROCESSING" /\ Returns(w)
         \/ preview[i].status = "PROCESSING" /\ Goes(w, IF i \in items THEN "render" ELSE "fail")
      /\ UNCHANGED <<vars, vault, asking, outlived, lost, left>>

Render(w) ==
  /\ At(w, "tryon", "render")
  /\ \E pc \in {"put", "fail"} : Goes(w, pc)
  /\ UNCHANGED <<vars, vault, asking, outlived, lost, left>>

\* storage.put, over an older picture of the item
Put(w) ==
  LET k == Picture(run[w].job.item)
  IN  /\ At(w, "tryon", "put")
      /\ storage' = storage \cup {k}
      /\ due' = due \ {k}
      /\ Goes(w, "finish")
      /\ UNCHANGED <<vars, items, preview, request, gone, asking, outlived, lost, left>>

Finish(w) ==
  /\ \E pc \in {"finish", "fail"} :
       /\ At(w, "tryon", pc)
       /\ preview' = Finished(run[w].job.item, IF pc = "finish" THEN "READY" ELSE "FAILED")
  /\ Returns(w)
  /\ UNCHANGED <<vars, items, storage, request, gone, due, asking, outlived, lost, left>>

(***************************************************************************)
(* privacyErase                                                            *)
(***************************************************************************)
\* The request whose erasure w runs
Of(w) == request[run[w].job.n]

Notes(w, r) == request' = [request EXCEPT ![run[w].job.n] = r]

ReadRequest(w) ==
  /\ At(w, "erase", "read")
  /\ \/ Of(w).status = "DONE" /\ Returns(w)
     \/ /\ Of(w).status # "DONE"
        /\ run' = [run EXCEPT ![w] = [@ EXCEPT !.pc = "mark", !.keys = Of(w).outbox,
                                               !.rows = Of(w).user /\ ~Of(w).deleted]]
        /\ UNCHANGED job
  /\ UNCHANGED <<vars, vault, asking, outlived, lost, left>>

\* RUNNING, unless the index on open requests refuses it
MarkRunning(w) ==
  LET another == \E n \in Erasures \ {run[w].job.n} : Open(n)
  IN  /\ At(w, "erase", "mark")
      /\ \/ another /\ Throws(w) /\ UNCHANGED request
         \/ /\ ~another
            /\ Notes(w, [Of(w) EXCEPT !.status = "RUNNING"])
            /\ Goes(w, IF run[w].rows THEN "list" ELSE "objects")
      /\ UNCHANGED <<vars, items, preview, storage, gone, due, asking, outlived, lost, left>>

\* What the subject's rows point at
PointedAt == {Photo(i) : i \in items} \cup {Picture(i) : i \in {x \in items : preview[x].status = "READY"}}

\* Mutant: what an earlier attempt collected is forgotten.
CollectedAnew(w) == PointedAt

\* listUserStorageKeys, added to what an earlier attempt collected
Collected(w) == run[w].keys \cup PointedAt

ListKeys(w) ==
  /\ At(w, "erase", "list")
  /\ run' = [run EXCEPT ![w].pc = "keep", ![w].keys = Collected(w)]
  /\ UNCHANGED <<vars, vault, asking, job, outlived, lost, left>>

\* The steps are written whole, as this attempt knows them.
KeepKeys(w) ==
  /\ At(w, "erase", "keep")
  /\ Notes(w, [Of(w) EXCEPT !.outbox = run[w].keys, !.deleted = FALSE])
  /\ Goes(w, "rows")
  /\ UNCHANGED <<vars, items, preview, storage, gone, due, asking, outlived, lost, left>>

\* What works on the user's row is turned away.
Turned(found) ==
  [h \in Handlers |->
     IF handler[h].user = Subject /\ handler[h].pc \in {"grant", "save"}
     THEN [handler[h] EXCEPT !.pc = "answer", !.answer = found[h]] ELSE handler[h]]

\* deleteAllUserData: a sign-in or a renewal that works on the user's row fails, and a renewal that
\* did not find the row yet is refused.
DeleteRows(w) ==
  /\ At(w, "erase", "rows")
  /\ Goes(w, "note")
  /\ IF gone THEN UNCHANGED <<vars, items, preview, gone, due>> ELSE
       /\ gone' = TRUE
       /\ due' = PointedAt \cap run[w].keys
       /\ items' = {}
       /\ preview' = [i \in Items |-> [preview[i] EXCEPT !.status = "NONE"]]
       /\ known' = known \ {Subject}
       /\ grants' = [grants EXCEPT ![Subject] = 0]
       /\ live' = {t \in live : owner[t] # Subject}
       /\ \E found \in [Handlers -> {Refused, Failed}] :
            /\ \A h \in Handlers : found[h] = Refused => handler[h].pair # 0
            /\ handler' = Turned(found)
       /\ withheld' = withheld \ {Subject}
       /\ UNCHANGED <<code, owner, expired, revoking, device, faults>>
  /\ UNCHANGED <<storage, request, asking, outlived, lost, left>>

NoteDeleted(w) ==
  /\ At(w, "erase", "note")
  /\ Notes(w, [Of(w) EXCEPT !.deleted = TRUE])
  /\ Goes(w, "objects")
  /\ UNCHANGED <<vars, items, preview, storage, gone, due, asking, outlived, lost, left>>

\* Each object is deleted, or fails and stays in the outbox.
DeleteObjects(w) ==
  /\ At(w, "erase", "objects")
  /\ \E failing \in SUBSET run[w].keys :
       /\ IF failing = {} THEN UNCHANGED left ELSE Mishap
       /\ storage' = storage \ (run[w].keys \ failing)
       /\ run' = [run EXCEPT ![w] = [@ EXCEPT !.keys = failing,
                                     !.pc = IF run[w].keys = {} THEN "done" ELSE "left"]]
  /\ UNCHANGED <<vars, items, preview, request, gone, due, asking, job, outlived, lost>>

KeepLeft(w) ==
  /\ At(w, "erase", "left")
  /\ Notes(w, [Of(w) EXCEPT !.outbox = run[w].keys, !.deleted = TRUE])
  /\ \/ run[w].keys = {} /\ Goes(w, "done")
     \/ run[w].keys # {} /\ Throws(w)
  /\ UNCHANGED <<vars, items, preview, storage, gone, due, asking, outlived, lost, left>>

FinishErasure(w) ==
  /\ At(w, "erase", "done")
  /\ Notes(w, [Of(w) EXCEPT !.status = "DONE", !.user = FALSE, !.deleted = TRUE, !.outbox = {}])
  /\ Returns(w)
  /\ UNCHANGED <<vars, items, preview, storage, gone, due, asking, outlived, lost, left>>

Tryon(w) == ReadPreview(w) \/ Render(w) \/ Put(w) \/ Finish(w)

Erase(w) ==
  \/ ReadRequest(w) \/ MarkRunning(w) \/ ListKeys(w) \/ KeepKeys(w) \/ DeleteRows(w)
  \/ NoteDeleted(w) \/ DeleteObjects(w) \/ KeepLeft(w) \/ FinishErasure(w)

Works ==
  \/ \E j \in Jobs : Queue(j) \/ Take(j) \/ Settle(j)
  \/ \E w \in Workers : Tryon(w) \/ Erase(w)

AccountNext ==
  \/ Next /\ UNCHANGED <<vault, queues, left>>
  \/ \E i \in Items : Claim(i)
  \/ AskErasure \/ ApiDies \/ WorkerDies
  \/ Works
  \/ \E j \in Jobs : QueueFails(j)
  \/ \E w \in Workers : Errs(w) \/ Outlives(w)

AccountSpec == AccountInit /\ [][AccountNext]_accountVars

\* While there is something to do, Redis and the worker do some of it.
FairAccountSpec == AccountSpec /\ SessionFairness /\ WF_accountVars(Works)

(***************************************************************************)
(* Properties.                                                             *)
(***************************************************************************)
RunPcs == {"idle", "read", "render", "put", "finish", "fail", "mark", "list", "keep", "rows",
           "note", "objects", "left", "done"}

Keys == {Photo(i) : i \in Items} \cup {Picture(i) : i \in Items}

\* The sessions' state, the vault's rows and objects, and where the jobs on them are.
AccountTypeOK ==
  /\ TypeOK
  /\ items \subseteq Items /\ storage \subseteq Keys /\ due \subseteq Keys
  /\ preview \in [Items -> [status : {"NONE", "PROCESSING", "READY", "FAILED"}, claim : 0 .. MaxClaims]]
  /\ request \in [Erasures -> [status : {"NONE", "PENDING", "RUNNING", "DONE", "FAILED"},
                               user : BOOLEAN, deleted : BOOLEAN, outbox : SUBSET Keys]]
  /\ asking \subseteq Jobs
  /\ job \in [Jobs -> [pc : {"none", "waiting", "active", "settling", "over"},
                       failed : Nat, stalled : BOOLEAN]]
  /\ run \in [Workers -> [pc : RunPcs, job : Jobs \cup {None}, awaited : BOOLEAN,
                          keys : SUBSET Keys, rows : BOOLEAN]]
  /\ gone \in BOOLEAN /\ outlived \in BOOLEAN /\ lost \in BOOLEAN
  /\ left \in [claims : 0 .. MaxClaims, erasures : 0 .. MaxErasures, mishaps : Nat]

\* A picture that is ready stays so, with its object stored, until the account is erased: no late
\* failure, second claim, or erasure that fails half-way takes it away.
PictureStays ==
  [][\A i \in Items : preview[i].status = "READY" =>
       gone' \/ (preview'[i].status = "READY" /\ Picture(i) \in storage')]_accountVars

\* A picture that the app waits for is being worked on: the job of its last claim is queued, about
\* to be, running or being settled, whatever older jobs of the item do, unless a crash lost it.
NoPreviewForgotten ==
  \A i \in Items :
    preview[i].status = "PROCESSING" /\ ~lost =>
      LET j == TryonJob(i, preview[i].claim)
      IN  j \in asking \/ job[j].pc \in {"waiting", "active", "settling"}

\* Of an erased user no pair of tokens is good, and every object that the erasure found is deleted
\* or in the outbox of a request that is not done: through retries, failed deletes and crashes,
\* unless an attempt outlived its time.
NothingForgotten ==
  /\ \A t \in live : owner[t] \in known
  /\ gone /\ ~outlived =>
       \A k \in due \cap storage :
         \E n \in Erasures : k \in request[n].outbox /\ request[n].status # "DONE"

Erasing == \E n \in Erasures : Open(n) /\ job[EraseJob(n)].pc # "none"

\* An erasure that is queued ends, done or failed, so that it can be asked for again.
ErasureEnds == Erasing ~> (~Erasing \/ lost \/ outlived)
=============================================================================
