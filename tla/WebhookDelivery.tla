--------------------------- MODULE WebhookDelivery ---------------------------
(***************************************************************************)
(* Delivery of webhook events (src/src/modules/webhook).  Every delivery   *)
(* attempt is a row in MongoDB; rows are run by BullMQ jobs, or, when      *)
(* Redis is unavailable, by in-memory timers and a database poller.  One   *)
(* action stands for the code between two awaits of a handler, so that     *)
(* jobs, timers, polls and HTTP handlers interleave as the event loop      *)
(* lets them; a crash loses what was only in memory.                       *)
(***************************************************************************)
EXTENDS Integers, FiniteSets

CONSTANTS
    MaxRows,           \* bound: delivery rows ever created
    MaxFirsts,         \* bound: events and tests start among the first MaxFirsts rows
    Workers,           \* bound: concurrent processDelivery calls
    MaxRetries,        \* retryConfig.maxRetries of the webhook (0..10)
    HealthThreshold,   \* recent failures beyond which a webhook is disabled (50)
    MaxDbFailures,     \* MAX_DB_FAILURES of the database circuit breaker (5)
    TimeoutBelowLock,  \* TRUE: an attempt is over before DB_FALLBACK_LOCK_MS is
    RedisMissing,      \* whether Redis may be missing when a process starts
    MaxEdits,          \* bound: updates, deletions and replays by users
    MaxCrashes,        \* bound: process restarts
    MaxErrors          \* bound: database operations that throw, and replies and lock
                       \* renewals of Redis that get lost

ASSUME WebhookAssumption ==
    /\ MaxRows \in Nat
    /\ MaxFirsts \in Nat
    /\ IsFiniteSet(Workers)
    /\ MaxRetries \in Nat
    /\ HealthThreshold \in Nat
    /\ MaxDbFailures \in Nat \ {0}
    /\ TimeoutBelowLock \in BOOLEAN
    /\ RedisMissing \in SUBSET BOOLEAN
    /\ MaxEdits \in Nat
    /\ MaxCrashes \in Nat
    /\ MaxErrors \in Nat

VARIABLES
    webhook,    \* the webhook document: exists, active, stats
    rows,       \* the delivery documents by id, in creation order
    nextId,     \* the id the next insert gets
    creating,   \* a handler that read the webhook or row it will insert from
    toQueue,    \* rows whose HTTP handler has not yet called queueDelivery
    jobs,       \* waiting BullMQ jobs (in Redis: they survive a crash)
    timers,     \* rows with a pending setTimeout / setImmediate (in memory)
    procs,      \* the processDelivery calls in flight
    fallback,   \* useDatabaseBackedFallback
    worker,     \* a BullMQ Worker exists in this process
    dbFailures, \* dbFailureCount
    cooled,     \* DB_CIRCUIT_BREAKER_RESET_TIME has passed since the last failure
    deleting,   \* deleteWebhook is between its two deletes
    edits,              \* user edits so far
    crashes, dbErrors, jobFaults,  \* faults so far
    posts       \* POSTs the endpoint was sent, by row

memory == <<creating, toQueue, timers, procs, dbFailures, cooled, deleting>>
vars == <<webhook, rows, nextId, jobs, fallback, worker, edits, crashes, dbErrors,
          jobFaults, posts, memory>>

-----------------------------------------------------------------------------
(* Data *)

Ids == 1..MaxRows
Statuses == {"absent", "pending", "success", "failed"}
Locks == {"none", "held", "expired"}    \* age of metadata.processingStartedAt
RowErrors == {"none", "retry_scheduled", "final"}

Kinds == {"event", "test", "replay", "retry"}

\* `prev` is metadata.previousAttemptId, 0 for a first attempt.
Row == [kind : Kinds, status : Statuses, attempt : Nat, retriesLeft : Nat,
        lock : Locks, error : RowErrors, prev : Nat]

\* `maxRetries || 3`: a configured 0 counts as unset.
InitialRetries == IF MaxRetries = 0 THEN 3 ELSE MaxRetries

\* (Mutant: a retry starts with the configured retries.)
NewRowRestocked(kind, attempt, left, lock, prev) ==
    [kind |-> kind, status |-> "pending", attempt |-> attempt,
     retriesLeft |-> InitialRetries, lock |-> lock, error |-> "none", prev |-> prev]

NewRow(kind, attempt, left, lock, prev) ==
    [kind |-> kind, status |-> "pending", attempt |-> attempt, retriesLeft |-> left,
     lock |-> lock, error |-> "none", prev |-> prev]

AbsentRow == [kind |-> "event", status |-> "absent", attempt |-> 1, retriesLeft |-> 0,
              lock |-> "none", error |-> "none", prev |-> 0]

Stages == {"idle", "start", "loaded", "sending", "succeeding", "scheduling",
           "failing", "succeeded", "failed", "counting", "deactivating",
           "retrySaved", "retryCreated"}
NoJob == 2    \* not, or no longer, BullMQ's; else the job's stall count, 0 or 1

\* `inTry`: an exception is caught by attemptDelivery, not by processDelivery.
\* `dirty`: the in-memory document has an unsaved retriesLeft.
Proc == [stage : Stages, id : Nat, attempt : Nat, left : Nat, lock : Locks,
         inTry : BOOLEAN, dirty : BOOLEAN, polled : BOOLEAN,
         job : Nat, stalls : 0..NoJob, child : Nat]

Call(stage, id, job, stalls, polled) ==
    [stage |-> stage, id |-> id, attempt |-> 1, left |-> 0, lock |-> "none",
     inTry |-> FALSE, dirty |-> FALSE, polled |-> polled,
     job |-> job, stalls |-> stalls, child |-> 0]

Idle == Call("idle", 0, 0, NoJob, FALSE)
Started(id, stalls, polled) == Call("start", id, id, stalls, polled)

\* How a call goes on; once the row is settled, what was read of it is dropped.
At(p, stage) == [p EXCEPT !.stage = stage]
Holding(p, row) == [p EXCEPT !.stage = "loaded", !.attempt = row.attempt,
                             !.left = row.retriesLeft, !.lock = row.lock]
Caught(p) == [p EXCEPT !.stage = "failing", !.inTry = FALSE]
Settled(p, stage) == Call(stage, p.id, p.job, p.stalls, p.polled)
WithRetry(p, child) == [p EXCEPT !.stage = "retryCreated", !.child = child]
Disowned(p) == [p EXCEPT !.stalls = NoJob]
RetryInPlace(p) == Call("start", p.child, p.job, p.stalls, FALSE)

Creation == [kind : Kinds \cup {"no"}, left : Nat, lock : Locks]
NoCreation == [kind |-> "no", left |-> 0, lock |-> "none"]

Job == [id : Nat, stalls : 0..1]

TypeOK ==
    /\ webhook \in [exists : BOOLEAN, active : BOOLEAN, successes : Nat, failures : Nat]
    /\ rows \in [Ids -> Row]
    /\ nextId \in 1..(MaxRows + 1)
    /\ creating \in Creation
    /\ toQueue \subseteq Nat
    /\ jobs \subseteq Job
    /\ timers \subseteq Nat
    /\ procs \in [Workers -> Proc]
    /\ fallback \in BOOLEAN
    /\ worker \in BOOLEAN
    /\ dbFailures \in Nat
    /\ cooled \in BOOLEAN
    /\ deleting \in BOOLEAN
    /\ edits \in Nat
    /\ crashes \in Nat
    /\ dbErrors \in Nat
    /\ jobFaults \in Nat
    /\ posts \in [Ids -> Nat]

Init ==
    /\ webhook = [exists |-> TRUE, active |-> TRUE, successes |-> 0, failures |-> 0]
    /\ rows = [i \in Ids |-> AbsentRow]
    /\ nextId = 1
    /\ creating = NoCreation
    /\ toQueue = {} /\ jobs = {} /\ timers = {}
    /\ procs = [w \in Workers |-> Idle]
    /\ fallback \in RedisMissing
    /\ worker = ~fallback
    /\ dbFailures = 0
    /\ cooled = TRUE
    /\ deleting = FALSE
    /\ edits = 0 /\ crashes = 0 /\ dbErrors = 0 /\ jobFaults = 0
    /\ posts = [i \in Ids |-> 0]

-----------------------------------------------------------------------------
(* Shared steps *)

\* A database operation throws (counted, so that faults stay bounded).
DbFault == dbErrors + jobFaults < MaxErrors /\ dbErrors' = dbErrors + 1

\* Redis applies a command whose reply is lost, or a job's lock is not renewed.
JobFault == dbErrors + jobFaults < MaxErrors /\ jobFaults' = jobFaults + 1

UserEdit == edits < MaxEdits /\ edits' = edits + 1

Insert(row) ==
    /\ nextId \in Ids
    /\ rows' = [rows EXCEPT ![nextId] = row]
    /\ nextId' = nextId + 1

\* deliveryQueue.add: a Redis job, or a timer in the fallback.
Enqueue(id) ==
    IF fallback
    THEN timers' = timers \cup {id} /\ UNCHANGED jobs
    ELSE jobs' = jobs \cup {[id |-> id, stalls |-> 0]} /\ UNCHANGED timers

\* BullMQ's add throws: the command failed, or only its reply was lost.
EnqueueThrows(id) ==
    /\ ~fallback
    /\ \/ UNCHANGED <<jobs, jobFaults>>
       \/ JobFault /\ jobs' = jobs \cup {[id |-> id, stalls |-> 0]}
    /\ UNCHANGED timers

Becomes(w, call) == procs' = [procs EXCEPT ![w] = call]
Finish(w) == Becomes(w, Idle)

\* processDelivery's catch: recordDbFailure on a count, then the job ends.
AbortFrom(w, count) ==
    /\ Becomes(w, Idle)
    /\ dbFailures' = count + 1
    /\ cooled' = FALSE

Abort(w) == AbortFrom(w, dbFailures)

\* isDbCircuitBreakerOpen, whose reset is a side effect of asking.
BreakerOpen == dbFailures >= MaxDbFailures /\ ~cooled
FailuresAsked == IF dbFailures >= MaxDbFailures THEN 0 ELSE dbFailures
ResetBreaker == dbFailures' = FailuresAsked

unchangedByProc == <<creating, toQueue, deleting, fallback, worker, edits, crashes,
                     jobFaults>>
unchangedByApi == <<jobs, fallback, worker, crashes, jobFaults, posts, timers, procs,
                    dbFailures, cooled>>

-----------------------------------------------------------------------------
(* The API: events, tests, replays, updates and deletion of the webhook *)

\* processEvent and testWebhook find an active webhook ...
FindWebhook ==
    /\ creating.kind = "no"
    /\ nextId <= MaxFirsts
    /\ webhook.exists /\ webhook.active
    /\ \E kind \in {"event", "test"} :
          creating' = [kind |-> kind, left |-> InitialRetries, lock |-> "none"]
    /\ UNCHANGED <<webhook, rows, nextId, toQueue, deleting, edits, dbErrors,
                   unchangedByApi>>

\* ... and replayDelivery reads the row it will copy, metadata included ...
FindReplayed ==
    /\ creating.kind = "no"
    /\ UserEdit
    /\ \E i \in Ids :
          /\ rows[i].status \in {"success", "failed"}
          /\ creating' = [kind |-> "replay", left |-> rows[i].retriesLeft,
                          lock |-> rows[i].lock]
    /\ UNCHANGED <<webhook, rows, nextId, toQueue, deleting, dbErrors, unchangedByApi>>

\* ... then insert a first attempt.  Only the handlers of tests and replays go
\* on to queueDelivery: processEvent leaves the row to the poller.
CreateDelivery ==
    /\ creating.kind # "no"
    /\ creating' = NoCreation
    /\ \/ /\ Insert(NewRow(creating.kind, 1, creating.left, creating.lock, 0))
          /\ toQueue' = IF creating.kind = "event" THEN toQueue ELSE toQueue \cup {nextId}
          /\ UNCHANGED dbErrors
       \/ /\ DbFault
          /\ UNCHANGED <<rows, nextId, toQueue>>
    /\ UNCHANGED <<webhook, deleting, edits, unchangedByApi>>

\* queueDelivery called by a controller.  When the add throws, the row is processed on
\* the spot, whatever has become of the job.
QueueDelivery ==
    \E i \in toQueue :
        /\ toQueue' = toQueue \ {i}
        /\ \/ Enqueue(i) /\ UNCHANGED <<procs, jobFaults>>
           \/ /\ EnqueueThrows(i)
              /\ \E w \in Workers :
                    /\ procs[w].stage = "idle"
                    /\ Becomes(w, Started(i, NoJob, FALSE))
        /\ UNCHANGED <<webhook, rows, nextId, creating, fallback, worker, dbFailures,
                       cooled, deleting, edits, crashes, dbErrors, posts>>

\* updateWebhook may switch the webhook on or off.
UpdateWebhook ==
    /\ UserEdit
    /\ webhook.exists
    /\ \E active \in BOOLEAN : webhook' = [webhook EXCEPT !.active = active]
    /\ UNCHANGED <<rows, nextId, creating, toQueue, deleting, dbErrors, unchangedByApi>>

\* deleteWebhook removes the webhook, then its deliveries.
DeleteWebhook ==
    /\ UserEdit
    /\ webhook.exists
    /\ webhook' = [webhook EXCEPT !.exists = FALSE]
    /\ deleting' = TRUE
    /\ UNCHANGED <<rows, nextId, creating, toQueue, dbErrors, unchangedByApi>>

CascadeDelete ==
    /\ deleting
    /\ deleting' = FALSE
    /\ \/ rows' = [i \in Ids |-> AbsentRow] /\ UNCHANGED dbErrors
       \/ DbFault /\ UNCHANGED rows
    /\ UNCHANGED <<webhook, nextId, creating, toQueue, edits, unchangedByApi>>

-----------------------------------------------------------------------------
(* What starts processDelivery: a timer, a BullMQ job, the poller *)

RunTimer(w) ==
    /\ procs[w].stage = "idle"
    /\ \E i \in timers :
          /\ timers' = timers \ {i}
          /\ Becomes(w, Started(i, NoJob, FALSE))
    /\ UNCHANGED <<webhook, rows, nextId, jobs, dbErrors, posts, dbFailures, cooled,
                   unchangedByProc>>

RunJob(w) ==
    /\ worker
    /\ procs[w].stage = "idle"
    /\ \E j \in jobs :
          /\ jobs' = jobs \ {j}
          /\ Becomes(w, Started(j.id, j.stalls, FALSE))
    /\ UNCHANGED <<webhook, rows, nextId, timers, dbErrors, posts, dbFailures, cooled,
                   unchangedByProc>>

\* pollPendingDeliveries claims the oldest pending row that no fresh
\* processingStartedAt protects, in one findOneAndUpdate.
\* (Mutants: the claim is ignored; an expired claim is never taken over.)
PollableClaimed(i) == rows[i].status = "pending"
PollableUnclaimed(i) == rows[i].status = "pending" /\ rows[i].lock = "none"
Pollable(i) == rows[i].status = "pending" /\ rows[i].lock # "held"

Poll(w) ==
    /\ fallback
    /\ procs[w].stage = "idle"
    /\ \E i \in Ids :
          /\ Pollable(i)
          /\ \A j \in Ids : Pollable(j) => i <= j
          /\ rows' = [rows EXCEPT ![i].lock = "held"]
          /\ Becomes(w, Started(i, NoJob, TRUE))
    /\ UNCHANGED <<webhook, nextId, jobs, timers, dbErrors, posts, dbFailures, cooled,
                   unchangedByProc>>

-----------------------------------------------------------------------------
(* processDelivery, await by await *)

\* The breaker, findById, and the status test.  No claim is taken here.
Load(w) ==
    LET p == procs[w] IN
    /\ p.stage = "start"
    /\ \/ /\ BreakerOpen
          /\ Finish(w)
          /\ UNCHANGED <<dbFailures, cooled, dbErrors>>
       \/ /\ ~BreakerOpen
          /\ rows[p.id].status # "pending"
          /\ Finish(w) /\ ResetBreaker
          /\ UNCHANGED <<cooled, dbErrors>>
       \/ /\ ~BreakerOpen
          /\ rows[p.id].status = "pending"
          /\ Becomes(w, Holding(p, rows[p.id]))
          /\ ResetBreaker
          /\ UNCHANGED <<cooled, dbErrors>>
       \/ ~BreakerOpen /\ DbFault /\ AbortFrom(w, FailuresAsked)
    /\ UNCHANGED <<webhook, rows, nextId, jobs, timers, posts, unchangedByProc>>

\* The webhook is read; an active one is sent the POST.
ReadWebhook(w) ==
    LET p == procs[w] IN
    /\ p.stage = "loaded"
    /\ \/ /\ ~(webhook.exists /\ webhook.active)
          /\ Becomes(w, At(p, "failing"))
          /\ UNCHANGED <<dbFailures, cooled, dbErrors, posts>>
       \/ /\ webhook.exists /\ webhook.active
          /\ Becomes(w, At(p, "sending"))
          /\ dbFailures' = 0
          /\ posts' = [posts EXCEPT ![p.id] = @ + 1]
          /\ UNCHANGED <<cooled, dbErrors>>
       \/ DbFault /\ Abort(w) /\ UNCHANGED posts
    /\ UNCHANGED <<webhook, rows, nextId, jobs, timers, unchangedByProc>>

\* attemptDelivery and handleAxiosError decide on the answer: a response is
\* handled inside the try block, an axios error inside the catch block.
Retryable(answer) == answer \in {"5xx", "timeout"}
HasRetryOffByOne(left) == left >= 0    \* (mutant)
HasRetry(left) == left > 0

\* (Mutant: scheduleRetry does not count the retry.)
AnsweredForFree(p, answer) ==
    LET retry == Retryable(answer) /\ HasRetry(p.left) IN
    [p EXCEPT !.stage = IF answer = "2xx" THEN "succeeding"
                        ELSE IF retry THEN "scheduling" ELSE "failing",
              !.dirty = retry,
              !.inTry = answer \in {"2xx", "4xx", "5xx"}]

Answered(p, answer) ==
    LET retry == Retryable(answer) /\ HasRetry(p.left) IN
    [p EXCEPT !.stage = IF answer = "2xx" THEN "succeeding"
                        ELSE IF retry THEN "scheduling" ELSE "failing",
              !.left = IF retry THEN p.left - 1 ELSE p.left,
              !.dirty = retry,
              !.inTry = answer \in {"2xx", "4xx", "5xx"}]

Respond(w) ==
    /\ procs[w].stage = "sending"
    /\ \E answer \in {"2xx", "4xx", "5xx", "timeout", "network"} :
          Becomes(w, Answered(procs[w], answer))
    /\ UNCHANGED <<webhook, rows, nextId, jobs, timers, dbErrors, posts, dbFailures,
                   cooled, unchangedByProc>>

\* document.save() of the delivery.  A document deleted meanwhile makes it
\* throw, as a database error does; attemptDelivery's catch then tries
\* markDeliveryFailed, once.
\* (Mutant: the save is an upsert.)
SavedUpsert(w, row, call) ==
    /\ rows' = [rows EXCEPT ![procs[w].id] = row]
    /\ Becomes(w, call)
    /\ UNCHANGED <<dbFailures, cooled, dbErrors>>

Saved(w, row, call) ==
    /\ rows[procs[w].id].status # "absent"
    /\ rows' = [rows EXCEPT ![procs[w].id] = row]
    /\ Becomes(w, call)
    /\ UNCHANGED <<dbFailures, cooled, dbErrors>>

Throw(w) ==
    \/ procs[w].inTry /\ Becomes(w, Caught(procs[w])) /\ UNCHANGED <<dbFailures, cooled>>
    \/ ~procs[w].inTry /\ Abort(w)

SaveThrows(w) ==
    /\ \/ rows[procs[w].id].status = "absent" /\ UNCHANGED dbErrors
       \/ DbFault
    /\ Throw(w)
    /\ UNCHANGED rows

\* What the saves write: only modified paths.
Succeeded(row) == [row EXCEPT !.status = "success"]
Failed(row, p) == [row EXCEPT !.status = "failed", !.error = "final",
                              !.retriesLeft = IF p.dirty THEN p.left ELSE @]
\* (Mutant: the row itself is retried.)
ScheduledInPlace(row, p) == [row EXCEPT !.status = "pending", !.retriesLeft = p.left]
Scheduled(row, p) == [row EXCEPT !.status = "failed", !.error = "retry_scheduled",
                                 !.retriesLeft = p.left]

\* markDeliverySuccess, up to its save.
SaveSuccess(w) ==
    LET p == procs[w] IN
    /\ p.stage = "succeeding"
    /\ Saved(w, Succeeded(rows[p.id]), Settled(p, "succeeded")) \/ SaveThrows(w)
    /\ UNCHANGED <<webhook, nextId, jobs, timers, posts, unchangedByProc>>

\* markDeliveryFailed, up to its save.
SaveFailed(w) ==
    LET p == procs[w] IN
    /\ p.stage = "failing"
    /\ Saved(w, Failed(rows[p.id], p), Settled(p, "failed")) \/ SaveThrows(w)
    /\ UNCHANGED <<webhook, nextId, jobs, timers, posts, unchangedByProc>>

\* (Mutant: in the fallback, the retry is left to the poller.)
ScheduleRetryByPoller(w) ==
    LET p == procs[w] IN
    /\ p.stage = "scheduling"
    /\ \/ Saved(w, Scheduled(rows[p.id], p), IF fallback THEN Idle ELSE At(p, "retrySaved"))
       \/ SaveThrows(w)
    /\ UNCHANGED <<webhook, nextId, jobs, timers, posts, unchangedByProc>>

\* scheduleRetry: the old row is closed, the new one inserted, then queued.
ScheduleRetry(w) ==
    LET p == procs[w] IN
    /\ p.stage = "scheduling"
    /\ Saved(w, Scheduled(rows[p.id], p), At(p, "retrySaved")) \/ SaveThrows(w)
    /\ UNCHANGED <<webhook, nextId, jobs, timers, posts, unchangedByProc>>

CreateRetry(w) ==
    LET p == procs[w] IN
    /\ p.stage = "retrySaved"
    /\ \/ /\ Insert(NewRow("retry", p.attempt + 1, p.left, p.lock, p.id))
          /\ Becomes(w, WithRetry(p, nextId))
          /\ UNCHANGED <<dbFailures, cooled, dbErrors>>
       \/ DbFault /\ Throw(w) /\ UNCHANGED <<rows, nextId>>
    /\ UNCHANGED <<webhook, jobs, timers, posts, unchangedByProc>>

QueueRetry(w) ==
    LET p == procs[w] IN
    /\ p.stage = "retryCreated"
    /\ \/ Enqueue(p.child) /\ Finish(w) /\ UNCHANGED jobFaults
       \/ /\ EnqueueThrows(p.child)    \* the retry runs now, inside this job
          /\ Becomes(w, RetryInPlace(p))
    /\ UNCHANGED <<webhook, rows, nextId, creating, toQueue, deleting, fallback, worker,
                   edits, crashes, dbErrors, posts, dbFailures, cooled>>

\* updateWebhookStats: one $inc, whose failure is swallowed.
\* (Mutant: only the statistics of an active webhook are updated.)
CountedIfActive(updated) ==
    \/ /\ webhook.exists /\ webhook.active
       /\ webhook' = updated
       /\ UNCHANGED dbErrors
    \/ ~(webhook.exists /\ webhook.active) /\ UNCHANGED <<webhook, dbErrors>>
    \/ DbFault /\ UNCHANGED webhook

Counted(updated) ==
    \/ /\ webhook.exists
       /\ webhook' = updated
       /\ UNCHANGED dbErrors
    \/ ~webhook.exists /\ UNCHANGED <<webhook, dbErrors>>
    \/ DbFault /\ UNCHANGED webhook

CountSuccess(w) ==
    /\ procs[w].stage = "succeeded"
    /\ Counted([webhook EXCEPT !.successes = @ + 1])
    /\ Finish(w)
    /\ UNCHANGED <<rows, nextId, jobs, timers, posts, dbFailures, cooled, unchangedByProc>>

CountFailure(w) ==
    /\ procs[w].stage = "failed"
    /\ Counted([webhook EXCEPT !.failures = @ + 1])
    /\ Becomes(w, At(procs[w], "counting"))
    /\ UNCHANGED <<rows, nextId, jobs, timers, posts, dbFailures, cooled, unchangedByProc>>

\* checkWebhookHealth: countDocuments, then the update; errors are swallowed.
RecentFailures == Cardinality({i \in Ids : rows[i].status = "failed"})
UnhealthyAtThreshold == RecentFailures >= HealthThreshold    \* (mutant)
Unhealthy == RecentFailures > HealthThreshold

CheckHealth(w) ==
    /\ procs[w].stage = "counting"
    /\ \/ Unhealthy /\ Becomes(w, At(procs[w], "deactivating")) /\ UNCHANGED dbErrors
       \/ ~Unhealthy /\ Finish(w) /\ UNCHANGED dbErrors
       \/ DbFault /\ Finish(w)
    /\ UNCHANGED <<webhook, rows, nextId, jobs, timers, posts, dbFailures, cooled,
                   unchangedByProc>>

Deactivate(w) ==
    /\ procs[w].stage = "deactivating"
    /\ \/ webhook' = [webhook EXCEPT !.active = FALSE] /\ UNCHANGED dbErrors
       \/ DbFault /\ UNCHANGED webhook
    /\ Finish(w)
    /\ UNCHANGED <<rows, nextId, jobs, timers, posts, dbFailures, cooled, unchangedByProc>>

ProcStep(w) ==
    \/ Load(w) \/ ReadWebhook(w) \/ Respond(w)
    \/ SaveSuccess(w) \/ SaveFailed(w) \/ ScheduleRetry(w)
    \/ CreateRetry(w) \/ QueueRetry(w)
    \/ CountSuccess(w) \/ CountFailure(w) \/ CheckHealth(w) \/ Deactivate(w)

-----------------------------------------------------------------------------
(* Time, Redis and restarts *)

\* The 120 s of DB_FALLBACK_LOCK_MS pass; with TimeoutBelowLock, not while the
\* poll that took the claim is still running.
LockExpires(i) ==
    /\ rows[i].lock = "held"
    /\ TimeoutBelowLock => \A w \in Workers : ~(procs[w].polled /\ procs[w].id = i)
    /\ rows' = [rows EXCEPT ![i].lock = "expired"]
    /\ UNCHANGED <<webhook, nextId, jobs, fallback, worker, edits, crashes, dbErrors,
                   jobFaults, posts, memory>>

BreakerCools ==
    /\ ~cooled
    /\ cooled' = TRUE
    /\ UNCHANGED <<webhook, rows, nextId, jobs, timers, procs, dbFailures, dbErrors,
                   posts, unchangedByProc>>

\* Redis reports ETIMEDOUT or ECONNREFUSED: the queue is replaced for good, the
\* old Worker keeps its connection.
RedisLost ==
    /\ ~fallback
    /\ fallback' = TRUE
    /\ UNCHANGED <<webhook, rows, nextId, jobs, worker, edits, crashes, dbErrors, jobFaults,
                   posts, memory>>

\* A hanging event loop or Redis keeps the Worker from renewing a job's lock for
\* lockDuration: BullMQ takes the job for stalled and gives it a second run
\* (maxStalledCount 1), while the first call goes on.
Stall(w) ==
    /\ JobFault
    /\ procs[w].stage # "idle" /\ procs[w].stalls = 0
    /\ jobs' = jobs \cup {[id |-> procs[w].job, stalls |-> 1]}
    /\ Becomes(w, Disowned(procs[w]))
    /\ UNCHANGED <<webhook, rows, nextId, creating, toQueue, timers, deleting, fallback,
                   worker, edits, crashes, dbErrors, posts, dbFailures, cooled>>

\* The process restarts, with or without Redis.  The jobs of a Worker that died stall,
\* too; a job that stalls again is failed.
Crash ==
    /\ crashes < MaxCrashes
    /\ crashes' = crashes + 1
    /\ jobs' = jobs \cup {[id |-> procs[w].job, stalls |-> 1] :
                             w \in {v \in Workers : /\ procs[v].stage # "idle"
                                                    /\ procs[v].stalls = 0}}
    /\ \E f \in RedisMissing : fallback' = f /\ worker' = ~f
    /\ creating' = NoCreation
    /\ toQueue' = {} /\ timers' = {}
    /\ procs' = [w \in Workers |-> Idle]
    /\ dbFailures' = 0 /\ cooled' = TRUE
    /\ deleting' = FALSE
    /\ UNCHANGED <<webhook, rows, nextId, edits, dbErrors, jobFaults, posts>>

-----------------------------------------------------------------------------
Next ==
    \/ FindWebhook \/ FindReplayed \/ CreateDelivery \/ QueueDelivery
    \/ UpdateWebhook \/ DeleteWebhook \/ CascadeDelete
    \/ \E w \in Workers : RunTimer(w) \/ RunJob(w) \/ Poll(w) \/ ProcStep(w) \/ Stall(w)
    \/ \E i \in Ids : LockExpires(i)
    \/ BreakerCools \/ RedisLost \/ Crash

Spec == Init /\ [][Next]_vars

\* The event loop runs what is ready, axios times out, intervals tick and clocks
\* advance.  Nothing makes users, Redis or crashes act.
Fairness ==
    /\ WF_vars(CreateDelivery) /\ WF_vars(QueueDelivery) /\ WF_vars(CascadeDelete)
    /\ \A w \in Workers : WF_vars(ProcStep(w))
    /\ WF_vars(\E w \in Workers : RunTimer(w))
    /\ WF_vars(\E w \in Workers : RunJob(w))
    /\ WF_vars(\E w \in Workers : Poll(w))
    /\ \A i \in Ids : WF_vars(LockExpires(i))
    /\ WF_vars(BreakerCools)

FairSpec == Spec /\ Fairness

-----------------------------------------------------------------------------
(* Properties *)

Live(i) == rows[i].status # "absent"
Faults == crashes + dbErrors
Working(w) == procs[w].stage # "idle"

\* No interleaving of jobs, timers and polls of the same row, with the stale
\* copies their calls hold, lets a chain of retries exceed the budget the first
\* attempt was created with (scheduleRetry, createDelivery, replayDelivery).
RetryBudget ==
    \A i \in Ids : Live(i) => rows[i].attempt + rows[i].retriesLeft <= InitialRetries + 1

\* What makes it inductive.  Queues and calls only know rows that were inserted;
\* a call that will write its copy of retriesLeft back, or hand it to a retry,
\* holds the attempt number of the row and has paid for the next attempt.
Known(i) == i \in 1..(nextId - 1)

KnownCall(p) ==
    /\ p.stage # "idle" => Known(p.id) /\ Known(p.job)
    /\ p.stage = "retryCreated" => Known(p.child)

KnownIds ==
    /\ \A i \in Ids : i >= nextId => rows[i].status = "absent"
    /\ \A i \in toQueue \cup timers : Known(i)
    /\ \A j \in jobs : Known(j.id)
    /\ \A w \in Workers : KnownCall(procs[w])

PaidFor(p) ==
    /\ p.stage \in {"loaded", "sending", "succeeding", "scheduling", "failing", "retrySaved"} =>
          /\ p.attempt + p.left <= InitialRetries + 1
          /\ Live(p.id) => rows[p.id].attempt = p.attempt
    /\ p.stage \in {"scheduling", "retrySaved"} => p.attempt + p.left <= InitialRetries

BudgetInv ==
    /\ RetryBudget
    /\ \A i \in Ids : Live(i) => rows[i].attempt >= 1
    /\ creating.kind # "no" => creating.left <= InitialRetries
    /\ \A w \in Workers : PaidFor(procs[w])

\* A retry continues the row it names, even when two calls processed that row:
\* its attempt number is one more, and it has the retries the row was left with,
\* less one if it has been retried in turn (scheduleRetry).
RetryChain ==
    \A i \in Ids : Live(i) /\ rows[i].kind = "retry" /\ Live(rows[i].prev) =>
        LET parent == rows[rows[i].prev] IN
        /\ rows[i].attempt = parent.attempt + 1
        /\ parent.retriesLeft - rows[i].retriesLeft \in {0, 1}

\* An announced retry exists, or is about to be inserted by the call that closed
\* the row, unless something was lost to a fault or to deleteWebhook: no other
\* schedule leaves a row saying "retry_scheduled" that nobody retries.
AnnouncedRetryExists ==
    \A i \in Ids :
        Live(i) /\ rows[i].error = "retry_scheduled" /\ Faults = 0 /\ webhook.exists =>
            \/ \E j \in Ids : Live(j) /\ rows[j].prev = i
            \/ \E w \in Workers : procs[w].id = i /\ procs[w].stage = "retrySaved"

\* A row that only the poller runs is POSTed once, and once more at most for each
\* fault: processingStartedAt keeps polls apart as long as an attempt is over
\* before the claim expires (pollPendingDeliveries).
PolledRowPostedOnce ==
    TimeoutBelowLock =>
        \A i \in Ids : Live(i) /\ rows[i].kind = "event" => posts[i] <= 1 + Faults

\* Every row that ended is in the webhook's statistics, or will be counted by a
\* call still running, unless a fault intervened (updateWebhookStats): calls that
\* overwrite each other's status never lose a count.
EndedRowsCounted ==
    Faults = 0 /\ webhook.exists =>
        Cardinality({i \in Ids : rows[i].status = "success" \/ rows[i].error = "final"})
          <= webhook.successes + webhook.failures
             + Cardinality({w \in Workers : procs[w].stage \in {"succeeded", "failed"}})

\* Whatever stale copies are saved, a row that ended never becomes pending again
\* and a deleted row never comes back (document.save, deleteWebhook).
EndedForGood ==
    [][\A i \in Ids :
          /\ rows[i].status \in {"success", "failed"} => rows'[i].status # "pending"
          /\ rows[i].status = "absent" /\ i < nextId => rows'[i].status = "absent"]_vars

\* The service is about to switch a webhook off only when more of its deliveries
\* than the threshold have failed, be it that a late answer has turned some of
\* them into successes since they were counted (checkWebhookHealth).
HealthDecisionGrounded ==
    \A w \in Workers : procs[w].stage = "deactivating" /\ webhook.exists =>
        Cardinality({i \in Ids : Live(i) /\ rows[i].error # "none"}) > HealthThreshold

\* With the database-backed fallback, a delivery does not stay pending: it
\* survives restarts, lost timers, an open breaker and abandoned claims.
PendingEnds ==
    \A i \in Ids : rows[i].status = "pending" ~> (rows[i].status # "pending" \/ ~fallback)

(* Stated by the repository of the program, and refuted by the code *)

\* "Reliable webhook delivery" (knowledge-base/README.md:71): the delivery of an
\* event does not stay pending for ever while BullMQ is up.
EventDelivered ==
    \A i \in Ids : (Live(i) /\ rows[i].kind = "event") ~> (rows[i].status # "pending" \/ ~worker)
=============================================================================
