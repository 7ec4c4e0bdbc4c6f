# Cost Katana backend: TLA+ verification project

This directory holds TLA+ specifications of the stateful, concurrent parts of the Cost
Katana backend (a NestJS server, `src/`), TLC configurations that model-check them on small
instances, and proofs checked by TLAPS that extend the most important results to every
value of the constants.  Paths below are relative to the repository.

Run from this directory:

    tlc -config Workflow.cfg MCWorkflowExecution      # any run of PROJECT.json
    tlapm WorkflowExecutionProofs.tla                 # any *Proofs module

`PROJECT.json` lists components, runs, mutants, findings, hazards and theorems, and maps
each definition to the lines it models.

## 1. Inventory

The server is one Node.js process per instance; instances share MongoDB and Redis.  Within a
process code runs uninterrupted between two `await`s, and everything interleaves at the
awaits: HTTP handlers, timers, crons, BullMQ workers, response callbacks.  Between processes
every database or Redis command is a step.  So an action of these models is the code
between two awaits (or one command), and a handler is a sequence of actions that carries
its local variables along.

| Component | State | Operations | Interacts with | Hard about it | Correct when |
|---|---|---|---|---|---|
| **Webhook delivery** `src/modules/webhook` | delivery rows and webhook documents (MongoDB), BullMQ jobs, timers, poller, database breaker | create, queue, poll, process, retry, replay, update, delete | events of all modules; users' endpoints; Redis | rows without a claim run by job, timer and poller at once; stale documents saved; Redis lost; restart | retries stay in the budget, ended rows stay ended, announced retries exist, pending rows end |
| **Gateway failover** `src/modules/gateway/services/failover.service.ts` | circuit breaker and health record per provider (memory) | executeFailover, breaker transitions | gateway proxy, providers | answers arrive after the breaker has moved; half-open has no timer | breaker and health agree, half-open is probed, preferred providers come back |
| **Gateway slots** `priority-queue.service.ts` | a Redis set of slots with an expiry, a sorted set of waiting requests | acquireSlot (two modes), release on 'finish' | gateway middleware, cache service | several Redis commands per decision, by all processes; commands fail silently; clients abort; processes die | no leak without a fault, leaks expire, priorities hold, everyone goes on |
| **Workflow orchestrator** `src/modules/workflow` | executions (memory and Redis), step cache | execute, run in batches, pause, resume, cancel, charge, persist | subscription quotas, LLM clients, users' controls | the controls write the object the run works on; batches of a list computed once | dependencies first, bounded parallelism, true outcome, everything runnable runs |
| **Governed tasks** `src/modules/governed-agent` | task documents (MongoDB), the copies of them that handlers hold | initiate, analyse the scope, plan, modify, approve, execute step by step, cancel, go back, navigate | chat, language models, tools | handlers work for minutes on documents that others save; cancellation is seen at checks; every way out of an execution stores its outcome | progress is minded, a cancellation stops the steps, modes are earned, progress ends |
| **Vector index writing** `src/modules/ingestion` | a write queue with a batch, a timer and retries; an index per user on disk; a cache of loaded indices with a capacity and a time to live | enqueue, process a batch, retry; get, load, create, add, save, evict, expire | ingestion, searches, embeddings | searches and the writer load the same index across awaits; what is evicted is saved in the background; memory is lost at a restart | items are accounted for, none waits unminded, what is written stays |
| **Subscriptions** `src/modules/subscription` | subscription documents and counters | create, upgrade, cancel, pause, resume, payments, quotas, monthly and hourly jobs | payment events, crons, all metered operations | read-modify-write of one document by users, crons and payment events | a cancellation takes effect, one charge per period, usage within limits |
| **Payment webhooks** `src/modules/payment-webhook` | the same documents | one handler per provider event | payment providers | late, repeated and reordered events | older events do not undo newer ones |
| **Account closure** `src/modules/account-closure` | `accountClosure` of the user | initiate, confirm, cancel, reactivate, daily clean-up, warnings | crons, e-mail | find-then-update races; cool-down | a cancelled closure is not finalised |
| **AWS remediation** `src/modules/aws` | plans, approvals, executions, kill switch | plan, approve, execute, stop | AWS | approval and execution apart in time | nothing runs unapproved or killed |
| **Cache** `src/common/cache` | Redis and a memory tier | get, set, del, set-if-absent, sets, sorted sets | everything | tiers diverge when Redis fails | documented per user |
| **Queues and jobs** `src/queues`, `src/modules/jobs`, `src/common/services` | in-memory generation queue, crons | enqueue, work, cancel | services | overlap of jobs | no lost or double work |
| Others (see `PROJECT.json`) | MongoDB documents | create/read/update/delete, aggregations, calls of models and third-party APIs | | | no protocol of their own |

The hazards these parts are exposed to are listed, each at its line, under `hazards` in
`PROJECT.json` with the properties that cover them.

## 2. Plan

1. `WebhookDelivery` — the at-least-once engine with the most interleavings.  **Done**, with proofs.
2. `CircuitBreaker` (abstract) and `GatewayFailover` (refines it once per provider) — breakers
   shared by concurrent requests.  **Done**, with proofs.
3. `GatewaySlots` — distributed slots and priorities.  **Done**, with proofs.
4. `WorkflowSchedule` (abstract) and `WorkflowExecution` (refines it).  **Done**, with proofs.
5. `GovernedTask` — stale copies of one document in long handlers.  **Done**, with proofs.
6. `VectorIndex` and `VectorWrites`, which composes it with the write queue.  **Done**, with proofs.
7. `Subscription`: the document under user operations, the monthly and hourly jobs, dunning
   and payment events; abstract specification: a subscription's life cycle in which a
   cancellation at the period's end takes effect.  Composes with `AccountClosure`.
8. `AccountClosure`: initiate, confirm, cancel, reactivate against the clean-up.
9. `RemediationExecution` (AWS plans, approvals, kill switch) and `GenerationQueue`.
10. `CacheTiers`: Redis with the memory tier behind it; abstract specification: a register
    per key; then used by the modules that persist through it.
11. Proofs of every invariant and action property the runs check.  **Done**; liveness stays
    with TLC.
12. Proofs of what no instance can say: how far the slots' limit is overrun, how often a
    delivery is sent, what is never sent or charged, the order of first tries.  **Done**.

Every module is written to be proved about: constants with one named assumption, an action
per operation, invariants as conjunctions, no recursive operators.

## 3. Modules and the code

### WebhookDelivery
`rows` are the `WebhookDelivery` documents, `procs` the calls of `processDelivery` in flight,
each with the copy of the document it loaded; `jobs`, `timers` and `fallback` are what
`createDatabaseBackedFallback` chooses between; `creating` and `toQueue` are the handlers
(`processEvent`, `testWebhook`, `replayDelivery`) on their way from the webhook they read to
the row they insert.  `Load` … `Deactivate` follow `processDelivery` → `attemptDelivery` →
`markDeliverySuccess`/`scheduleRetry`/`markDeliveryFailed` → `updateWebhookStats` →
`checkWebhookHealth`, one action per await; `Throw` is any of these awaits throwing into the
catch that the code has there.  `Poll` claims rows, `LockExpires` is the end of a claim,
`BreakerCools` the database breaker, `RedisLost` the switch to the fallback, `Crash` a restart
that forgets memory.  `EnqueueThrows` is an `add` that throws, because it failed or because
only its reply was lost: then the job is in Redis and the catch processes the row as well.
`Stall` is a job whose lock is not renewed in time, which BullMQ hands out once more while its
first call goes on; both of these are counted in `jobFaults`.  Payloads, headers, signatures and filters are left out: the answer of
the endpoint is success, a retryable or a final error, or a timeout.

### GatewayFailover
A request's position in its policy's list is its only local; `Start` and `Succeed`/`Fail` run
the loop of `executeFailover` up to the next POST, skipping open breakers on the way, since
the loop awaits nothing else.  `CoolDown` is `nextAttempt` passing.  The order a strategy sorts
the providers into is an input.

`CircuitBreaker` says what a breaker promises on its own, without requests: it opens at the
threshold of failures in a row, rests until it has cooled, is half open from the next caller
on, and closes only on a success.  `Protector(u)` instantiates it for each provider with its
health record as the count of failures, so that `BreakersProtect` says that the answers of all
requests together, late ones included, amount to one breaker that keeps this promise.

### GatewaySlots
`queue` and `slots` are the two Redis keys, `ttl` whether the set has an expiry, `calls` the
locals of `acquireSlot` per request (`front` is the answer of `zrange`, `late` the clock).
Every Redis command is a `CommandStep`, which may fail, as `CacheService` swallows errors;
`Abort` is a response that closes without 'finish', `Crash` the death of a request's process,
`Expire` Redis dropping the set.  `older` and `strays` are history variables for the
properties.  Timestamps come from the requests' own processes and need not agree.  A request is its own
member of both keys: the code names members by `x-request-id` and the millisecond, so two
requests with one identifier in one millisecond would share a member, which is left out.

### WorkflowSchedule and WorkflowExecution
`WorkflowSchedule` says what an execution promises: steps start after their dependencies
have completed, each runs once, all that can run do, and the outcome is fixed when nothing
runs and nothing can start.  `WorkflowExecution` is `runWorkflowExecution` with its awaits
(`phase`): the list of ready steps, its batches (`waiting`, `batch`), the persisting after each
list, the three charges, the last persisting; and `pauseWorkflow`, `resumeWorkflow` and
`cancelWorkflow`, which write `status` of the same object at any of these awaits.  `stored` is
the copy in Redis.  `Outcome`, computed from the phase and the steps, is the refinement
mapping.  A step may be found in the step cache at any time, filled by another execution.

### GovernedTask
`task` is the document, `calls` the handlers on it (an endpoint's, the generator's that nobody
awaits, an execution), each with the copy it loaded.  `Save` writes what Mongoose writes: the
fields that the handler has changed since it loaded, whatever the document holds by then.
`Arrives` is a request of the user; `LoadForPlan` … `MarkFailed` are `generatePlan`, `Approve`,
`Start`, `Check`, `BeginStep`, `SaveStep`, … `SaveFailed` are `executePlan` with its checks for a
cancellation, its critical steps and its catch.  `modifyPlan` edits the steps in place, so that
Mongoose may refuse its save with a VersionError when the plan has changed since (`SaveModified`).
`approved` remembers that a request took the task from PLAN to BUILD.  A plan is its number of steps in two phases,
which of them are critical and which depend on another.  What the model shows beside its
properties, on which no line of the code takes a position:

* a cancellation stored between the load of an execution and its `in_progress` is overwritten,
  and so is one stored during the last step, by `completed` or `failed`;
* two approvals run every step twice;
* approving before the plan is stored fails the task while planning goes on;
* a task that is routed past the modes is put in progress and nobody executes it;
* going back to SCOPE drops the plan, and no endpoint analyses the scope again;
* the death of the process leaves a task in progress for good.

`transitionMode`, `updateTask` and `failTask` have no callers, and `requestCodeChanges` always
throws, since it calls `save` on a plain object; they are left out.

### VectorIndex and VectorWrites
An index is the set of the documents it holds.  `disk` and `cache` are the saved and the loaded
index of each user, `saves` the instances that have left the cache and are being saved,
`calls` the callers of `getUserIndex` with the instance they work on.  `Getting` is what runs
before the first await, `Read`/`Load`, `Create` and `Recover` its three ways on, `Cached` is
`userIndices.set` with the disposal of what it replaces or evicts.  `shared` says that the
instance the writer adds to is the one in the cache; an instance that has been replaced lives
on in the writer's hands.  The instance that is disposed of is saved as it was then: the files
are written within milliseconds, while what is added later has to be embedded first.

`VectorWrites` adds the queue: `queue`, the `batch` that is being processed (`isProcessing` is:
it is not empty), the failed items' pauses (`backoff`), the batch timer and the `setImmediate`.
The groups of a batch are written one after the other, in any order of the users.  Items are
numbered as they arrive.  `Restart` forgets the queue, after a shutdown that saves what it can.
An item that comes back after a failure sets no timer: it waits for the next enqueue, which is
why `QueueMinded` and `FirstTriesEnd` speak of first tries.  `overlapped` is a history variable:
the users for whom two loads, writes or background saves were under way at once, or a load
failed; `WrittenKept` excepts them, and `VectorOverlap` shows that it has to.  The global index is
neither evicted nor reloaded and is left out, as are checksums.  A save is one step: the two
renames that end it (`faiss-vector.service.ts:723-726`) have no `await` between them, and the death
of the process between them, which leaves the index under its backup's name, is left out; so
are two saves of one index that start in the same millisecond and share the temporary
directory named by it (706).  The index service's own `queue`, `enqueue`, `flushQueue` and `clear`
have no callers.  `clearAllIndices` and `deleteUserIndex` are called by
`vector-recovery.service.ts` alone, whose rebuilds nothing calls; they are left out with it.  A write that is saved and then retried inserts its documents
twice, which a set does not show.

## 4. Runs

| Run | Instance | Shows |
|---|---|---|
| `WebhookRaces` | 2 rows, 2 calls, 1 retry, Redis there or lost, 1 edit, 1 database error, lost reply or stall | all safety properties: budget, retry chains, statistics, deactivation, announced retries exist, no double POST of polled rows, ended rows stay ended |
| `WebhookRestart` | 2 rows, 2 calls, no Redis, 1 restart, 1 database error | liveness: pending rows end |
| `WebhookEventStuck` | 1 row, no faults | *violated*: with BullMQ an event's row is never queued |
| `Failover` | 2 providers in every order and twice the same, 2 requests, threshold 2, 5 exceptions | each breaker implements `CircuitBreaker`, breaker and health agree, half-open is probed, recovery (liveness) |
| `SlotsQueue` | 2 requests of 2 priorities and clocks, 1 slot, one failing command, abort and crash | accounting, expiry, priority order, everyone goes on (liveness) |
| `SlotsRecover` | 3 requests, 1 slot, 2 aborts, default mode | liveness: leaked slots come back |
| `SlotsOverLimit` | 2 requests, 1 slot, default mode, no faults | *violated*: two slots taken under a limit of one |
| `Workflow` | 3 steps in 6 templates, batches of 2, 2 controls, 1 refused write | all safety properties and the refinement of `WorkflowSchedule` with its fairness |
| `WorkflowControls` | the same, 1 control, no faults | *violated*: a paused or cancelled execution starts steps |
| `Governed` | 2 handlers, 3 requests, plans of 3 steps and of 1, 1 fault or death | all properties of a governed task, with liveness: progress ends |
| `VectorWrites` | 3 items of 2 users, batches of 2, 2 tries, a cache of 1, 1 search or expiry, 2 faults | accounting, minding, written documents stay, first tries end (liveness) |
| `VectorOverlap` | the same without faults | *violated*: a search beside the writer loses written documents |

**Why the bounds are enough.**  The races of the webhooks need two calls on one row, and the
row of its retry; larger instances (3 rows, 2 retries, without Redis) were checked while
modelling and showed nothing more.  Two providers and two
requests give every order of late answers around one breaker; five exceptions with threshold 2
open it, fail a probe and extend the cooling time.  Two requests with one slot compete in every
way that two commands can interleave, three are needed for a leaked slot to be renewed by
another request.  Three steps give chains, forks, joins and a batch smaller than the ready list.
A governed task's hazards are stale copies, which need two handlers and a third request to
change what one of them has loaded; the long plan has a critical step, a dependent one and a
second phase.  With a cache of one index a second user evicts the first; two items of one user
and one of another give batches of one and of two groups, a batch that leaves an item in the
queue, and a last try.  The counters of edits, faults, crashes, controls, requests and misses bound
how often, not when.

**Deadlock** is not checked in the webhook runs (all rows of the instance are used up and
ended), in `SlotsQueue` (a name whose queue entry was lost is not used again, and both names may be
lost) in the workflow runs (an execution ends), in `Governed` (its
requests run out) and in the vector runs (its items do).

**Mutants.**  Definitions commented as plausible bugs are wrong variants of a mapped definition;
replacing the definition by its variant makes TLC report the property named beside it in
`PROJECT.json`, which shows that the property depends on the code.

## 5. Fairness

* Webhooks: weak fairness of the steps of running handlers, of timers, jobs and polls, of the
  expiry of claims and of the breaker's cooling: the event loop runs what is ready, axios has a
  timeout, `setInterval` ticks, clocks advance.  None for edits, faults, crashes or lost Redis.
* Failover: weak fairness of answers (the POST has a timeout) and of cooling; strong fairness of
  arrivals for each policy, an assumption about traffic: the breaker has no timer that closes
  it, so a provider nobody asks for stays open.
* Slots: weak fairness of a request's commands, its clock, its end, and of Redis' expiry.  No
  fairness of arrivals, and none against aborts and crashes.
* Workflow: weak fairness of the run, of each step's end and of a cancellation's end.  LLM calls
  and the headers of API calls have timeouts; the body of an API call has none, which is the one
  place where this is assumed.  No fairness of the controls.
* Governed tasks: weak fairness of each handler's next step: database commands return or throw,
  models and tools answer or time out.  None for requests, faults or the death of the process.
* Vector indices: weak fairness of the timer and the immediate, and of the writer's loads,
  embeddings and saves.  None for searches, background saves, expiries, pauses or faults.

## 6. Proofs

Each `*Proofs` module EXTENDS its component and proves, by an inductive invariant that TLC
confirmed first, for every value of the constants that the component's one assumption allows:

* `WebhookDeliveryProofs`: `TypeCorrect` (with `KnownIds`: calls, jobs and timers only know rows
  that were inserted), `EndedStaysEnded` (an action property) and `RetryBudgetHolds`.  The budget
  alone is not inductive, because a call saves what it loaded awaits ago: `PaidFor` says that a
  call that will write its copy of `retriesLeft` back holds the attempt number of its row and has
  paid for the retry it is about to create.
* `WebhookRetryProofs`: `RetryChainHolds`.  Several calls may hold copies of one row, and each may
  close it and insert a retry.  `ChainInv` shows why their retries still fit the row: only a
  pending row is loaded, and saves that change `retriesLeft` also end the row, so all copies of it
  were loaded with the same number (`CopiesAlike`), which the row has lost at most one of
  (`CopiesAgree`), and which each of its retries continues (`RetriesFollow`).
* `WebhookServiceProofs`: `HealthGrounded`, `RetryIsAnnounced`, `StatsCountEveryEnd` and `PolledOnce`.
  The first three rest on `GoneInv`: rows of a webhook that exists are never deleted, a failed row
  has an error, and errors stay.  `StatsCountEveryEnd` then follows the cardinalities of two sets, the
  rows that ended and the calls that have yet to count one.  `PollInv` says of an event's row that
  only the poller runs it, so that its claim, as long as attempts end before it expires,
  keeps other calls away (`ClaimedOnce`), and that a row still pending after a POST is paid for by a
  fault (`PostsPaid`).

  Three more theorems are about the service while Redis is up.  `NothingPendingIsLost`: the
  handler's queue, the job, the call and the retry to be queued hand a pending row on without a
  gap (`QueuedUntilStarted`, `WaitGoesOn`).  `OnePostPerFault`: a row is sent once, once more at most for each
  restart, stall of its job and lost reply to its add, and never more than three times, which
  TLC reaches.  `LimitInv` is a potential: what was posted, the calls that are about to post, the
  jobs, and what each job may still give when it stalls add up to no more than three
  (`PostsLimited`), because a row is queued only once, by the handler that inserted it or by the
  call it retries (`QueuedOnce`), and BullMQ gives a stalled job to a worker once more only.
  `EventsNeverSent`: nobody queues an event's row.  The first excludes crashes, database errors
  and deletions; the last two assume `[]~fallback`, that Redis is never reported lost or missing,
  and hold under any crashes, database errors, lost replies, stalls and edits.
* `GatewayFailoverProofs`: `TypeCorrect`, `BreakerAndHealthAgree`, `HalfOpenProbed`.  The
  invariant ties the breaker's count of failures to the health record's and keeps, for
  every half-open breaker, a request in flight as witness.  `BreakersKeepThePromise` is the
  refinement of `CircuitBreaker` for each provider: a request that passes over open breakers
  and half-opens one is a step of one abstract breaker (`ProceedProbes`, `ProbeMaps`), and a late
  failure at a breaker that has opened meanwhile only prolongs its rest (`FailMaps`).
* `GatewaySlotsProofs`: `TypeCorrect`, `EverythingAccounted`, `ExpiryAlwaysArmed` and, assuming
  queue mode, `PriorityRespected`, for clocks that differ by less than the weight of a priority
  (31 years).  `OrderInv` keeps that an older polling request is in the queue with a smaller
  score unless it is a stray, and that the request that learnt it is in front has the least score.
  `ConcurrencyLimit` is false (section 7); `OverrunBounded` says by how much: if at most K requests
  at a time are between the answer of `scard` and their `sadd`, and no command fails, at most
  `Limit - 1 + K` slots are taken.  `OverrunInv` counts the slots together with the requests on
  their way to one, since each decided when there was room.  `LimitKeptOneByOne` is the case
  K = 1: the limit holds as long as no two requests decide at once.
* `WorkflowExecutionProofs`: `TypeCorrect`, `DependenciesComeFirst`, `ParallelismBounded`,
  `OutcomeReported`, `StoredLast` and `SchedulesFaithfully`, the safety half of the refinement: every behaviour
  with batches, charges and controls is one of `WorkflowSchedule`.  `IInv` adds that a batch is
  no larger than the parallelism and that the phases of the charges are only reached when all
  steps have completed.  One lemma per action shows both the invariant and the abstract step.
  `TokensNeverCharged`: no execution is ever charged for a token (section 7).
* `GovernedTaskProofs`: `TypeCorrect`, `ProgressMinded`, `CancelStopsExecution`, `ModesEarned`.
  The invariant says what each handler's copy promises about the document it will save over:
  that its outcome will be stored (`CallOk`), that an execution begins no second step after a
  cancellation it has not seen (`LateOk`), and that the mode it brings back was earned (`Earned`).
* `VectorWritesProofs`: `TypeCorrect`, `ItemsAreAccounted`, `QueueIsMinded`, `WrittenStays`, for any
  number of users, items, searches, any batch size, capacity and number of tries.  `KeptInv`
  says, for a user who has not overlapped, that every place an index can come back from (disk,
  cache, background saves, callers) has all that is written, and that the writer's instance
  is the cached one (`WriterShares`); an eviction under the writer's hands makes the user
  overlap, which `CachedKeeps` turns into a contradiction.  `FirstTriesFollowOrder`: an item has its
  first try before those that came after it, whatever comes back in between; the invariant adds
  that items are accepted in their order.

Some theorems state what no run checks (`OverrunBounded`, `LimitKeptOneByOne`,
`ParallelismBounded`, `TokensNeverCharged`, `NothingPendingIsLost`, `OnePostPerFault`,
`EventsNeverSent`, `FirstTriesFollowOrder`, and `SchedulesFaithfully`, of which the `Workflow` run
checks more): their statements are in the proof modules.  The hypotheses of the conditional ones
are met by ordinary behaviours: Redis stays up, no command fails, requests decide one at a time.

Only model-checked: the liveness properties (`PendingEnds`, `PreferredRecovers`,
`EveryRequestProceeds`, `SlotsRecover`, `Forgotten`, `InProgressEnds`, `FirstTriesEnd`, the
fairness half of `ImplementsSchedule`), which are out of the prover's reach.

## 7. What the checks found

Under `findings` in `PROJECT.json`: events are inserted and never queued while BullMQ is up (and
so never sent: `EventsNeverSent`); the slots' limit is read and taken in two commands (which
`OverrunBounded` measures); pausing and cancelling a workflow stop nothing
(and the end of the run overwrites `cancelled`); searches write indices beside the single
writer, and written documents disappear.  More is visible in the models without a run of its own:

* an HTTP error answer does not throw (`validateStatus: () => true`,
  `request-processing.service.ts:188`), so `Succeed` closes the breaker and returns it although the
  policy names further providers;
* a workflow is charged for the tokens counted before they are summed up
  (`workflow-orchestrator.service.ts:529` against 546), that is for none: `TokensNeverCharged`;
* a pause or resume during the last persisting of a workflow leaves an ended execution stored
  as paused or running;
* a webhook's `maxRetries: 0` counts as 3 (`InitialRetries`);
* with BullMQ, a crash between inserting a webhook's row and adding its job leaves the row
  pending for ever (`PendingEnds` is stated for the fallback);
* the default mode of the slots ignores priorities (`HigherPriorityFirst` fails with
  `QueueMode = FALSE`);
* after a failed load `getUserIndex` caches an empty index, which the next write saves over the
  good one (`Recover`);
* what `GovernedTask` shows, listed in section 3.

## 8. Not modelled, and why

Of the modelled components: payloads, headers and signatures of webhooks; latencies and totals
of providers; queue statistics; workflow templates, quota checks before a start, traces and what
step types compute: data without influence on the properties.  `parallelism: 0` (an endless
loop) is excluded by `WorkflowAssumption`.  Executions do not survive a restart and nothing
says they should; there is no crash in `WorkflowExecution`.

Parts that turned out to have nothing to model: the enforcement of gateway budgets is a no-op;
the AWS execution engine asks for tokens that nothing generates (`aws.controller.ts:1092`); the
approval manager, `StdioTransport` and the `ConfirmationService` of the MCP module are unused; the jobs of
subscriptions filter by fields that the schema does not have.

Of the repository: modules that create, read and update single documents, aggregate for
dashboards, transform text, or call models and third-party APIs have no protocol a model
checker could say something about; `PROJECT.json` lists them with the reason.  Subscriptions,
account closure, AWS remediation, the generation queue and the cache tiers are planned (section 2).
