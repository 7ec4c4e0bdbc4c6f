----------------------- MODULE WebhookDeliveryProofs -----------------------
(***************************************************************************)
(* Theorems about WebhookDelivery, for every value of its constants: types *)
(* and known ids, the retry budget, and the finality of ended rows.        *)
(***************************************************************************)
EXTENDS WebhookDelivery, TLAPS

(* The calls and rows the actions build *)

LEMMA IdleType == Idle \in Proc /\ Idle.stage = "idle"
BY DEF Idle, Call, Proc, Stages, Locks, NoJob

LEMMA AtType ==
    ASSUME NEW p \in Proc, NEW stage \in Stages
    PROVE  /\ At(p, stage) \in Proc
           /\ At(p, stage).id = p.id /\ At(p, stage).job = p.job
           /\ At(p, stage).stage = stage
BY DEF At, Proc

LEMMA SettledType ==
    ASSUME NEW p \in Proc, NEW stage \in Stages
    PROVE  /\ Settled(p, stage) \in Proc
           /\ Settled(p, stage).id = p.id /\ Settled(p, stage).job = p.job
           /\ Settled(p, stage).stage = stage
BY DEF Settled, Call, Proc, Locks

LEMMA CaughtType ==
    ASSUME NEW p \in Proc
    PROVE  /\ Caught(p) \in Proc
           /\ Caught(p).id = p.id /\ Caught(p).job = p.job
           /\ Caught(p).stage = "failing"
BY DEF Caught, Proc, Stages

LEMMA RetryInPlaceType ==
    ASSUME NEW p \in Proc
    PROVE  /\ RetryInPlace(p) \in Proc
           /\ RetryInPlace(p).id = p.child /\ RetryInPlace(p).job = p.job
           /\ RetryInPlace(p).stage = "start"
BY DEF RetryInPlace, Call, Proc, Stages, Locks, NoJob

LEMMA HoldingType ==
    ASSUME NEW p \in Proc, NEW row \in Row
    PROVE  /\ Holding(p, row) \in Proc
           /\ Holding(p, row).id = p.id /\ Holding(p, row).job = p.job
           /\ Holding(p, row).stage = "loaded"
BY DEF Holding, Proc, Row, Stages

LEMMA AnsweredType ==
    ASSUME NEW p \in Proc, NEW a
    PROVE  /\ Answered(p, a) \in Proc
           /\ Answered(p, a).id = p.id /\ Answered(p, a).job = p.job
           /\ Answered(p, a).stage \in {"succeeding", "scheduling", "failing"}
<1> DEFINE retry == Retryable(a) /\ HasRetry(p.left)
           left == IF retry THEN p.left - 1 ELSE p.left
           stage == IF a = "2xx" THEN "succeeding" ELSE IF retry THEN "scheduling" ELSE "failing"
           inTry == a \in {"2xx", "4xx", "5xx"}
<1>1. left \in Nat
  BY DEF HasRetry, Proc
<1>2. stage \in {"succeeding", "scheduling", "failing"}
  OBVIOUS
<1>3. retry \in BOOLEAN /\ inTry \in BOOLEAN
  BY DEF Retryable, HasRetry
<1>4. Answered(p, a) = [p EXCEPT !.stage = stage, !.left = left, !.dirty = retry, !.inTry = inTry]
  BY DEF Answered
<1> HIDE DEF retry, left, stage, inTry
<1> QED
  BY <1>1, <1>2, <1>3, <1>4 DEF Proc, Stages

LEMMA StartedType ==
    ASSUME NEW id \in Nat, NEW stalls \in 0..NoJob, NEW polled \in BOOLEAN
    PROVE  /\ Started(id, stalls, polled) \in Proc
           /\ Started(id, stalls, polled).id = id
           /\ Started(id, stalls, polled).job = id
           /\ Started(id, stalls, polled).stage = "start"
BY DEF Started, Call, Proc, Stages, Locks, NoJob

LEMMA StartedFreshType ==
    ASSUME NEW id \in Nat, NEW polled \in BOOLEAN
    PROVE  /\ Started(id, NoJob, polled) \in Proc
           /\ Started(id, NoJob, polled).id = id
           /\ Started(id, NoJob, polled).job = id
           /\ Started(id, NoJob, polled).stage = "start"
BY DEF Started, Call, Proc, Stages, Locks, NoJob

LEMMA WithRetryType ==
    ASSUME NEW p \in Proc, NEW child \in Nat
    PROVE  /\ WithRetry(p, child) \in Proc
           /\ WithRetry(p, child).id = p.id /\ WithRetry(p, child).job = p.job
           /\ WithRetry(p, child).stage = "retryCreated"
           /\ WithRetry(p, child).child = child
BY DEF WithRetry, Proc, Stages

LEMMA RowTypes ==
    ASSUME NEW row \in Row, NEW p \in Proc
    PROVE  /\ AbsentRow \in Row /\ AbsentRow.status = "absent"
           /\ Succeeded(row) \in Row /\ Failed(row, p) \in Row /\ Scheduled(row, p) \in Row
BY DEF AbsentRow, Succeeded, Failed, Scheduled, Row, Proc, Kinds, Statuses, Locks, RowErrors

LEMMA NewRowType ==
    ASSUME NEW kind \in Kinds, NEW attempt \in Nat, NEW left \in Nat,
           NEW lock \in Locks, NEW prev \in Nat
    PROVE  NewRow(kind, attempt, left, lock, prev) \in Row
BY DEF NewRow, Row, Kinds, Statuses, Locks, RowErrors

-----------------------------------------------------------------------------
(* Types and known ids *)

\* Replacing one call by one that knows only inserted rows keeps all calls so.
LEMMA BecomesKeeps ==
    ASSUME TypeOK, KnownIds, NEW w \in Workers, NEW q \in Proc, Becomes(w, q),
           nextId' \in {nextId, nextId + 1}, KnownCall(q)'
    PROVE  /\ procs' \in [Workers -> Proc]
           /\ procs'[w] = q
           /\ \A v \in Workers : v # w => procs'[v] = procs[v]
           /\ \A v \in Workers : KnownCall(procs[v])'
<1>1. /\ procs' \in [Workers -> Proc]
      /\ procs'[w] = q
      /\ \A v \in Workers : v # w => procs'[v] = procs[v]
  BY DEF Becomes, TypeOK
<1>2. ASSUME NEW v \in Workers PROVE KnownCall(procs[v])'
  <2>1. CASE v = w
    BY <1>1, <2>1 DEF KnownCall, Known
  <2>2. CASE v # w
    BY <1>1, <2>2 DEF KnownIds, KnownCall, Known, TypeOK
  <2> QED BY <2>1, <2>2
<1> QED BY <1>1, <1>2

LEMMA FinishKeeps ==
    ASSUME TypeOK, KnownIds, NEW w \in Workers, Becomes(w, Idle),
           nextId' \in {nextId, nextId + 1}
    PROVE  /\ procs' \in [Workers -> Proc]
           /\ \A v \in Workers : KnownCall(procs[v])'
<1>1. KnownCall(Idle)'
  BY IdleType DEF KnownCall
<1> QED BY <1>1, IdleType, BecomesKeeps

\* An exception, caught in attemptDelivery or in processDelivery.
LEMMA ThrowKeeps ==
    ASSUME TypeOK, KnownIds, NEW w \in Workers, procs[w].stage # "idle",
           Throw(w), nextId' = nextId
    PROVE  /\ procs' \in [Workers -> Proc]
           /\ \A v \in Workers : KnownCall(procs[v])'
           /\ dbFailures' \in Nat /\ cooled' \in BOOLEAN
<1>1. CASE Becomes(w, Caught(procs[w])) /\ UNCHANGED <<dbFailures, cooled>>
  <2>1. procs[w] \in Proc /\ Known(procs[w].id) /\ Known(procs[w].job)
    BY DEF TypeOK, KnownIds, KnownCall
  <2>2. PICK q : q = Caught(procs[w])
    OBVIOUS
  <2>3. q \in Proc /\ KnownCall(q)'
    BY <2>1, <2>2, CaughtType DEF KnownCall, Known
  <2>4. dbFailures' \in Nat /\ cooled' \in BOOLEAN
    BY <1>1 DEF TypeOK
  <2> QED BY <1>1, <2>2, <2>3, <2>4, BecomesKeeps
<1>2. CASE Abort(w)
  <2>1. cooled' = FALSE /\ dbFailures' = dbFailures + 1
    BY <1>2 DEF Abort, AbortFrom
  <2>2. dbFailures' \in Nat
    BY <2>1 DEF TypeOK
  <2>3. cooled' \in BOOLEAN
    BY <2>1
  <2> QED BY <1>2, <2>2, <2>3, FinishKeeps DEF Abort, AbortFrom
<1> QED BY <1>1, <1>2 DEF Throw

\* document.save() and what follows it.
LEMMA SaveKeeps ==
    ASSUME TypeOK, KnownIds, NEW w \in Workers, procs[w].stage # "idle",
           NEW row \in Row, NEW q \in Proc,
           q.id = procs[w].id, q.job = procs[w].job, q.stage # "retryCreated",
           Saved(w, row, q) \/ SaveThrows(w),
           UNCHANGED <<webhook, nextId, jobs, timers, posts, unchangedByProc>>
    PROVE  TypeOK' /\ KnownIds'
<1>1. Known(procs[w].id) /\ Known(procs[w].job) /\ nextId' = nextId
  BY DEF KnownIds, KnownCall
<1>2. CASE Saved(w, row, q)
  <2>1. KnownCall(q)'
    BY <1>1 DEF KnownCall, Known
  <2>2. /\ procs' \in [Workers -> Proc]
        /\ \A v \in Workers : KnownCall(procs[v])'
    BY <1>1, <1>2, <2>1, BecomesKeeps DEF Saved
  <2>3. rows' \in [Ids -> Row] /\ \A i \in Ids : i >= nextId => rows'[i].status = "absent"
    BY <1>1, <1>2 DEF Saved, TypeOK, KnownIds, Known, Ids
  <2> QED BY <1>2, <2>2, <2>3 DEF Saved, TypeOK, KnownIds, Known, unchangedByProc
<1>3. CASE SaveThrows(w)
  <2>1. /\ procs' \in [Workers -> Proc]
        /\ \A v \in Workers : KnownCall(procs[v])'
        /\ dbFailures' \in Nat /\ cooled' \in BOOLEAN
    BY <1>1, <1>3, ThrowKeeps DEF SaveThrows
  <2>2. dbErrors' \in Nat
    BY <1>3 DEF SaveThrows, DbFault, TypeOK
  <2> QED BY <1>3, <2>1, <2>2 DEF SaveThrows, TypeOK, KnownIds, Known, unchangedByProc
<1> QED BY <1>2, <1>3

\* A row inserted at nextId becomes known, and nothing beyond it exists.
LEMMA InsertKeeps ==
    ASSUME TypeOK, KnownIds, NEW row \in Row, Insert(row)
    PROVE  /\ rows' \in [Ids -> Row]
           /\ nextId' \in 1..(MaxRows + 1) /\ nextId' = nextId + 1
           /\ nextId \in Ids /\ nextId \in 1..(nextId' - 1)
           /\ \A i \in Ids : i >= nextId' => rows'[i].status = "absent"
           /\ \A i \in Ids : i # nextId => rows'[i] = rows[i]
           /\ rows'[nextId] = row
           /\ \A i : Known(i) => Known(i)'
<1> USE WebhookAssumption
<1>1. nextId \in Ids /\ nextId' = nextId + 1 /\ rows' = [rows EXCEPT ![nextId] = row]
  BY DEF Insert
<1>2. nextId' \in 1..(MaxRows + 1) /\ nextId \in 1..(nextId' - 1)
      /\ \A i : Known(i) => Known(i)'
  BY <1>1 DEF Ids, Known
<1>3. rows' \in [Ids -> Row] /\ rows'[nextId] = row /\ \A i \in Ids : i # nextId => rows'[i] = rows[i]
  BY <1>1 DEF TypeOK
<1>4. \A i \in Ids : i >= nextId' => rows'[i].status = "absent"
  BY <1>1, <1>3 DEF KnownIds, Ids
<1> QED BY <1>1, <1>2, <1>3, <1>4

LEMMA EnqueueKeeps ==
    ASSUME TypeOK, NEW i \in Nat, (Enqueue(i) /\ UNCHANGED jobFaults) \/ EnqueueThrows(i)
    PROVE  /\ timers' \subseteq Nat /\ jobs' \subseteq Job /\ jobFaults' \in Nat
           /\ \A k \in timers' : k = i \/ k \in timers
           /\ \A j \in jobs' : j.id = i \/ j \in jobs
<1>1. PICK job : job = [id |-> i, stalls |-> 0]
  OBVIOUS
<1>2. job \in Job /\ job.id = i
  BY <1>1 DEF Job
<1>3. timers \subseteq Nat /\ jobs \subseteq Job
  BY DEF TypeOK
<1>4. \/ timers' = timers \cup {i} /\ jobs' = jobs
      \/ timers' = timers /\ jobs' = jobs \cup {job}
      \/ timers' = timers /\ jobs' = jobs
  BY <1>1 DEF Enqueue, EnqueueThrows
<1>5. jobFaults' \in Nat
  BY DEF EnqueueThrows, JobFault, TypeOK
<1> QED BY <1>2, <1>3, <1>4, <1>5

\* A call whose job stalled is only forgotten by BullMQ.
LEMMA DisownedType ==
    ASSUME NEW p \in Proc
    PROVE  /\ Disowned(p) \in Proc /\ Disowned(p).stalls = NoJob
           /\ Disowned(p).stage = p.stage /\ Disowned(p).id = p.id
           /\ Disowned(p).job = p.job /\ Disowned(p).child = p.child
           /\ Disowned(p).attempt = p.attempt /\ Disowned(p).left = p.left
           /\ Disowned(p).lock = p.lock /\ Disowned(p).dirty = p.dirty
           /\ Disowned(p).polled = p.polled
BY DEF Disowned, Proc, NoJob

-----------------------------------------------------------------------------
\* Every action keeps the state well typed (no retry counter goes below zero) and
\* every queue, timer and call naming rows that were inserted.
LEMMA TypeInductive ==
    TypeOK /\ KnownIds /\ [Next]_vars => TypeOK' /\ KnownIds'
<1> SUFFICES ASSUME TypeOK, KnownIds, [Next]_vars PROVE TypeOK' /\ KnownIds'
  OBVIOUS
<1> USE WebhookAssumption
<1>1. CASE FindWebhook
  <2>1. creating' \in Creation
    BY <1>1 DEF FindWebhook, Creation, Kinds, Locks, InitialRetries
  <2> QED BY <1>1, <2>1 DEF FindWebhook, TypeOK, KnownIds, KnownCall, Known, unchangedByApi
<1>2. CASE FindReplayed
  <2>1. creating' \in Creation
    BY <1>2 DEF FindReplayed, Creation, Kinds, Row, TypeOK
  <2>2. edits' \in Nat
    BY <1>2 DEF FindReplayed, UserEdit, TypeOK
  <2> QED BY <1>2, <2>1, <2>2 DEF FindReplayed, TypeOK, KnownIds, KnownCall, Known, unchangedByApi
<1>3. CASE CreateDelivery
  <2>1. creating' \in Creation
    BY <1>3 DEF CreateDelivery, NoCreation, Creation, Locks
  <2>2. ASSUME Insert(NewRow(creating.kind, 1, creating.left, creating.lock, 0)),
               toQueue' = IF creating.kind = "event" THEN toQueue ELSE toQueue \cup {nextId},
               UNCHANGED dbErrors
        PROVE  TypeOK' /\ KnownIds'
    <3>1. PICK row \in Row : Insert(row)
      <4>1. creating.kind \in Kinds /\ creating.left \in Nat /\ creating.lock \in Locks
        BY <1>3 DEF CreateDelivery, TypeOK, Creation
      <4> QED BY <2>2, <4>1, NewRowType
    <3>2. nextId \in Nat /\ toQueue' \subseteq toQueue \cup {nextId}
      BY <2>2 DEF TypeOK
    <3> QED BY <1>3, <2>1, <2>2, <3>1, <3>2, InsertKeeps
        DEF CreateDelivery, TypeOK, KnownIds, KnownCall, Known, unchangedByApi
  <2>3. ASSUME DbFault, UNCHANGED <<rows, nextId, toQueue>> PROVE TypeOK' /\ KnownIds'
    BY <1>3, <2>1, <2>3 DEF CreateDelivery, DbFault, TypeOK, KnownIds, KnownCall, Known, unchangedByApi
  <2> QED BY <1>3, <2>2, <2>3 DEF CreateDelivery
<1>4. CASE QueueDelivery
  <2>1. PICK i \in toQueue :
          /\ toQueue' = toQueue \ {i}
          /\ \/ Enqueue(i) /\ UNCHANGED <<procs, jobFaults>>
             \/ /\ \E w \in Workers : Becomes(w, Started(i, NoJob, FALSE))
                /\ EnqueueThrows(i)
    BY <1>4 DEF QueueDelivery
  <2>2. /\ i \in Nat /\ Known(i) /\ toQueue' \subseteq toQueue
        /\ UNCHANGED <<webhook, rows, nextId, creating, fallback, worker, dbFailures,
                       cooled, deleting, edits, crashes, dbErrors, posts>>
    BY <1>4, <2>1 DEF QueueDelivery, TypeOK, KnownIds
  <2>3. CASE Enqueue(i) /\ UNCHANGED <<procs, jobFaults>>
    BY <2>2, <2>3, EnqueueKeeps DEF TypeOK, KnownIds, KnownCall, Known
  <2>4. ASSUME NEW w \in Workers, Becomes(w, Started(i, NoJob, FALSE)), EnqueueThrows(i)
        PROVE  TypeOK' /\ KnownIds'
    <3>1. PICK q : q = Started(i, NoJob, FALSE)
      OBVIOUS
    <3>2. q \in Proc /\ KnownCall(q)'
      BY <2>2, <3>1, StartedFreshType DEF KnownCall, Known
    <3>3. /\ procs' \in [Workers -> Proc]
          /\ \A v \in Workers : KnownCall(procs[v])'
      BY <2>2, <2>4, <3>1, <3>2, BecomesKeeps
    <3> QED BY <2>2, <2>4, <3>3, EnqueueKeeps DEF TypeOK, KnownIds, Known
  <2> QED BY <2>1, <2>3, <2>4
<1>5. CASE UpdateWebhook
  BY <1>5 DEF UpdateWebhook, UserEdit, TypeOK, KnownIds, KnownCall, Known, unchangedByApi
<1>6. CASE DeleteWebhook
  <2>1. /\ \E b \in BOOLEAN : webhook' = [webhook EXCEPT !.exists = b]
        /\ deleting' \in BOOLEAN /\ edits' = edits + 1
    BY <1>6 DEF DeleteWebhook, UserEdit
  <2>2. webhook' \in [exists : BOOLEAN, active : BOOLEAN, successes : Nat, failures : Nat]
    BY <2>1 DEF TypeOK
  <2> QED BY <1>6, <2>1, <2>2
      DEF DeleteWebhook, TypeOK, KnownIds, KnownCall, Known, unchangedByApi
<1>7. CASE CascadeDelete
  <2>1. rows' \in [Ids -> Row] /\ \A i \in Ids : i >= nextId => rows'[i].status = "absent"
    BY <1>7 DEF CascadeDelete, AbsentRow, Row, Kinds, Statuses, Locks, RowErrors, TypeOK, KnownIds
  <2>2. dbErrors' \in Nat
    BY <1>7 DEF CascadeDelete, DbFault, TypeOK
  <2> QED BY <1>7, <2>1, <2>2 DEF CascadeDelete, TypeOK, KnownIds, KnownCall, Known, unchangedByApi
<1>8. ASSUME NEW w \in Workers, RunTimer(w) PROVE TypeOK' /\ KnownIds'
  <2>1. PICK i \in timers : /\ timers' = timers \ {i}
                            /\ Becomes(w, Started(i, NoJob, FALSE))
                            /\ i \in Nat /\ Known(i) /\ nextId' = nextId
    BY <1>8 DEF RunTimer, TypeOK, KnownIds
  <2>2. /\ procs' \in [Workers -> Proc]
        /\ \A v \in Workers : KnownCall(procs[v])'
    <3>1. PICK q : q = Started(i, NoJob, FALSE)
      OBVIOUS
    <3>2. q \in Proc /\ KnownCall(q)'
      BY <2>1, <3>1, StartedFreshType DEF KnownCall, Known
    <3> QED BY <2>1, <3>1, <3>2, BecomesKeeps
  <2> QED BY <1>8, <2>1, <2>2 DEF RunTimer, TypeOK, KnownIds, Known, unchangedByProc
<1>9. ASSUME NEW w \in Workers, RunJob(w) PROVE TypeOK' /\ KnownIds'
  <2>1. PICK j \in jobs : /\ jobs' = jobs \ {j}
                          /\ Becomes(w, Started(j.id, j.stalls, FALSE))
    BY <1>9 DEF RunJob
  <2>3. j \in Job /\ Known(j.id) /\ nextId' = nextId
    BY <1>9, <2>1 DEF RunJob, TypeOK, KnownIds
  <2>4. j.id \in Nat /\ j.stalls \in 0..NoJob
    BY <2>3 DEF Job, NoJob
  <2>2. /\ procs' \in [Workers -> Proc]
        /\ \A v \in Workers : KnownCall(procs[v])'
    <3>1. PICK q : q = Started(j.id, j.stalls, FALSE)
      OBVIOUS
    <3>2. q \in Proc /\ KnownCall(q)'
      BY <2>3, <2>4, <3>1, StartedType DEF KnownCall, Known
    <3> QED BY <2>1, <2>3, <3>1, <3>2, BecomesKeeps
  <2> QED BY <1>9, <2>1, <2>2 DEF RunJob, TypeOK, KnownIds, Known, unchangedByProc
<1>10. ASSUME NEW w \in Workers, Poll(w) PROVE TypeOK' /\ KnownIds'
  <2>1. PICK i \in Ids : /\ Pollable(i)
                         /\ rows' = [rows EXCEPT ![i].lock = "held"]
                         /\ Becomes(w, Started(i, NoJob, TRUE))
    BY <1>10 DEF Poll
  <2>2. i \in Nat /\ Known(i) /\ nextId' = nextId
    <3>1. rows[i].status # "absent" /\ nextId' = nextId
      BY <1>10, <2>1 DEF Poll, Pollable
    <3>2. i < nextId /\ i \in 1..MaxRows
      BY <3>1 DEF KnownIds, TypeOK, Ids
    <3> QED BY <3>1, <3>2 DEF Known, TypeOK
  <2>3. /\ procs' \in [Workers -> Proc]
        /\ \A v \in Workers : KnownCall(procs[v])'
    <3>1. PICK q : q = Started(i, NoJob, TRUE)
      OBVIOUS
    <3>2. q \in Proc /\ KnownCall(q)'
      BY <2>2, <3>1, StartedFreshType DEF KnownCall, Known
    <3> QED BY <2>1, <2>2, <3>1, <3>2, BecomesKeeps
  <2>4. /\ rows' \in [Ids -> Row]
        /\ \A k \in Ids : rows'[k].status = rows[k].status
    BY <2>1 DEF TypeOK, Row, Locks
  <2> QED BY <1>10, <2>2, <2>3, <2>4 DEF Poll, TypeOK, KnownIds, Known, unchangedByProc
<1>11. ASSUME NEW w \in Workers, Load(w) PROVE TypeOK' /\ KnownIds'
  <2>1. /\ procs[w] \in Proc /\ procs[w].stage = "start" /\ nextId' = nextId
        /\ Known(procs[w].id) /\ Known(procs[w].job)
    BY <1>11 DEF Load, TypeOK, KnownIds, KnownCall
  <2>2. /\ procs' \in [Workers -> Proc]
        /\ \A v \in Workers : KnownCall(procs[v])'
    <3>1. PICK q : q = Holding(procs[w], rows[procs[w].id])
      OBVIOUS
    <3>2. q \in Proc /\ KnownCall(q)'
      <4>1. rows[procs[w].id] \in Row
        BY <2>1 DEF TypeOK, Known, Ids
      <4> QED BY <2>1, <3>1, <4>1, HoldingType DEF KnownCall, Known
    <3>3. Becomes(w, Idle) \/ Becomes(w, q)
      BY <1>11, <3>1 DEF Load, Finish, Abort, AbortFrom
    <3> QED BY <2>1, <3>2, <3>3, BecomesKeeps, FinishKeeps
  <2>3. /\ dbFailures' \in {0, 1, dbFailures, dbFailures + 1}
        /\ cooled' \in BOOLEAN
        /\ dbErrors' \in {dbErrors, dbErrors + 1}
    <3>1. cooled' \in BOOLEAN
      BY <1>11 DEF Load, Abort, AbortFrom, TypeOK
    <3>2. dbFailures' \in {0, 1, dbFailures, dbFailures + 1}
      BY <1>11 DEF Load, Abort, AbortFrom, ResetBreaker, FailuresAsked
    <3>3. dbErrors' \in {dbErrors, dbErrors + 1}
      BY <1>11 DEF Load, DbFault
    <3> QED BY <3>1, <3>2, <3>3
  <2> QED BY <1>11, <2>2, <2>3 DEF Load, TypeOK, KnownIds, Known, unchangedByProc
<1>12. ASSUME NEW w \in Workers, ReadWebhook(w) PROVE TypeOK' /\ KnownIds'
  <2>1. /\ procs[w] \in Proc /\ procs[w].stage = "loaded" /\ nextId' = nextId
        /\ Known(procs[w].id) /\ Known(procs[w].job)
    BY <1>12 DEF ReadWebhook, TypeOK, KnownIds, KnownCall
  <2>2. /\ procs' \in [Workers -> Proc]
        /\ \A v \in Workers : KnownCall(procs[v])'
    <3>1. PICK stage, q :
            /\ stage \in Stages
            /\ q = At(procs[w], stage) /\ stage \in {"failing", "sending"}
            /\ Becomes(w, Idle) \/ Becomes(w, q)
      BY <1>12 DEF ReadWebhook, Abort, AbortFrom, Finish, Stages
    <3>2. q \in Proc /\ KnownCall(q)'
      BY <2>1, <3>1, AtType DEF KnownCall, Known
    <3> QED BY <2>1, <3>1, <3>2, BecomesKeeps, FinishKeeps
  <2>3. /\ dbFailures' \in {0, dbFailures, dbFailures + 1}
        /\ cooled' \in BOOLEAN
        /\ dbErrors' \in {dbErrors, dbErrors + 1}
        /\ posts' \in [Ids -> Nat]
    <3>1. cooled' \in BOOLEAN
      BY <1>12 DEF ReadWebhook, Abort, AbortFrom, TypeOK
    <3>2. dbFailures' \in {0, dbFailures, dbFailures + 1}
      BY <1>12 DEF ReadWebhook, Abort, AbortFrom
    <3>3. dbErrors' \in {dbErrors, dbErrors + 1} /\ posts' \in [Ids -> Nat]
      BY <1>12 DEF ReadWebhook, DbFault, TypeOK
    <3> QED BY <3>1, <3>2, <3>3
  <2> QED BY <1>12, <2>2, <2>3 DEF ReadWebhook, TypeOK, KnownIds, Known, unchangedByProc
<1>13. ASSUME NEW w \in Workers, Respond(w) PROVE TypeOK' /\ KnownIds'
  <2>1. /\ procs[w] \in Proc /\ procs[w].stage = "sending" /\ nextId' = nextId
        /\ Known(procs[w].id) /\ Known(procs[w].job)
    BY <1>13 DEF Respond, TypeOK, KnownIds, KnownCall
  <2>2. PICK a, q : q = Answered(procs[w], a) /\ Becomes(w, q)
    BY <1>13 DEF Respond
  <2>3. /\ procs' \in [Workers -> Proc]
        /\ \A v \in Workers : KnownCall(procs[v])'
    <3>1. q \in Proc /\ KnownCall(q)'
      BY <2>1, <2>2, AnsweredType DEF KnownCall, Known
    <3> QED BY <2>1, <2>2, <3>1, BecomesKeeps
  <2> QED BY <1>13, <2>3 DEF Respond, TypeOK, KnownIds, Known, unchangedByProc
<1>14. ASSUME NEW w \in Workers, SaveSuccess(w) PROVE TypeOK' /\ KnownIds'
  <2>1. /\ procs[w] \in Proc /\ procs[w].stage = "succeeding"
        /\ rows[procs[w].id] \in Row
    BY <1>14 DEF SaveSuccess, TypeOK, KnownIds, KnownCall, Known, Ids
  <2>2. PICK row, q : row = Succeeded(rows[procs[w].id]) /\ q = Settled(procs[w], "succeeded")
    OBVIOUS
  <2>3. /\ row \in Row /\ q \in Proc /\ q.stage # "retryCreated"
        /\ q.id = procs[w].id /\ q.job = procs[w].job
    BY <2>1, <2>2, RowTypes, SettledType DEF Stages
  <2> QED BY <1>14, <2>1, <2>2, <2>3, SaveKeeps DEF SaveSuccess
<1>15. ASSUME NEW w \in Workers, SaveFailed(w) PROVE TypeOK' /\ KnownIds'
  <2>1. /\ procs[w] \in Proc /\ procs[w].stage = "failing"
        /\ rows[procs[w].id] \in Row
    BY <1>15 DEF SaveFailed, TypeOK, KnownIds, KnownCall, Known, Ids
  <2>2. PICK row, q : row = Failed(rows[procs[w].id], procs[w]) /\ q = Settled(procs[w], "failed")
    OBVIOUS
  <2>3. /\ row \in Row /\ q \in Proc /\ q.stage # "retryCreated"
        /\ q.id = procs[w].id /\ q.job = procs[w].job
    BY <2>1, <2>2, RowTypes, SettledType DEF Stages
  <2> QED BY <1>15, <2>1, <2>2, <2>3, SaveKeeps DEF SaveFailed
<1>16. ASSUME NEW w \in Workers, ScheduleRetry(w) PROVE TypeOK' /\ KnownIds'
  <2>1. /\ procs[w] \in Proc /\ procs[w].stage = "scheduling"
        /\ rows[procs[w].id] \in Row
    BY <1>16 DEF ScheduleRetry, TypeOK, KnownIds, KnownCall, Known, Ids
  <2>2. PICK row, q : row = Scheduled(rows[procs[w].id], procs[w]) /\ q = At(procs[w], "retrySaved")
    OBVIOUS
  <2>3. /\ row \in Row /\ q \in Proc /\ q.stage # "retryCreated"
        /\ q.id = procs[w].id /\ q.job = procs[w].job
    BY <2>1, <2>2, RowTypes, AtType DEF Stages
  <2> QED BY <1>16, <2>1, <2>2, <2>3, SaveKeeps DEF ScheduleRetry
<1>17. ASSUME NEW w \in Workers, CreateRetry(w) PROVE TypeOK' /\ KnownIds'
  <2>1. /\ procs[w] \in Proc /\ procs[w].stage = "retrySaved"
        /\ Known(procs[w].id) /\ Known(procs[w].job)
    BY <1>17 DEF CreateRetry, TypeOK, KnownIds, KnownCall
  <2>2. ASSUME Insert(NewRow("retry", procs[w].attempt + 1, procs[w].left, procs[w].lock, procs[w].id)),
               Becomes(w, WithRetry(procs[w], nextId)),
               UNCHANGED <<dbFailures, cooled, dbErrors>>
        PROVE  TypeOK' /\ KnownIds'
    <3>1. PICK row \in Row : Insert(row)
      BY <2>1, <2>2, NewRowType DEF Proc, Kinds
    <3>2. PICK q, n : q = WithRetry(procs[w], n) /\ n = nextId
      OBVIOUS
    <3>3. n \in Nat
      BY <3>2 DEF TypeOK
    <3>6. /\ q \in Proc /\ q.stage = "retryCreated" /\ q.child = n
          /\ q.id = procs[w].id /\ q.job = procs[w].job
      BY <2>1, <3>2, <3>3, WithRetryType
    <3>7. nextId' = nextId + 1 /\ nextId \in Nat \ {0}
      BY <3>1, InsertKeeps DEF TypeOK
    <3>4. q \in Proc /\ KnownCall(q)'
      BY <2>1, <3>2, <3>6, <3>7 DEF KnownCall, Known
    <3>5. /\ procs' \in [Workers -> Proc]
          /\ \A v \in Workers : KnownCall(procs[v])'
      BY <2>2, <3>1, <3>2, <3>4, BecomesKeeps, InsertKeeps
    <3> QED BY <1>17, <2>2, <3>1, <3>5, InsertKeeps
        DEF CreateRetry, TypeOK, KnownIds, unchangedByProc
  <2>3. ASSUME DbFault, Throw(w), UNCHANGED <<rows, nextId>> PROVE TypeOK' /\ KnownIds'
    <3>1. dbErrors' \in Nat
      BY <2>3 DEF DbFault, TypeOK
    <3>2. /\ procs' \in [Workers -> Proc]
          /\ \A v \in Workers : KnownCall(procs[v])'
          /\ dbFailures' \in Nat /\ cooled' \in BOOLEAN
      BY <2>1, <2>3, ThrowKeeps
    <3> QED BY <1>17, <2>3, <3>1, <3>2 DEF CreateRetry, TypeOK, KnownIds, Known, unchangedByProc
  <2> QED BY <1>17, <2>2, <2>3 DEF CreateRetry
<1>18. ASSUME NEW w \in Workers, QueueRetry(w) PROVE TypeOK' /\ KnownIds'
  <2>1. /\ procs[w] \in Proc /\ nextId' = nextId
        /\ Known(procs[w].job) /\ Known(procs[w].child)
    BY <1>18 DEF QueueRetry, TypeOK, KnownIds, KnownCall
  <2>2. CASE Enqueue(procs[w].child) /\ Finish(w) /\ UNCHANGED jobFaults
    <3>1. PICK i \in Nat : Enqueue(i) /\ UNCHANGED jobFaults /\ Known(i)
      BY <2>1, <2>2 DEF Proc
    <3>2. /\ procs' \in [Workers -> Proc]
          /\ \A v \in Workers : KnownCall(procs[v])'
      BY <2>1, <2>2, FinishKeeps DEF Finish
    <3> QED BY <1>18, <2>1, <3>1, <3>2, EnqueueKeeps
        DEF QueueRetry, TypeOK, KnownIds, Known
  <2>3. CASE Becomes(w, RetryInPlace(procs[w])) /\ EnqueueThrows(procs[w].child)
    <3>1. PICK q : q = RetryInPlace(procs[w])
      OBVIOUS
    <3>2. q \in Proc /\ KnownCall(q)'
      BY <2>1, <3>1, RetryInPlaceType DEF KnownCall, Known
    <3>3. /\ procs' \in [Workers -> Proc]
          /\ \A v \in Workers : KnownCall(procs[v])'
      BY <2>1, <2>3, <3>1, <3>2, BecomesKeeps
    <3>4. PICK i \in Nat : EnqueueThrows(i) /\ Known(i)
      BY <2>1, <2>3 DEF Proc
    <3> QED BY <1>18, <2>1, <3>3, <3>4, EnqueueKeeps DEF QueueRetry, TypeOK, KnownIds, Known
  <2> QED BY <1>18, <2>2, <2>3 DEF QueueRetry
<1>19. ASSUME NEW w \in Workers, CountSuccess(w) PROVE TypeOK' /\ KnownIds'
  <2>1. nextId' = nextId /\ Becomes(w, Idle)
    BY <1>19 DEF CountSuccess, Finish
  <2>2. /\ procs' \in [Workers -> Proc]
        /\ \A v \in Workers : KnownCall(procs[v])'
    BY <2>1, FinishKeeps
  <2>3. /\ webhook' \in [exists : BOOLEAN, active : BOOLEAN, successes : Nat, failures : Nat]
        /\ dbErrors' \in Nat
    BY <1>19 DEF CountSuccess, Counted, DbFault, TypeOK
  <2> QED BY <1>19, <2>2, <2>3 DEF CountSuccess, TypeOK, KnownIds, Known, unchangedByProc
<1>20. ASSUME NEW w \in Workers, CountFailure(w) PROVE TypeOK' /\ KnownIds'
  <2>1. /\ procs[w] \in Proc /\ procs[w].stage # "idle" /\ nextId' = nextId
        /\ Known(procs[w].id) /\ Known(procs[w].job)
    BY <1>20 DEF CountFailure, TypeOK, KnownIds, KnownCall
  <2>2. /\ procs' \in [Workers -> Proc]
        /\ \A v \in Workers : KnownCall(procs[v])'
    <3>1. PICK q : q = At(procs[w], "counting")
      OBVIOUS
    <3>2. q \in Proc /\ KnownCall(q)'
      BY <2>1, <3>1, AtType DEF Stages, KnownCall, Known
    <3>3. Becomes(w, q)
      BY <1>20, <3>1 DEF CountFailure, Finish
    <3> QED BY <2>1, <3>2, <3>3, BecomesKeeps, FinishKeeps
  <2>3. /\ webhook' \in [exists : BOOLEAN, active : BOOLEAN, successes : Nat, failures : Nat]
        /\ dbErrors' \in Nat
    BY <1>20 DEF CountFailure, Counted, DbFault, TypeOK
  <2> QED BY <1>20, <2>2, <2>3 DEF CountFailure, TypeOK, KnownIds, Known, unchangedByProc
<1>21. ASSUME NEW w \in Workers, CheckHealth(w) PROVE TypeOK' /\ KnownIds'
  <2>1. /\ procs[w] \in Proc /\ procs[w].stage # "idle" /\ nextId' = nextId
        /\ Known(procs[w].id) /\ Known(procs[w].job)
    BY <1>21 DEF CheckHealth, TypeOK, KnownIds, KnownCall
  <2>2. /\ procs' \in [Workers -> Proc]
        /\ \A v \in Workers : KnownCall(procs[v])'
    <3>1. PICK q : q = At(procs[w], "deactivating")
      OBVIOUS
    <3>2. q \in Proc /\ KnownCall(q)'
      BY <2>1, <3>1, AtType DEF Stages, KnownCall, Known
    <3>3. Becomes(w, q) \/ Becomes(w, Idle)
      BY <1>21, <3>1 DEF CheckHealth, Finish
    <3> QED BY <2>1, <3>2, <3>3, BecomesKeeps, FinishKeeps
  <2>3. /\ webhook' \in [exists : BOOLEAN, active : BOOLEAN, successes : Nat, failures : Nat]
        /\ dbErrors' \in Nat
    BY <1>21 DEF CheckHealth, Counted, DbFault, TypeOK
  <2> QED BY <1>21, <2>2, <2>3 DEF CheckHealth, TypeOK, KnownIds, Known, unchangedByProc
<1>22. ASSUME NEW w \in Workers, Deactivate(w) PROVE TypeOK' /\ KnownIds'
  <2>1. nextId' = nextId /\ Becomes(w, Idle)
    BY <1>22 DEF Deactivate, Finish
  <2>2. /\ procs' \in [Workers -> Proc]
        /\ \A v \in Workers : KnownCall(procs[v])'
    BY <2>1, FinishKeeps
  <2>3. /\ webhook' \in [exists : BOOLEAN, active : BOOLEAN, successes : Nat, failures : Nat]
        /\ dbErrors' \in Nat
    <3>1. webhook' = webhook \/ webhook' = [webhook EXCEPT !.active = FALSE]
      BY <1>22 DEF Deactivate
    <3>2. dbErrors' = dbErrors \/ dbErrors' = dbErrors + 1
      BY <1>22 DEF Deactivate, DbFault
    <3>3. \E b \in BOOLEAN : webhook' = webhook \/ webhook' = [webhook EXCEPT !.active = b]
      BY <3>1
    <3> QED BY <3>2, <3>3 DEF TypeOK
  <2> QED BY <1>22, <2>2, <2>3 DEF Deactivate, TypeOK, KnownIds, Known, unchangedByProc
<1>23. ASSUME NEW i \in Ids, LockExpires(i) PROVE TypeOK' /\ KnownIds'
  <2>1. /\ rows' \in [Ids -> Row]
        /\ \A k \in Ids : rows'[k].status = rows[k].status
    BY <1>23 DEF LockExpires, TypeOK, Row, Locks
  <2> QED BY <1>23, <2>1 DEF LockExpires, TypeOK, KnownIds, KnownCall, Known, memory
<1>24. CASE BreakerCools
  BY <1>24 DEF BreakerCools, TypeOK, KnownIds, KnownCall, Known, unchangedByProc
<1>25. CASE RedisLost
  BY <1>25 DEF RedisLost, TypeOK, KnownIds, KnownCall, Known, memory
<1>26. CASE Crash
  <2>1. jobs' \subseteq Job /\ \A j \in jobs' : Known(j.id)'
    <3>1. ASSUME NEW j \in jobs', j \notin jobs PROVE j \in Job /\ Known(j.id)'
      <4>1. PICK v \in Workers : /\ procs[v].stage # "idle"
                                 /\ j = [id |-> procs[v].job, stalls |-> 1]
        BY <1>26, <3>1 DEF Crash
      <4>2. Known(procs[v].job)
        BY <4>1 DEF KnownIds, KnownCall
      <4> QED BY <1>26, <4>1, <4>2 DEF Crash, Job, Known, TypeOK, Proc
    <3> QED BY <1>26, <3>1 DEF Crash, TypeOK, KnownIds, Known
  <2>2. /\ procs' \in [Workers -> Proc]
        /\ \A v \in Workers : KnownCall(procs[v])'
    BY <1>26, IdleType DEF Crash, KnownCall
  <2>3. fallback' \in BOOLEAN /\ worker' \in BOOLEAN
    BY <1>26 DEF Crash
  <2>4. creating' \in Creation
    BY <1>26 DEF Crash, NoCreation, Creation, Locks
  <2>5. /\ cooled' \in BOOLEAN /\ deleting' \in BOOLEAN
    BY <1>26 DEF Crash
  <2>6. /\ UNCHANGED <<webhook, rows, nextId, edits, dbErrors, jobFaults, posts>>
        /\ toQueue' = {} /\ timers' = {} /\ dbFailures' = 0 /\ crashes' = crashes + 1
    BY <1>26 DEF Crash
  <2> QED BY <2>1, <2>2, <2>3, <2>4, <2>5, <2>6 DEF TypeOK, KnownIds, Known
<1>27. CASE UNCHANGED vars
  BY <1>27 DEF vars, memory, TypeOK, KnownIds, KnownCall, Known
<1>28. ASSUME NEW w \in Workers, Stall(w) PROVE TypeOK' /\ KnownIds'
  <2>1. /\ procs[w] \in Proc /\ procs[w].stage # "idle" /\ nextId' = nextId
        /\ Known(procs[w].job) /\ KnownCall(procs[w])
    BY <1>28 DEF Stall, TypeOK, KnownIds, KnownCall
  <2>2. PICK q : q = Disowned(procs[w])
    OBVIOUS
  <2>3. q \in Proc /\ KnownCall(q)'
    BY <2>1, <2>2, DisownedType DEF KnownCall, Known
  <2>4. /\ procs' \in [Workers -> Proc]
        /\ \A v \in Workers : KnownCall(procs[v])'
    BY <1>28, <2>1, <2>2, <2>3, BecomesKeeps DEF Stall
  <2>5. PICK job : job = [id |-> procs[w].job, stalls |-> 1]
    OBVIOUS
  <2>6. job \in Job /\ Known(job.id)'
    BY <2>1, <2>5 DEF Job, Proc, Known
  <2>7. jobs' = jobs \cup {job} /\ jobFaults' = jobFaults + 1
    BY <1>28, <2>5 DEF Stall, JobFault
  <2> QED BY <1>28, <2>4, <2>6, <2>7 DEF Stall, TypeOK, KnownIds, Known
<1> QED
  BY <1>1, <1>2, <1>3, <1>4, <1>5, <1>6, <1>7, <1>8, <1>9, <1>10, <1>11, <1>12, <1>13, <1>14, <1>15, <1>16, <1>17, <1>18, <1>19, <1>20, <1>21, <1>22, <1>23, <1>24, <1>25, <1>26, <1>27, <1>28 DEF Next, ProcStep

LEMMA TypeInitial == Init => TypeOK /\ KnownIds
<1> SUFFICES ASSUME Init PROVE TypeOK /\ KnownIds
  OBVIOUS
<1> USE WebhookAssumption
<1>1. rows \in [Ids -> Row] /\ \A i \in Ids : rows[i].status = "absent"
  BY DEF Init, AbsentRow, Row, Kinds, Statuses, Locks, RowErrors
<1>2. procs \in [Workers -> Proc] /\ \A w \in Workers : KnownCall(procs[w])
  BY IdleType DEF Init, KnownCall
<1>3. creating \in Creation
  BY DEF Init, NoCreation, Creation, Locks
<1>4. fallback \in BOOLEAN /\ worker \in BOOLEAN
  BY DEF Init
<1>5. /\ nextId = 1 /\ toQueue = {} /\ timers = {} /\ jobs = {}
      /\ dbFailures = 0 /\ edits = 0 /\ crashes = 0 /\ dbErrors = 0 /\ jobFaults = 0
      /\ posts = [i \in Ids |-> 0]
  BY DEF Init
<1>6. /\ cooled \in BOOLEAN /\ deleting \in BOOLEAN
      /\ webhook \in [exists : BOOLEAN, active : BOOLEAN, successes : Nat, failures : Nat]
  BY DEF Init
<1> QED BY <1>1, <1>2, <1>3, <1>4, <1>5, <1>6 DEF TypeOK, KnownIds, Known

\* In every reachable state the variables have their types, and whatever is queued
\* or running names a delivery row that was inserted.
THEOREM TypeCorrect == Spec => [](TypeOK /\ KnownIds)
<1>1. TypeOK /\ KnownIds /\ [Next]_vars => (TypeOK /\ KnownIds)'
  BY TypeInductive
<1> QED BY <1>1, TypeInitial, PTL DEF Spec

-----------------------------------------------------------------------------
(* What a step does to rows that exist *)

\* The rows before and after a step: no row below nextId comes back, attempt
\* numbers never change, and a row that ended does not become pending.
RowKept(old, new) ==
    /\ new.status # "absent" => old.status # "absent" /\ new.attempt = old.attempt
    /\ old.status \in {"success", "failed"} => new.status # "pending"

LEMMA SavedRows ==
    ASSUME NEW row \in Row, NEW p \in Proc, row.status # "absent"
    PROVE  /\ RowKept(row, Succeeded(row))
           /\ RowKept(row, Failed(row, p))
           /\ RowKept(row, Scheduled(row, p))
BY DEF RowKept, Succeeded, Failed, Scheduled, Row

LEMMA RowsStep ==
    ASSUME TypeOK, KnownIds, [Next]_vars
    PROVE  \A i \in Ids : i < nextId => RowKept(rows[i], rows'[i])
<1> SUFFICES ASSUME NEW i \in Ids, i < nextId PROVE RowKept(rows[i], rows'[i])
  OBVIOUS
<1>0. CASE UNCHANGED rows
  BY <1>0 DEF RowKept
<1>1. CASE CreateDelivery
  <2>1. UNCHANGED rows \/ \E row : rows' = [rows EXCEPT ![nextId] = row]
    BY <1>1 DEF CreateDelivery, Insert
  <2>2. nextId # i
    BY DEF TypeOK, Ids
  <2> QED BY <2>1, <2>2 DEF RowKept, TypeOK
<1>2. CASE CascadeDelete
  <2>1. UNCHANGED rows \/ rows' = [j \in Ids |-> AbsentRow]
    BY <1>2 DEF CascadeDelete
  <2>2. AbsentRow.status = "absent"
    BY DEF AbsentRow
  <2> QED BY <2>1, <2>2 DEF RowKept
<1>3. ASSUME NEW w \in Workers, Poll(w) PROVE RowKept(rows[i], rows'[i])
  <2>1. PICK j \in Ids : rows' = [rows EXCEPT ![j].lock = "held"]
    BY <1>3 DEF Poll
  <2> QED BY <2>1 DEF RowKept, TypeOK, Row
<1>4. ASSUME NEW w \in Workers, SaveSuccess(w) \/ SaveFailed(w) \/ ScheduleRetry(w)
      PROVE  RowKept(rows[i], rows'[i])
  <2>1. CASE UNCHANGED rows
    BY <2>1 DEF RowKept
  <2>2. CASE procs[w].id # i
    <3>1. UNCHANGED rows \/ \E row : rows' = [rows EXCEPT ![procs[w].id] = row]
      BY <1>4 DEF SaveSuccess, SaveFailed, ScheduleRetry, Saved, SaveThrows
    <3> QED BY <2>2, <3>1 DEF RowKept, TypeOK
  <2>3. CASE procs[w].id = i /\ ~UNCHANGED rows
    <3>1. \E row \in {Succeeded(rows[i]), Failed(rows[i], procs[w]), Scheduled(rows[i], procs[w])} :
             rows' = [rows EXCEPT ![i] = row] /\ rows[i].status # "absent"
      BY <1>4, <2>3 DEF SaveSuccess, SaveFailed, ScheduleRetry, Saved, SaveThrows
    <3> QED BY <3>1, SavedRows DEF TypeOK
  <2> QED BY <2>1, <2>2, <2>3
<1>5. ASSUME NEW w \in Workers, CreateRetry(w) PROVE RowKept(rows[i], rows'[i])
  <2>1. UNCHANGED rows \/ \E row : rows' = [rows EXCEPT ![nextId] = row]
    BY <1>5 DEF CreateRetry, Insert
  <2>2. nextId # i
    BY DEF TypeOK, Ids
  <2> QED BY <2>1, <2>2 DEF RowKept, TypeOK
<1>6. ASSUME NEW j \in Ids, LockExpires(j) PROVE RowKept(rows[i], rows'[i])
  BY <1>6 DEF LockExpires, RowKept, TypeOK, Row
<1>7. ASSUME NEW w \in Workers,
             \/ RunTimer(w) \/ RunJob(w) \/ Load(w) \/ ReadWebhook(w) \/ Respond(w)
             \/ QueueRetry(w) \/ CountSuccess(w) \/ CountFailure(w) \/ CheckHealth(w)
             \/ Deactivate(w) \/ Stall(w)
      PROVE  UNCHANGED rows
  BY <1>7 DEF Stall, RunTimer, RunJob, Load, ReadWebhook, Respond, QueueRetry, CountSuccess,
              CountFailure, CheckHealth, Deactivate
<1>8. CASE \/ FindWebhook \/ FindReplayed \/ QueueDelivery \/ UpdateWebhook \/ DeleteWebhook
           \/ BreakerCools \/ RedisLost \/ Crash \/ UNCHANGED vars
  <2>1. UNCHANGED rows
    BY <1>8 DEF FindWebhook, FindReplayed, QueueDelivery, UpdateWebhook, DeleteWebhook,
                BreakerCools, RedisLost, Crash, vars
  <2> QED BY <2>1, <1>0
<1> QED
  BY <1>0, <1>1, <1>2, <1>3, <1>4, <1>5, <1>6, <1>7, <1>8 DEF Next, ProcStep

\* Whatever stale copies are saved, a row that ended never becomes pending again
\* and a deleted row never comes back.
THEOREM EndedStaysEnded == Spec => EndedForGood
<1>1. ASSUME TypeOK, KnownIds, [Next]_vars
      PROVE  \A i \in Ids :
               /\ rows[i].status \in {"success", "failed"} => rows'[i].status # "pending"
               /\ rows[i].status = "absent" /\ i < nextId => rows'[i].status = "absent"
  <2> SUFFICES ASSUME NEW i \in Ids
               PROVE  /\ rows[i].status \in {"success", "failed"} => rows'[i].status # "pending"
                      /\ rows[i].status = "absent" /\ i < nextId => rows'[i].status = "absent"
    OBVIOUS
  <2>1. CASE i < nextId
    BY <1>1, <2>1, RowsStep DEF RowKept
  <2>2. CASE i >= nextId
    BY <1>1, <2>2 DEF KnownIds, TypeOK, Ids
  <2>3. i \in Int /\ nextId \in Int
    BY <1>1 DEF TypeOK, Ids
  <2> QED BY <2>1, <2>2, <2>3
<1> QED
  BY <1>1, TypeCorrect, PTL DEF Spec, EndedForGood

-----------------------------------------------------------------------------
(* The retry budget *)

RowBudget(row) ==
    row.status # "absent" =>
        row.attempt >= 1 /\ row.attempt + row.retriesLeft <= InitialRetries + 1

LEMMA InitialRetriesNat == InitialRetries \in Nat
BY WebhookAssumption DEF InitialRetries

LEMMA KnownIsId ==
    ASSUME TypeOK, NEW i, Known(i)
    PROVE  i \in Ids /\ i < nextId
<1>1. MaxRows \in Nat /\ nextId \in 1..(MaxRows + 1) /\ i \in 1..(nextId - 1)
  BY WebhookAssumption DEF TypeOK, Known
<1> QED BY <1>1 DEF Ids

LEMMA CallHasRow ==
    ASSUME TypeOK, NEW p, KnownCall(p), p.stage # "idle"
    PROVE  p.id \in Ids /\ p.id < nextId
<1>1. Known(p.id)
  BY DEF KnownCall
<1> QED BY <1>1, KnownIsId

\* A call that holds a row still has paid after any step: the row keeps its
\* attempt number or is gone.
LEMMA PaidKept ==
    ASSUME TypeOK, KnownIds, [Next]_vars, NEW p \in Proc, KnownCall(p), PaidFor(p)
    PROVE  PaidFor(p)'
<1>1. CASE p.stage \in {"loaded", "sending", "succeeding", "scheduling", "failing", "retrySaved"}
  <2>1. p.id \in Ids /\ p.id < nextId
    BY <1>1, CallHasRow
  <2>2. RowKept(rows[p.id], rows'[p.id])
    BY <2>1, RowsStep
  <2> QED BY <2>2 DEF RowKept, PaidFor, Live
<1>2. CASE p.stage \notin {"loaded", "sending", "succeeding", "scheduling", "failing", "retrySaved"}
  BY <1>2 DEF PaidFor
<1> QED BY <1>1, <1>2

LEMMA OthersPaid ==
    ASSUME TypeOK, KnownIds, BudgetInv, [Next]_vars, NEW w \in Workers, NEW q,
           Becomes(w, q), PaidFor(q)'
    PROVE  \A v \in Workers : PaidFor(procs[v])'
<1> SUFFICES ASSUME NEW v \in Workers PROVE PaidFor(procs[v])'
  OBVIOUS
<1>1. CASE v = w
  <2>1. procs'[v] = q
    BY <1>1 DEF Becomes, TypeOK
  <2> QED BY <2>1 DEF PaidFor, Live
<1>2. CASE v # w
  <2>1. PICK p : p = procs[v]
    OBVIOUS
  <2>2. p \in Proc /\ KnownCall(p) /\ PaidFor(p)
    BY <2>1 DEF TypeOK, KnownIds, BudgetInv
  <2>3. procs'[v] = p
    BY <1>2, <2>1 DEF Becomes, TypeOK
  <2>4. PaidFor(p)'
    BY <2>2, PaidKept
  <2> QED BY <2>3, <2>4 DEF PaidFor, Live
<1> QED BY <1>1, <1>2

LEMMA SamePaid ==
    ASSUME TypeOK, KnownIds, BudgetInv, [Next]_vars, UNCHANGED procs
    PROVE  \A v \in Workers : PaidFor(procs[v])'
<1> SUFFICES ASSUME NEW v \in Workers PROVE PaidFor(procs[v])'
  OBVIOUS
<1>1. PICK p : p = procs[v]
  OBVIOUS
<1>2. p \in Proc /\ KnownCall(p) /\ PaidFor(p)
  BY <1>1 DEF TypeOK, KnownIds, BudgetInv
<1>3. PaidFor(p)'
  BY <1>2, PaidKept
<1> QED BY <1>1, <1>3 DEF PaidFor, Live

\* A call that is not holding a row owes nothing.
LEMMA NothingOwed ==
    ASSUME NEW q,
           q.stage \in {"idle", "start", "succeeded", "failed", "counting", "deactivating",
                        "retryCreated"}
    PROVE  PaidFor(q)'
BY DEF PaidFor

LEMMA FinishPaid ==
    ASSUME TypeOK, KnownIds, BudgetInv, [Next]_vars, NEW w \in Workers, Becomes(w, Idle)
    PROVE  \A v \in Workers : PaidFor(procs[v])'
<1>1. PaidFor(Idle)'
  BY IdleType, NothingOwed
<1> QED BY <1>1, OthersPaid

LEMMA ThrowPaid ==
    ASSUME TypeOK, KnownIds, BudgetInv, [Next]_vars, NEW w \in Workers, Throw(w),
           procs[w].stage \in {"succeeding", "scheduling", "failing", "retrySaved"}
    PROVE  \A v \in Workers : PaidFor(procs[v])'
<1>1. CASE Becomes(w, Caught(procs[w]))
  <2>1. PICK p : p = procs[w]
    OBVIOUS
  <2>2. p \in Proc /\ KnownCall(p) /\ PaidFor(p)
    BY <2>1 DEF TypeOK, KnownIds, BudgetInv
  <2>3. PaidFor(p)'
    BY <2>2, PaidKept
  <2>4. PICK q : q = Caught(p)
    OBVIOUS
  <2>5. /\ q.stage = "failing" /\ q.id = p.id /\ q.attempt = p.attempt /\ q.left = p.left
    BY <2>2, <2>4 DEF Caught, Proc
  <2>6. PaidFor(q)'
    BY <2>1, <2>3, <2>5 DEF PaidFor, Live
  <2> QED BY <1>1, <2>1, <2>4, <2>6, OthersPaid
<1>2. CASE Abort(w)
  BY <1>2, FinishPaid DEF Abort, AbortFrom
<1> QED BY <1>1, <1>2 DEF Throw

LEMMA BudgetInductive ==
    ASSUME TypeOK, KnownIds, BudgetInv, [Next]_vars
    PROVE  BudgetInv'
<1> DEFINE Rows == \A i \in Ids : RowBudget(rows'[i])
           Calls == \A v \in Workers : PaidFor(procs[v])'
           Creating == creating'.kind # "no" => creating'.left <= InitialRetries
<1>a. SUFFICES Rows /\ Calls /\ Creating
  BY DEF BudgetInv, RetryBudget, RowBudget, Live
<1>b. \A i \in Ids : RowBudget(rows[i]) /\ rows[i] \in Row
  BY DEF BudgetInv, RetryBudget, RowBudget, Live, TypeOK
<1>c. ASSUME UNCHANGED rows PROVE Rows
  BY <1>b, <1>c
<1>d. ASSUME UNCHANGED creating PROVE Creating
  BY <1>d DEF BudgetInv
<1>1. CASE FindWebhook
  <2>1. creating'.left = InitialRetries /\ UNCHANGED <<rows, procs>>
    BY <1>1 DEF FindWebhook, unchangedByApi
  <2>2. creating'.left <= InitialRetries
    BY <2>1, InitialRetriesNat
  <2> QED BY <1>c, <2>1, <2>2, SamePaid
<1>2. CASE FindReplayed
  <2>1. PICK i \in Ids : /\ rows[i].status \in {"success", "failed"}
                         /\ creating'.left = rows[i].retriesLeft
                         /\ UNCHANGED <<rows, procs>>
    BY <1>2 DEF FindReplayed, unchangedByApi
  <2>2. creating'.left <= InitialRetries
    BY <1>b, <2>1, InitialRetriesNat DEF RowBudget, Row
  <2> QED BY <1>c, <2>1, <2>2, SamePaid
<1>3. CASE CreateDelivery
  <2>1. creating'.kind = "no" /\ UNCHANGED procs
    BY <1>3 DEF CreateDelivery, NoCreation, unchangedByApi
  <2>2. UNCHANGED rows \/ rows' = [rows EXCEPT ![nextId] =
              NewRow(creating.kind, 1, creating.left, creating.lock, 0)]
    BY <1>3 DEF CreateDelivery, Insert
  <2>3. RowBudget(NewRow(creating.kind, 1, creating.left, creating.lock, 0))
    <3>1. creating.left \in Nat /\ creating.left <= InitialRetries
      BY <1>3 DEF CreateDelivery, TypeOK, Creation, BudgetInv
    <3> QED BY <3>1, InitialRetriesNat DEF NewRow, RowBudget
  <2>4. Rows
    BY <1>b, <2>2, <2>3 DEF TypeOK
  <2> QED BY <2>1, <2>4, SamePaid
<1>4. CASE QueueDelivery
  <2>1. UNCHANGED <<rows, creating>>
    BY <1>4 DEF QueueDelivery
  <2>2. CASE UNCHANGED procs
    BY <1>c, <1>d, <2>1, <2>2, SamePaid
  <2>3. ASSUME NEW w \in Workers, NEW i \in toQueue, Becomes(w, Started(i, NoJob, FALSE))
        PROVE  Rows /\ Calls /\ Creating
    <3>1. PICK q : q = Started(i, NoJob, FALSE)
      OBVIOUS
    <3>2. q.stage = "start"
      BY <3>1, StartedFreshType DEF TypeOK
    <3>3. PaidFor(q)'
      BY <3>2, NothingOwed
    <3> QED BY <1>c, <1>d, <2>1, <2>3, <3>1, <3>3, OthersPaid
  <2> QED BY <1>4, <2>2, <2>3 DEF QueueDelivery
<1>5. CASE UpdateWebhook \/ DeleteWebhook
  <2>1. UNCHANGED <<rows, creating, procs>>
    BY <1>5 DEF UpdateWebhook, DeleteWebhook, unchangedByApi
  <2> QED BY <1>c, <1>d, <2>1, SamePaid
<1>6. CASE CascadeDelete
  <2>1. UNCHANGED <<creating, procs>>
    BY <1>6 DEF CascadeDelete, unchangedByApi
  <2>2. UNCHANGED rows \/ rows' = [j \in Ids |-> AbsentRow]
    BY <1>6 DEF CascadeDelete
  <2>3. RowBudget(AbsentRow)
    BY DEF RowBudget, AbsentRow
  <2>4. Rows
    BY <1>c, <2>2, <2>3
  <2> QED BY <1>d, <2>1, <2>4, SamePaid
<1>7. ASSUME NEW w \in Workers, RunTimer(w) \/ RunJob(w) PROVE Rows /\ Calls /\ Creating
  <2>1. UNCHANGED <<rows, creating>>
    BY <1>7 DEF RunTimer, RunJob, unchangedByProc
  <2>2. PICK id, stalls, q :
          /\ id \in Nat /\ stalls \in 0..NoJob
          /\ q = Started(id, stalls, FALSE) /\ Becomes(w, q)
    <3>1. CASE RunTimer(w)
      <4>1. NoJob \in 0..NoJob
        BY DEF NoJob
      <4> QED BY <3>1, <4>1 DEF RunTimer, TypeOK
    <3>2. CASE RunJob(w)
      <4>1. PICK j \in jobs : Becomes(w, Started(j.id, j.stalls, FALSE))
        BY <3>2 DEF RunJob
      <4>2. j.id \in Nat /\ j.stalls \in 0..NoJob
        BY DEF TypeOK, Job, NoJob
      <4> QED BY <4>1, <4>2
    <3> QED BY <1>7, <3>1, <3>2
  <2>3. q.stage = "start"
    BY <2>2 DEF Started, Call
  <2>4. PaidFor(q)'
    BY <2>3, NothingOwed
  <2> QED BY <1>c, <1>d, <2>1, <2>2, <2>4, OthersPaid
<1>8. ASSUME NEW w \in Workers, Poll(w) PROVE Rows /\ Calls /\ Creating
  <2>1. PICK i, q : /\ i \in Ids
                    /\ rows' = [rows EXCEPT ![i].lock = "held"]
                    /\ q = Started(i, NoJob, TRUE) /\ Becomes(w, q)
    BY <1>8 DEF Poll
  <2>2. PaidFor(q)'
    <3>1. q.stage = "start"
      BY <2>1 DEF Started, Call
    <3> QED BY <3>1, NothingOwed
  <2>3. Rows
    BY <1>b, <2>1 DEF TypeOK, RowBudget, Row
  <2>4. UNCHANGED creating
    BY <1>8 DEF Poll, unchangedByProc
  <2> QED BY <1>d, <2>1, <2>2, <2>3, <2>4, OthersPaid
<1>9. ASSUME NEW w \in Workers, Load(w) PROVE Rows /\ Calls /\ Creating
  <2>1. UNCHANGED <<rows, creating>>
    BY <1>9 DEF Load, unchangedByProc
  <2>2. CASE Becomes(w, Idle)
    BY <1>c, <1>d, <2>1, <2>2, FinishPaid
  <2>3. CASE Becomes(w, Holding(procs[w], rows[procs[w].id])) /\ rows[procs[w].id].status = "pending"
    <3>1. PICK p, row, q : p = procs[w] /\ row = rows[p.id] /\ q = Holding(p, row)
      OBVIOUS
    <3>2. p \in Proc /\ p.id \in Ids
      <4>1. p \in Proc /\ p.stage = "start" /\ KnownCall(p)
        BY <1>9, <3>1 DEF Load, TypeOK, KnownIds
      <4> QED BY <4>1, CallHasRow
    <3>3. row \in Row /\ RowBudget(row) /\ row.status = "pending" /\ rows'[p.id] = row
      BY <1>b, <2>1, <2>3, <3>1, <3>2
    <3>4. /\ q.stage = "loaded" /\ q.id = p.id
          /\ q.attempt = row.attempt /\ q.left = row.retriesLeft
      BY <3>1, <3>2 DEF Holding, Proc
    <3>5. PaidFor(q)'
      BY <3>3, <3>4 DEF PaidFor, RowBudget, Live
    <3> QED BY <1>c, <1>d, <2>1, <2>3, <3>1, <3>5, OthersPaid
  <2> QED BY <1>9, <2>2, <2>3 DEF Load, Finish, Abort, AbortFrom
<1>10. ASSUME NEW w \in Workers, ReadWebhook(w) PROVE Rows /\ Calls /\ Creating
  <2>1. UNCHANGED <<rows, creating>> /\ procs[w].stage = "loaded"
    BY <1>10 DEF ReadWebhook, unchangedByProc
  <2>2. CASE Becomes(w, Idle)
    BY <1>c, <1>d, <2>1, <2>2, FinishPaid
  <2>3. ASSUME NEW stage \in {"failing", "sending"}, Becomes(w, At(procs[w], stage))
        PROVE  Calls
    <3>1. PICK p, q : p = procs[w] /\ q = At(p, stage)
      OBVIOUS
    <3>2. p \in Proc /\ KnownCall(p) /\ PaidFor(p)
      BY <3>1 DEF TypeOK, KnownIds, BudgetInv
    <3>3. PaidFor(p)'
      BY <3>2, PaidKept
    <3>4. q.stage = stage /\ q.id = p.id /\ q.attempt = p.attempt /\ q.left = p.left
      BY <3>1, <3>2 DEF At, Proc
    <3>5. PaidFor(q)'
      BY <2>1, <3>1, <3>3, <3>4 DEF PaidFor, Live
    <3> QED BY <2>3, <3>1, <3>5, OthersPaid
  <2> QED BY <1>10, <1>c, <1>d, <2>1, <2>2, <2>3 DEF ReadWebhook, Abort, AbortFrom
<1>11. ASSUME NEW w \in Workers, Respond(w) PROVE Rows /\ Calls /\ Creating
  <2>1. UNCHANGED <<rows, creating>> /\ procs[w].stage = "sending"
    BY <1>11 DEF Respond, unchangedByProc
  <2>2. PICK a, p, q : p = procs[w] /\ q = Answered(p, a) /\ Becomes(w, q)
    BY <1>11 DEF Respond
  <2>3. p \in Proc /\ KnownCall(p) /\ PaidFor(p)
    BY <2>2 DEF TypeOK, KnownIds, BudgetInv
  <2>4. PaidFor(p)'
    BY <2>3, PaidKept
  <2>5. /\ q.id = p.id /\ q.attempt = p.attempt
        /\ \/ q.left = p.left /\ q.stage \in {"succeeding", "failing"}
           \/ q.left = p.left - 1 /\ q.stage \in {"succeeding", "scheduling"}
    BY <2>2, <2>3 DEF Answered, Proc
  <2>6. PaidFor(q)'
    <3>1. p.attempt \in Nat /\ p.left \in Nat
      BY <2>3 DEF Proc
    <3> QED BY <2>1, <2>2, <2>4, <2>5, <3>1, InitialRetriesNat DEF PaidFor, Live
  <2> QED BY <1>c, <1>d, <2>1, <2>2, <2>6, OthersPaid
<1>12. ASSUME NEW w \in Workers, SaveSuccess(w) PROVE Rows /\ Calls /\ Creating
  <2>1. UNCHANGED creating /\ procs[w].stage = "succeeding"
    BY <1>12 DEF SaveSuccess, unchangedByProc
  <2>2. PICK p : p = procs[w]
    OBVIOUS
  <2>3. p \in Proc /\ p.id \in Ids /\ KnownCall(p) /\ PaidFor(p)
    <3>1. p \in Proc /\ KnownCall(p) /\ PaidFor(p)
      BY <2>2 DEF TypeOK, KnownIds, BudgetInv
    <3> QED BY <2>1, <2>2, <3>1, CallHasRow
  <2>4. CASE Saved(w, Succeeded(rows[p.id]), Settled(p, "succeeded"))
    <3>1. PICK row, q : row = Succeeded(rows[p.id]) /\ q = Settled(p, "succeeded")
      OBVIOUS
    <3>2. RowBudget(row)
      BY <1>b, <2>1, <2>2, <2>3, <2>4, <3>1, InitialRetriesNat
         DEF Succeeded, Row, Proc, RowBudget, PaidFor, Live, Saved
    <3>3. Rows
      BY <1>b, <2>2, <2>3, <2>4, <3>1, <3>2 DEF Saved, TypeOK
    <3>4. PaidFor(q)'
      BY <2>3, <3>1, SettledType, NothingOwed DEF Stages
    <3> QED BY <1>d, <2>1, <2>4, <3>1, <3>3, <3>4, OthersPaid DEF Saved
  <2>5. CASE SaveThrows(w)
    BY <1>c, <1>d, <2>1, <2>5, ThrowPaid DEF SaveThrows
  <2> QED BY <1>12, <2>2, <2>4, <2>5 DEF SaveSuccess
<1>13. ASSUME NEW w \in Workers, SaveFailed(w) PROVE Rows /\ Calls /\ Creating
  <2>1. UNCHANGED creating /\ procs[w].stage = "failing"
    BY <1>13 DEF SaveFailed, unchangedByProc
  <2>2. PICK p : p = procs[w]
    OBVIOUS
  <2>3. p \in Proc /\ p.id \in Ids /\ KnownCall(p) /\ PaidFor(p)
    <3>1. p \in Proc /\ KnownCall(p) /\ PaidFor(p)
      BY <2>2 DEF TypeOK, KnownIds, BudgetInv
    <3> QED BY <2>1, <2>2, <3>1, CallHasRow
  <2>4. CASE Saved(w, Failed(rows[p.id], p), Settled(p, "failed"))
    <3>1. PICK row, q : row = Failed(rows[p.id], p) /\ q = Settled(p, "failed")
      OBVIOUS
    <3>2. RowBudget(row)
      BY <1>b, <2>1, <2>2, <2>3, <2>4, <3>1, InitialRetriesNat
         DEF Failed, Row, Proc, RowBudget, PaidFor, Live, Saved
    <3>3. Rows
      BY <1>b, <2>2, <2>3, <2>4, <3>1, <3>2 DEF Saved, TypeOK
    <3>4. PaidFor(q)'
      BY <2>3, <3>1, SettledType, NothingOwed DEF Stages
    <3> QED BY <1>d, <2>1, <2>4, <3>1, <3>3, <3>4, OthersPaid DEF Saved
  <2>5. CASE SaveThrows(w)
    BY <1>c, <1>d, <2>1, <2>5, ThrowPaid DEF SaveThrows
  <2> QED BY <1>13, <2>2, <2>4, <2>5 DEF SaveFailed
<1>14. ASSUME NEW w \in Workers, ScheduleRetry(w) PROVE Rows /\ Calls /\ Creating
  <2>1. UNCHANGED creating /\ procs[w].stage = "scheduling"
    BY <1>14 DEF ScheduleRetry, unchangedByProc
  <2>2. PICK p : p = procs[w]
    OBVIOUS
  <2>3. p \in Proc /\ p.id \in Ids /\ KnownCall(p) /\ PaidFor(p)
    <3>1. p \in Proc /\ KnownCall(p) /\ PaidFor(p)
      BY <2>2 DEF TypeOK, KnownIds, BudgetInv
    <3> QED BY <2>1, <2>2, <3>1, CallHasRow
  <2>4. CASE Saved(w, Scheduled(rows[p.id], p), At(p, "retrySaved"))
    <3>1. PICK row, q : row = Scheduled(rows[p.id], p) /\ q = At(p, "retrySaved")
      OBVIOUS
    <3>2. RowBudget(row)
      BY <1>b, <2>1, <2>2, <2>3, <2>4, <3>1, InitialRetriesNat
         DEF Scheduled, Row, Proc, RowBudget, PaidFor, Live, Saved
    <3>3. Rows
      BY <1>b, <2>2, <2>3, <2>4, <3>1, <3>2 DEF Saved, TypeOK
    <3>4. PaidFor(q)'
      <4>1. q.stage = "retrySaved" /\ q.id = p.id /\ q.attempt = p.attempt /\ q.left = p.left
        BY <3>1, <2>3 DEF At, Proc
      <4>2. PaidFor(p)'
        BY <2>3, PaidKept
      <4> QED BY <2>1, <2>2, <4>1, <4>2 DEF PaidFor, Live
    <3> QED BY <1>d, <2>1, <2>4, <3>1, <3>3, <3>4, OthersPaid DEF Saved
  <2>5. CASE SaveThrows(w)
    BY <1>c, <1>d, <2>1, <2>5, ThrowPaid DEF SaveThrows
  <2> QED BY <1>14, <2>2, <2>4, <2>5 DEF ScheduleRetry
<1>15. ASSUME NEW w \in Workers, CreateRetry(w) PROVE Rows /\ Calls /\ Creating
  <2>1. UNCHANGED creating /\ procs[w].stage = "retrySaved"
    BY <1>15 DEF CreateRetry, unchangedByProc
  <2>2. PICK p : p = procs[w]
    OBVIOUS
  <2>3. p \in Proc /\ PaidFor(p)
    BY <2>2 DEF TypeOK, BudgetInv
  <2>4. CASE Insert(NewRow("retry", p.attempt + 1, p.left, p.lock, p.id)) /\ Becomes(w, WithRetry(p, nextId))
    <3>1. PICK row, q : row = NewRow("retry", p.attempt + 1, p.left, p.lock, p.id) /\ q = WithRetry(p, nextId)
      OBVIOUS
    <3>2. RowBudget(row)
      BY <2>1, <2>2, <2>3, <3>1, InitialRetriesNat DEF NewRow, Proc, RowBudget, PaidFor
    <3>3. Rows
      BY <1>b, <2>4, <3>1, <3>2 DEF Insert, TypeOK
    <3>4. PaidFor(q)'
      <4>1. q.stage = "retryCreated"
        BY <2>3, <3>1 DEF WithRetry, Proc
      <4> QED BY <4>1, NothingOwed
    <3> QED BY <1>d, <2>1, <2>4, <3>1, <3>3, <3>4, OthersPaid
  <2>5. CASE Throw(w) /\ UNCHANGED rows
    BY <1>c, <1>d, <2>1, <2>5, ThrowPaid
  <2> QED BY <1>15, <2>2, <2>4, <2>5 DEF CreateRetry
<1>16. ASSUME NEW w \in Workers, QueueRetry(w) PROVE Rows /\ Calls /\ Creating
  <2>1. UNCHANGED <<rows, creating>>
    BY <1>16 DEF QueueRetry, unchangedByProc
  <2>2. CASE Becomes(w, Idle)
    BY <1>c, <1>d, <2>1, <2>2, FinishPaid
  <2>3. CASE Becomes(w, RetryInPlace(procs[w]))
    <3>1. PICK q : q = RetryInPlace(procs[w])
      OBVIOUS
    <3>2. PaidFor(q)'
      BY <3>1, RetryInPlaceType, NothingOwed DEF TypeOK
    <3> QED BY <1>c, <1>d, <2>1, <2>3, <3>1, <3>2, OthersPaid
  <2> QED BY <1>16, <2>2, <2>3 DEF QueueRetry, Finish
<1>17. ASSUME NEW w \in Workers, CountSuccess(w) \/ CountFailure(w) \/ CheckHealth(w) \/ Deactivate(w) PROVE Rows /\ Calls /\ Creating
  <2>1. UNCHANGED <<rows, creating>>
    BY <1>17 DEF CountSuccess, CountFailure, CheckHealth, Deactivate, unchangedByProc
  <2>2. CASE Becomes(w, Idle)
    BY <1>c, <1>d, <2>1, <2>2, FinishPaid
  <2>3. ASSUME NEW stage \in {"counting", "deactivating"}, Becomes(w, At(procs[w], stage))
        PROVE  Calls
    <3>1. PICK q : q = At(procs[w], stage)
      OBVIOUS
    <3>2. PaidFor(q)'
      BY <3>1, AtType, NothingOwed DEF TypeOK, Stages
    <3> QED BY <2>3, <3>1, <3>2, OthersPaid
  <2> QED BY <1>17, <1>c, <1>d, <2>1, <2>2, <2>3
      DEF CountSuccess, CountFailure, CheckHealth, Deactivate, Finish
<1>18. ASSUME NEW i \in Ids, LockExpires(i) PROVE Rows /\ Calls /\ Creating
  <2>1. UNCHANGED <<creating, procs>> /\ rows' = [rows EXCEPT ![i].lock = "expired"]
    BY <1>18 DEF LockExpires, memory
  <2>2. Rows
    BY <1>b, <2>1 DEF TypeOK, RowBudget, Row
  <2> QED BY <1>d, <2>1, <2>2, SamePaid
<1>19. CASE BreakerCools \/ RedisLost \/ UNCHANGED vars
  <2>1. UNCHANGED <<rows, creating, procs>>
    BY <1>19 DEF BreakerCools, RedisLost, unchangedByProc, vars, memory
  <2> QED BY <1>c, <1>d, <2>1, SamePaid
<1>20. CASE Crash
  <2>1. UNCHANGED rows /\ creating'.kind = "no"
    BY <1>20 DEF Crash, NoCreation
  <2>2. \A v \in Workers : procs'[v].stage = "idle"
    BY <1>20, IdleType DEF Crash
  <2> QED BY <1>c, <2>1, <2>2 DEF PaidFor
<1>21. ASSUME NEW w \in Workers, Stall(w) PROVE Rows /\ Calls /\ Creating
  <2>1. UNCHANGED <<rows, creating>> /\ Becomes(w, Disowned(procs[w]))
    BY <1>21 DEF Stall
  <2>2. procs[w] \in Proc /\ PaidFor(procs[w])
    BY DEF TypeOK, BudgetInv
  <2>3. PICK q : q = Disowned(procs[w])
    OBVIOUS
  <2>4. PaidFor(q)'
    BY <2>1, <2>2, <2>3, DisownedType DEF PaidFor, Live
  <2> QED BY <1>c, <1>d, <2>1, <2>3, <2>4, OthersPaid
<1> QED
  BY <1>a, <1>1, <1>2, <1>3, <1>4, <1>5, <1>6, <1>7, <1>8, <1>9, <1>10, <1>11, <1>12, <1>13, <1>14, <1>15, <1>16, <1>17, <1>18, <1>19, <1>20, <1>21 DEF Next, ProcStep

LEMMA BudgetInitial == Init => BudgetInv
<1> SUFFICES ASSUME Init PROVE BudgetInv
  OBVIOUS
<1>1. \A i \in Ids : rows[i].status = "absent"
  BY DEF Init, AbsentRow
<1>2. \A w \in Workers : procs[w].stage = "idle"
  BY IdleType DEF Init
<1>3. creating.kind = "no"
  BY DEF Init, NoCreation
<1> QED BY <1>1, <1>2, <1>3 DEF BudgetInv, RetryBudget, PaidFor, Live

\* No interleaving of jobs, timers and polls of the same row, whatever stale copies
\* their calls save, lets a chain of retries exceed the budget of its first attempt.
THEOREM RetryBudgetHolds == Spec => []RetryBudget
<1>1. TypeOK /\ KnownIds /\ BudgetInv /\ [Next]_vars => BudgetInv'
  BY BudgetInductive
<1>2. BudgetInv => RetryBudget
  BY DEF BudgetInv
<1> QED BY <1>1, <1>2, BudgetInitial, TypeCorrect, PTL DEF Spec
=============================================================================
