----------------------- MODULE WebhookServiceProofs -----------------------
(***************************************************************************)
(* Theorems about what WebhookDelivery does for the user of a webhook that *)
(* is not deleted, for every value of the constants: why it is switched    *)
(* off, that announced retries exist, that its statistics count every row  *)
(* that ended, and that polled events are POSTed once; and, while Redis is *)
(* up, that pending tests, replays and retries are not lost, that each is  *)
(* POSTed once and once more for each fault, three times at most, and that *)
(* events are never POSTed at all.                                         *)
(***************************************************************************)
EXTENDS WebhookDeliveryProofs, FiniteSetTheorems

(* What a step does to the rows of a webhook that exists *)

GoneInv ==
    /\ deleting => ~webhook.exists
    /\ \A i \in Ids : rows[i].status = "failed" => rows[i].error # "none"

RowGrows(old, new) ==
    /\ old.status # "absent" =>
          /\ new.status # "absent" /\ new.kind = old.kind /\ new.prev = old.prev
          /\ old.error # "none" => new.error # "none"
    /\ new.status = "failed" => new.error # "none"

LEMMA SavedGrows ==
    ASSUME NEW row \in Row, NEW p \in Proc, row.status # "absent"
    PROVE  /\ RowGrows(row, Succeeded(row))
           /\ RowGrows(row, Failed(row, p))
           /\ RowGrows(row, Scheduled(row, p))
BY DEF RowGrows, Succeeded, Failed, Scheduled, Row

LEMMA RowsGrow ==
    ASSUME TypeOK, KnownIds, GoneInv, [Next]_vars, ~CascadeDelete
    PROVE  \A i \in Ids : RowGrows(rows[i], rows'[i])
<1> SUFFICES ASSUME NEW i \in Ids PROVE RowGrows(rows[i], rows'[i])
  OBVIOUS
<1>a. rows[i].status = "failed" => rows[i].error # "none"
  BY DEF GoneInv
<1>0. CASE UNCHANGED rows
  BY <1>a, <1>0 DEF RowGrows
<1>b. ASSUME NEW row, Insert(row), row.status = "pending"
      PROVE  RowGrows(rows[i], rows'[i])
  <2>1. nextId \in Ids /\ rows' = [rows EXCEPT ![nextId] = row]
    BY <1>b DEF Insert
  <2>2. CASE i = nextId
    <3>1. rows'[i] = row
      BY <2>1, <2>2 DEF TypeOK
    <3>2. rows[i].status = "absent"
      BY <2>2 DEF KnownIds, Ids
    <3> QED BY <1>b, <3>1, <3>2 DEF RowGrows
  <2>3. CASE i # nextId
    BY <1>a, <2>1, <2>3 DEF RowGrows, TypeOK
  <2> QED BY <2>2, <2>3
<1>1. CASE CreateDelivery
  <2>1. UNCHANGED rows \/ Insert(NewRow(creating.kind, 1, creating.left, creating.lock, 0))
    BY <1>1 DEF CreateDelivery
  <2>2. NewRow(creating.kind, 1, creating.left, creating.lock, 0).status = "pending"
    BY DEF NewRow
  <2> QED BY <1>0, <1>b, <2>1, <2>2
<1>2. ASSUME NEW w \in Workers, Poll(w) PROVE RowGrows(rows[i], rows'[i])
  <2>1. PICK j \in Ids : rows' = [rows EXCEPT ![j].lock = "held"]
    BY <1>2 DEF Poll
  <2> QED BY <1>a, <2>1 DEF RowGrows, TypeOK, Row
<1>3. ASSUME NEW w \in Workers, SaveSuccess(w) \/ SaveFailed(w) \/ ScheduleRetry(w)
      PROVE  RowGrows(rows[i], rows'[i])
  <2>2. CASE procs[w].id # i
    <3>1. UNCHANGED rows \/ \E row : rows' = [rows EXCEPT ![procs[w].id] = row]
      BY <1>3 DEF SaveSuccess, SaveFailed, ScheduleRetry, Saved, SaveThrows
    <3>2. rows'[i] = rows[i]
      BY <2>2, <3>1 DEF TypeOK
    <3> QED BY <1>a, <3>2 DEF RowGrows
  <2>3. CASE procs[w].id = i /\ ~UNCHANGED rows
    <3>1. \E row \in {Succeeded(rows[i]), Failed(rows[i], procs[w]), Scheduled(rows[i], procs[w])} :
             rows' = [rows EXCEPT ![i] = row] /\ rows[i].status # "absent"
      BY <1>3, <2>3 DEF SaveSuccess, SaveFailed, ScheduleRetry, Saved, SaveThrows
    <3> QED BY <3>1, SavedGrows DEF TypeOK
  <2> QED BY <1>0, <2>2, <2>3
<1>4. ASSUME NEW w \in Workers, CreateRetry(w) PROVE RowGrows(rows[i], rows'[i])
  <2>1. PICK p : p = procs[w]
    OBVIOUS
  <2>2. UNCHANGED rows \/ Insert(NewRow("retry", p.attempt + 1, p.left, p.lock, p.id))
    BY <1>4, <2>1 DEF CreateRetry
  <2>3. NewRow("retry", p.attempt + 1, p.left, p.lock, p.id).status = "pending"
    BY DEF NewRow
  <2> QED BY <1>0, <1>b, <2>2, <2>3
<1>5. ASSUME NEW j \in Ids, LockExpires(j) PROVE RowGrows(rows[i], rows'[i])
  BY <1>a, <1>5 DEF LockExpires, RowGrows, TypeOK, Row
<1>6. ASSUME NEW w \in Workers,
             \/ RunTimer(w) \/ RunJob(w) \/ Load(w) \/ ReadWebhook(w) \/ Respond(w)
             \/ QueueRetry(w) \/ CountSuccess(w) \/ CountFailure(w) \/ CheckHealth(w)
             \/ Deactivate(w) \/ Stall(w)
      PROVE  UNCHANGED rows
  BY <1>6 DEF Stall, RunTimer, RunJob, Load, ReadWebhook, Respond, QueueRetry, CountSuccess,
              CountFailure, CheckHealth, Deactivate
<1>7. CASE \/ FindWebhook \/ FindReplayed \/ QueueDelivery \/ UpdateWebhook \/ DeleteWebhook
           \/ BreakerCools \/ RedisLost \/ Crash \/ UNCHANGED vars
  <2>1. UNCHANGED rows
    BY <1>7 DEF FindWebhook, FindReplayed, QueueDelivery, UpdateWebhook, DeleteWebhook,
                BreakerCools, RedisLost, Crash, vars
  <2> QED BY <2>1, <1>0
<1> QED
  BY <1>0, <1>1, <1>2, <1>3, <1>4, <1>5, <1>6, <1>7 DEF Next, ProcStep

\* A deleted webhook does not come back, and only its rows are ever deleted.
LEMMA WebhookStep ==
    ASSUME TypeOK, GoneInv, [Next]_vars
    PROVE  /\ webhook'.exists => webhook.exists
           /\ deleting' => ~webhook'.exists
<1>1. webhook \in [exists : BOOLEAN, active : BOOLEAN, successes : Nat, failures : Nat]
  BY DEF TypeOK
<1>a. deleting => ~webhook.exists
  BY DEF GoneInv
<1>0. ASSUME webhook'.exists = webhook.exists, deleting' => deleting
      PROVE  /\ webhook'.exists => webhook.exists
             /\ deleting' => ~webhook'.exists
  BY <1>0, <1>a
<1>2. CASE UpdateWebhook
  <2>1. UNCHANGED deleting /\ \E a \in BOOLEAN : webhook' = [webhook EXCEPT !.active = a]
    BY <1>2 DEF UpdateWebhook
  <2> QED BY <1>0, <1>1, <2>1
<1>3. CASE DeleteWebhook
  BY <1>1, <1>3 DEF DeleteWebhook
<1>4. ASSUME NEW w \in Workers, CountSuccess(w) \/ CountFailure(w) \/ Deactivate(w)
      PROVE  webhook'.exists = webhook.exists /\ UNCHANGED deleting
  <2>1. \/ UNCHANGED webhook
        \/ webhook' = [webhook EXCEPT !.successes = @ + 1]
        \/ webhook' = [webhook EXCEPT !.failures = @ + 1]
        \/ webhook' = [webhook EXCEPT !.active = FALSE]
    BY <1>4 DEF CountSuccess, CountFailure, Deactivate, Counted
  <2>2. UNCHANGED deleting
    BY <1>4 DEF CountSuccess, CountFailure, Deactivate, unchangedByProc
  <2> QED BY <1>1, <2>1, <2>2
<1>5. ASSUME NEW w \in Workers,
             \/ RunTimer(w) \/ RunJob(w) \/ Poll(w) \/ Load(w) \/ ReadWebhook(w) \/ Respond(w)
             \/ SaveSuccess(w) \/ SaveFailed(w) \/ ScheduleRetry(w) \/ CreateRetry(w)
             \/ QueueRetry(w) \/ CheckHealth(w) \/ Stall(w)
      PROVE  UNCHANGED <<webhook, deleting>>
  BY <1>5 DEF Stall, RunTimer, RunJob, Poll, Load, ReadWebhook, Respond, SaveSuccess, SaveFailed,
              ScheduleRetry, CreateRetry, QueueRetry, CheckHealth, unchangedByProc
<1>6. CASE \/ FindWebhook \/ FindReplayed \/ CreateDelivery \/ QueueDelivery \/ CascadeDelete
           \/ BreakerCools \/ RedisLost \/ Crash \/ (\E i \in Ids : LockExpires(i))
           \/ UNCHANGED vars
  <2>1. webhook' = webhook /\ (deleting' = deleting \/ deleting' = FALSE)
    <3>1. CASE FindWebhook \/ FindReplayed \/ CreateDelivery \/ QueueDelivery \/ CascadeDelete
      BY <3>1 DEF FindWebhook, FindReplayed, CreateDelivery, QueueDelivery, CascadeDelete
    <3>2. CASE BreakerCools \/ RedisLost \/ Crash \/ UNCHANGED vars
      BY <3>2 DEF BreakerCools, RedisLost, Crash, unchangedByProc, vars, memory
    <3>3. ASSUME NEW i \in Ids, LockExpires(i)
          PROVE  webhook' = webhook /\ deleting' = deleting
      BY <3>3 DEF LockExpires, memory
    <3> QED BY <1>6, <3>1, <3>2, <3>3
  <2>2. webhook'.exists = webhook.exists
    BY <2>1
  <2> QED BY <1>0, <2>1, <2>2
<1> QED
  BY <1>0, <1>2, <1>3, <1>4, <1>5, <1>6 DEF Next, ProcStep

LEMMA GoneInductive ==
    ASSUME TypeOK, KnownIds, GoneInv, [Next]_vars
    PROVE  GoneInv'
<1>1. deleting' => ~webhook'.exists
  BY WebhookStep
<1>2. CASE ~CascadeDelete
  BY <1>1, <1>2, RowsGrow DEF GoneInv, RowGrows
<1>3. CASE CascadeDelete
  <2>1. UNCHANGED rows \/ rows' = [i \in Ids |-> AbsentRow]
    BY <1>3 DEF CascadeDelete
  <2>2. AbsentRow.status = "absent"
    BY DEF AbsentRow
  <2> QED BY <1>1, <2>1, <2>2 DEF GoneInv
<1> QED BY <1>2, <1>3

LEMMA GoneInitial == Init => GoneInv
BY DEF Init, GoneInv, AbsentRow

\* While the webhook exists, none of its rows is deleted.
LEMMA NothingDeleted ==
    ASSUME TypeOK, KnownIds, GoneInv, [Next]_vars, webhook'.exists
    PROVE  webhook.exists /\ \A i \in Ids : RowGrows(rows[i], rows'[i])
<1>1. webhook.exists
  BY WebhookStep
<1>2. ~CascadeDelete
  BY <1>1 DEF CascadeDelete, GoneInv
<1> QED BY <1>1, <1>2, RowsGrow

-----------------------------------------------------------------------------
(* Which actions change a call *)

Queued(i) == i \in toQueue \/ i \in timers \/ \E j \in jobs : i = j.id

Starts(v) ==
    /\ procs[v].stage = "idle"
    /\ \E i, stalls : /\ i \in timers \/ (\E j \in jobs : i = j.id) \/ i \in toQueue \ toQueue'
                      /\ procs'[v] = Started(i, stalls, FALSE)

\* A call changes when it is started, polled or crashed, when its job stalls, and by its
\* own steps.
LEMMA ChangedCall ==
    ASSUME TypeOK, [Next]_vars, NEW v \in Workers, procs'[v] # procs[v]
    PROVE  \/ Starts(v) \/ Poll(v) \/ ProcStep(v) \/ Crash
           \/ Stall(v) /\ procs'[v] = Disowned(procs[v])
<1>a. ASSUME NEW w \in Workers, NEW q, Becomes(w, q) PROVE w = v /\ procs'[v] = q
  BY <1>a DEF Becomes, TypeOK
<1>1. CASE QueueDelivery
  <2>1. PICK w \in Workers, i \in toQueue :
           /\ procs[w].stage = "idle" /\ Becomes(w, Started(i, NoJob, FALSE))
           /\ toQueue' = toQueue \ {i}
    BY <1>1 DEF QueueDelivery
  <2> QED BY <1>a, <2>1 DEF Starts
<1>2. ASSUME NEW w \in Workers, RunTimer(w) PROVE Starts(v)
  <2>1. PICK i \in timers : procs[w].stage = "idle" /\ Becomes(w, Started(i, NoJob, FALSE))
    BY <1>2 DEF RunTimer
  <2> QED BY <1>a, <2>1 DEF Starts
<1>3. ASSUME NEW w \in Workers, RunJob(w) PROVE Starts(v)
  <2>1. PICK j \in jobs : procs[w].stage = "idle" /\ Becomes(w, Started(j.id, j.stalls, FALSE))
    BY <1>3 DEF RunJob
  <2> QED BY <1>a, <2>1 DEF Starts
<1>4. ASSUME NEW w \in Workers, Poll(w) PROVE Poll(v)
  <2>1. \E q : Becomes(w, q)
    BY <1>4 DEF Poll
  <2> QED BY <1>a, <1>4, <2>1
<1>5. ASSUME NEW w \in Workers, ProcStep(w) PROVE ProcStep(v)
  <2>1. \E q : Becomes(w, q)
    <3>1. CASE Load(w) \/ ReadWebhook(w) \/ Respond(w) \/ QueueRetry(w)
      BY <3>1 DEF Load, ReadWebhook, Respond, QueueRetry, Finish, Abort, AbortFrom
    <3>2. CASE SaveSuccess(w) \/ SaveFailed(w) \/ ScheduleRetry(w) \/ CreateRetry(w)
      BY <3>2 DEF SaveSuccess, SaveFailed, ScheduleRetry, CreateRetry, Saved, SaveThrows,
                  Throw, Abort, AbortFrom
    <3>3. CASE CountSuccess(w) \/ CountFailure(w) \/ CheckHealth(w) \/ Deactivate(w)
      BY <3>3 DEF CountSuccess, CountFailure, CheckHealth, Deactivate, Finish
    <3> QED BY <1>5, <3>1, <3>2, <3>3 DEF ProcStep
  <2> QED BY <1>a, <1>5, <2>1
<1>6. CASE \/ FindWebhook \/ FindReplayed \/ CreateDelivery \/ UpdateWebhook \/ DeleteWebhook
           \/ CascadeDelete \/ BreakerCools \/ RedisLost \/ (\E i \in Ids : LockExpires(i))
           \/ UNCHANGED vars
  <2>1. UNCHANGED procs
    BY <1>6 DEF FindWebhook, FindReplayed, CreateDelivery, UpdateWebhook, DeleteWebhook,
                CascadeDelete, BreakerCools, RedisLost, LockExpires, unchangedByApi, vars, memory
  <2> QED BY <2>1
<1>7. ASSUME NEW w \in Workers, Stall(w)
      PROVE  Stall(v) /\ procs'[v] = Disowned(procs[v])
  BY <1>a, <1>7 DEF Stall
<1> QED
  BY <1>1, <1>2, <1>3, <1>4, <1>5, <1>6, <1>7 DEF Next

\* How a call goes on by a step of its own.
LEMMA NextCall ==
    ASSUME TypeOK, NEW w \in Workers, ProcStep(w), NEW p, p = procs[w], NEW q, q = procs'[w]
    PROVE  \/ q = Idle
           \/ Load(w) /\ q = Holding(p, rows[p.id]) /\ rows[p.id].status = "pending"
           \/ ReadWebhook(w) /\ \E stage \in {"failing", "sending"} : q = At(p, stage)
           \/ Respond(w) /\ \E answer : q = Answered(p, answer)
           \/ /\ p.stage \in {"succeeding", "failing", "scheduling", "retrySaved"}
              /\ UNCHANGED rows /\ q = Caught(p)
           \/ /\ SaveSuccess(w) /\ q = Settled(p, "succeeded")
              /\ rows' = [rows EXCEPT ![p.id] = Succeeded(rows[p.id])]
           \/ /\ SaveFailed(w) /\ q = Settled(p, "failed")
              /\ rows' = [rows EXCEPT ![p.id] = Failed(rows[p.id], p)]
           \/ /\ ScheduleRetry(w) /\ q = At(p, "retrySaved")
              /\ rows' = [rows EXCEPT ![p.id] = Scheduled(rows[p.id], p)]
           \/ CreateRetry(w) /\ q = WithRetry(p, nextId)
           \/ QueueRetry(w) /\ q = RetryInPlace(p)
           \/ CountFailure(w) /\ q = At(p, "counting")
           \/ CheckHealth(w) /\ Unhealthy /\ q = At(p, "deactivating")
<1>a. ASSUME NEW r, Becomes(w, r) PROVE q = r
  BY <1>a DEF Becomes, TypeOK
<1>b. ASSUME Throw(w) PROVE q = Idle \/ q = Caught(p)
  BY <1>a, <1>b DEF Throw, Abort, AbortFrom
<1>1. CASE Load(w)
  BY <1>a, <1>1 DEF Load, Finish, Abort, AbortFrom
<1>2. CASE ReadWebhook(w)
  BY <1>a, <1>2 DEF ReadWebhook, Abort, AbortFrom
<1>3. CASE Respond(w)
  BY <1>a, <1>3 DEF Respond
<1>4. CASE SaveSuccess(w)
  BY <1>a, <1>b, <1>4 DEF SaveSuccess, Saved, SaveThrows
<1>5. CASE SaveFailed(w)
  BY <1>a, <1>b, <1>5 DEF SaveFailed, Saved, SaveThrows
<1>6. CASE ScheduleRetry(w)
  BY <1>a, <1>b, <1>6 DEF ScheduleRetry, Saved, SaveThrows
<1>7. CASE CreateRetry(w)
  BY <1>a, <1>b, <1>7 DEF CreateRetry
<1>8. CASE QueueRetry(w)
  BY <1>a, <1>8 DEF QueueRetry, Finish
<1>9. CASE CountSuccess(w) \/ CountFailure(w) \/ CheckHealth(w) \/ Deactivate(w)
  BY <1>a, <1>9 DEF CountSuccess, CountFailure, CheckHealth, Deactivate, Finish
<1> QED BY <1>1, <1>2, <1>3, <1>4, <1>5, <1>6, <1>7, <1>8, <1>9 DEF ProcStep

\* The stages these calls are at.
LEMMA NextStages ==
    ASSUME NEW p \in Proc, NEW row, NEW id, NEW answer
    PROVE  /\ Idle.stage = "idle" /\ Holding(p, row).stage = "loaded"
           /\ \A stage : At(p, stage).stage = stage
           /\ Answered(p, answer).stage \in {"succeeding", "scheduling", "failing"}
           /\ Caught(p).stage = "failing"
           /\ \A stage : Settled(p, stage).stage = stage
           /\ WithRetry(p, id).stage = "retryCreated" /\ RetryInPlace(p).stage = "start"
<1>1. Answered(p, answer).stage \in {"succeeding", "scheduling", "failing"}
  BY AnsweredType
<1> QED BY <1>1, IdleType DEF Holding, At, Caught, Settled, WithRetry, RetryInPlace, Call, Proc

\* A row changes when it is inserted, claimed, saved or deleted, and when its claim expires.
Inserted(i) ==
    \/ CreateDelivery /\ rows'[i] = NewRow(creating.kind, 1, creating.left, creating.lock, 0)
    \/ \E w \in Workers :
          /\ CreateRetry(w)
          /\ rows'[i] = NewRow("retry", procs[w].attempt + 1, procs[w].left, procs[w].lock, procs[w].id)

SavedBy(w, i) ==
    /\ procs[w].id = i /\ rows[i].status # "absent"
    /\ \/ /\ SaveSuccess(w) /\ rows'[i] = Succeeded(rows[i])
          /\ Becomes(w, Settled(procs[w], "succeeded"))
       \/ /\ SaveFailed(w) /\ rows'[i] = Failed(rows[i], procs[w])
          /\ Becomes(w, Settled(procs[w], "failed"))
       \/ /\ ScheduleRetry(w) /\ rows'[i] = Scheduled(rows[i], procs[w])
          /\ Becomes(w, At(procs[w], "retrySaved"))

LEMMA ChangedRow ==
    ASSUME TypeOK, KnownIds, [Next]_vars, NEW i \in Ids, rows'[i] # rows[i]
    PROVE  \/ CascadeDelete /\ rows'[i] = AbsentRow
           \/ i = nextId /\ Inserted(i) /\ rows[i].status = "absent"
           \/ (\E w \in Workers : Poll(w)) /\ rows'[i] = [rows[i] EXCEPT !.lock = "held"]
           \/ LockExpires(i) /\ rows'[i] = [rows[i] EXCEPT !.lock = "expired"]
           \/ \E w \in Workers : SavedBy(w, i)
<1>a. ASSUME NEW j \in Ids, NEW row, rows' = [rows EXCEPT ![j] = row]
      PROVE  j = i /\ rows'[i] = row
  BY <1>a DEF TypeOK
<1>1. CASE CreateDelivery
  <2>1. Insert(NewRow(creating.kind, 1, creating.left, creating.lock, 0))
    BY <1>1 DEF CreateDelivery
  <2>2. i = nextId /\ Inserted(i)
    BY <1>1, <1>a, <2>1 DEF Insert, Inserted
  <2> QED BY <2>2 DEF KnownIds, Ids
<1>2. ASSUME NEW w \in Workers, CreateRetry(w)
      PROVE  i = nextId /\ Inserted(i) /\ rows[i].status = "absent"
  <2>1. Insert(NewRow("retry", procs[w].attempt + 1, procs[w].left, procs[w].lock, procs[w].id))
    BY <1>2 DEF CreateRetry
  <2>2. i = nextId /\ Inserted(i)
    BY <1>2, <1>a, <2>1 DEF Insert, Inserted
  <2> QED BY <2>2 DEF KnownIds, Ids
<1>3. CASE CascadeDelete
  BY <1>3 DEF CascadeDelete
<1>4. ASSUME NEW w \in Workers, Poll(w) PROVE rows'[i] = [rows[i] EXCEPT !.lock = "held"]
  <2>1. PICK j \in Ids : rows' = [rows EXCEPT ![j] = [rows[j] EXCEPT !.lock = "held"]]
    BY <1>4 DEF Poll
  <2> QED BY <1>a, <2>1
<1>5. ASSUME NEW j \in Ids, LockExpires(j)
      PROVE  LockExpires(i) /\ rows'[i] = [rows[i] EXCEPT !.lock = "expired"]
  <2>1. rows' = [rows EXCEPT ![j] = [rows[j] EXCEPT !.lock = "expired"]]
    BY <1>5 DEF LockExpires
  <2> QED BY <1>5, <1>a, <2>1
<1>6. ASSUME NEW w \in Workers, SaveSuccess(w) \/ SaveFailed(w) \/ ScheduleRetry(w)
      PROVE  SavedBy(w, i)
  <2>1. PICK p : p = procs[w]
    OBVIOUS
  <2>2. KnownCall(p) /\ p.stage # "idle"
    BY <1>6, <2>1 DEF KnownIds, SaveSuccess, SaveFailed, ScheduleRetry
  <2>3. p.id \in Ids
    BY <2>2, CallHasRow
  <2>4. \/ SaveSuccess(w) /\ Saved(w, Succeeded(rows[p.id]), Settled(p, "succeeded"))
        \/ SaveFailed(w) /\ Saved(w, Failed(rows[p.id], p), Settled(p, "failed"))
        \/ ScheduleRetry(w) /\ Saved(w, Scheduled(rows[p.id], p), At(p, "retrySaved"))
    BY <1>6, <2>1 DEF SaveSuccess, SaveFailed, ScheduleRetry, SaveThrows
  <2> QED BY <1>a, <2>1, <2>3, <2>4 DEF Saved, SavedBy
<1>7. ASSUME NEW w \in Workers,
             \/ RunTimer(w) \/ RunJob(w) \/ Load(w) \/ ReadWebhook(w) \/ Respond(w)
             \/ QueueRetry(w) \/ CountSuccess(w) \/ CountFailure(w) \/ CheckHealth(w)
             \/ Deactivate(w) \/ Stall(w)
      PROVE  FALSE
  BY <1>7 DEF Stall, RunTimer, RunJob, Load, ReadWebhook, Respond, QueueRetry, CountSuccess,
              CountFailure, CheckHealth, Deactivate
<1>8. CASE \/ FindWebhook \/ FindReplayed \/ QueueDelivery \/ UpdateWebhook \/ DeleteWebhook
           \/ BreakerCools \/ RedisLost \/ Crash \/ UNCHANGED vars
  BY <1>8 DEF FindWebhook, FindReplayed, QueueDelivery, UpdateWebhook, DeleteWebhook,
              BreakerCools, RedisLost, Crash, vars
<1> QED
  BY <1>1, <1>2, <1>3, <1>4, <1>5, <1>6, <1>7, <1>8 DEF Next, ProcStep

-----------------------------------------------------------------------------
(* Why a webhook is switched off *)

Blamed == {i \in Ids : Live(i) /\ rows[i].error # "none"}

LEMMA IdsFinite == ASSUME NEW S, S \subseteq Ids PROVE IsFiniteSet(S) /\ Cardinality(S) \in Nat
<1>1. IsFiniteSet(Ids)
  BY WebhookAssumption, FS_Interval DEF Ids
<1> QED BY <1>1, FS_Subset, FS_CardinalityType

LEMMA HealthInductive ==
    ASSUME TypeOK, KnownIds, GoneInv, HealthDecisionGrounded, [Next]_vars
    PROVE  HealthDecisionGrounded'
<1> SUFFICES ASSUME NEW w \in Workers, procs'[w].stage = "deactivating", webhook'.exists
             PROVE  Cardinality(Blamed') > HealthThreshold
  BY DEF HealthDecisionGrounded, Blamed
<1>1. webhook.exists /\ \A i \in Ids : RowGrows(rows[i], rows'[i])
  BY NothingDeleted
<1>2. Blamed \subseteq Blamed' /\ Blamed' \subseteq Ids
  BY <1>1 DEF Blamed, Live, RowGrows
<1>3. /\ Cardinality(Blamed) \in Nat /\ Cardinality(Blamed') \in Nat
      /\ Cardinality(Blamed) <= Cardinality(Blamed')
  BY <1>2, IdsFinite, FS_Subset DEF Blamed
<1>4. Cardinality(Blamed) > HealthThreshold
  <2>1. CASE procs[w].stage = "deactivating"
    BY <1>1, <2>1 DEF HealthDecisionGrounded, Blamed
  <2>2. CASE procs[w].stage # "deactivating"
    <3>1. CheckHealth(w)
      <4>1. ASSUME Starts(w) PROVE FALSE
        BY <4>1 DEF Starts, Started, Call
      <4>2. ASSUME Poll(w) PROVE FALSE
        BY <4>2 DEF Poll, Started, Call, Becomes, TypeOK
      <4>3. ASSUME Crash PROVE FALSE
        BY <4>3, IdleType DEF Crash
      <4>4. CASE ProcStep(w)
        <5>1. PICK p, q : p = procs[w] /\ q = procs'[w] /\ p \in Proc
          BY DEF TypeOK
        <5>2. q.stage = "deactivating"
          BY <5>1
        <5>3. /\ \A row, answer : /\ Holding(p, row).stage # "deactivating"
                                   /\ Answered(p, answer).stage # "deactivating"
              /\ Caught(p).stage # "deactivating" /\ Idle.stage # "deactivating"
              /\ \A stage : Settled(p, stage).stage = stage /\ At(p, stage).stage = stage
              /\ WithRetry(p, nextId).stage # "deactivating"
              /\ RetryInPlace(p).stage # "deactivating"
          BY <5>1, NextStages
        <5> QED BY <4>4, <5>1, <5>2, <5>3, NextCall
      <4>5. ASSUME Stall(w), procs'[w] = Disowned(procs[w]) PROVE FALSE
        BY <2>2, <4>5, DisownedType DEF TypeOK
      <4> QED BY <2>2, <4>1, <4>2, <4>3, <4>4, <4>5, ChangedCall
    <3>2. Unhealthy
      <4>1. ~Becomes(w, Idle)
        BY IdleType DEF Becomes, TypeOK
      <4> QED BY <3>1, <4>1 DEF CheckHealth, Finish
    <3>3. PICK F : F = {i \in Ids : rows[i].status = "failed"}
      OBVIOUS
    <3>4. F \subseteq Blamed /\ Blamed \subseteq Ids
      BY <3>3 DEF GoneInv, Blamed, Live
    <3>5. Cardinality(F) \in Nat /\ Cardinality(F) <= Cardinality(Blamed)
      BY <3>4, IdsFinite, FS_Subset
    <3>6. Cardinality(F) > HealthThreshold
      BY <3>2, <3>3 DEF Unhealthy, RecentFailures
    <3> QED BY <1>3, <3>5, <3>6, WebhookAssumption
  <2> QED BY <2>1, <2>2
<1> QED BY <1>3, <1>4, WebhookAssumption

\* The service is about to switch a webhook off only when more of its deliveries than
\* the threshold have failed, whatever late answers came since they were counted
\* (checkWebhookHealth).
THEOREM HealthGrounded == Spec => []HealthDecisionGrounded
<1>1. Init => HealthDecisionGrounded
  BY IdleType DEF Init, HealthDecisionGrounded
<1>2. TypeOK /\ KnownIds /\ GoneInv /\ [Next]_vars => GoneInv'
  BY GoneInductive
<1>3. TypeOK /\ KnownIds /\ GoneInv /\ HealthDecisionGrounded /\ [Next]_vars => HealthDecisionGrounded'
  BY HealthInductive
<1> QED BY <1>1, <1>2, <1>3, GoneInitial, TypeCorrect, PTL DEF Spec

-----------------------------------------------------------------------------
(* Announced retries *)

LEMMA FaultsGrow ==
    ASSUME TypeOK, [Next]_vars
    PROVE  /\ crashes \in Nat /\ dbErrors \in Nat
           /\ crashes' \in {crashes, crashes + 1} /\ dbErrors' \in {dbErrors, dbErrors + 1}
           /\ Crash => crashes' = crashes + 1
<1>1. crashes \in Nat /\ dbErrors \in Nat
  BY DEF TypeOK
<1>2. crashes' \in {crashes, crashes + 1} /\ (Crash => crashes' = crashes + 1)
  <2>1. CASE Crash
    BY <2>1 DEF Crash
  <2>2. CASE \/ FindWebhook \/ FindReplayed \/ CreateDelivery \/ QueueDelivery
             \/ UpdateWebhook \/ DeleteWebhook \/ CascadeDelete
    BY <2>2 DEF FindWebhook, FindReplayed, CreateDelivery, QueueDelivery, UpdateWebhook,
                DeleteWebhook, CascadeDelete, unchangedByApi, Crash
  <2>3. ASSUME NEW w \in Workers, RunTimer(w) \/ RunJob(w) \/ Poll(w) \/ ProcStep(w) \/ Stall(w)
        PROVE  crashes' = crashes
    BY <2>3 DEF Stall, RunTimer, RunJob, Poll, ProcStep, Load, ReadWebhook, Respond, SaveSuccess,
                SaveFailed, ScheduleRetry, CreateRetry, QueueRetry, CountSuccess, CountFailure,
                CheckHealth, Deactivate, unchangedByProc
  <2>4. CASE \/ \E i \in Ids : LockExpires(i)
             \/ BreakerCools \/ RedisLost \/ UNCHANGED vars
    BY <2>4 DEF LockExpires, BreakerCools, RedisLost, unchangedByProc, vars, Crash
  <2> QED BY <2>1, <2>2, <2>3, <2>4 DEF Next
<1>3. dbErrors' \in {dbErrors, dbErrors + 1}
  <2>1. CASE Crash
    BY <2>1 DEF Crash
  <2>2. CASE \/ FindWebhook \/ FindReplayed \/ CreateDelivery \/ QueueDelivery
             \/ UpdateWebhook \/ DeleteWebhook \/ CascadeDelete
    BY <2>2 DEF FindWebhook, FindReplayed, CreateDelivery, QueueDelivery, UpdateWebhook,
                DeleteWebhook, CascadeDelete, DbFault
  <2>3. ASSUME NEW w \in Workers,
               \/ RunTimer(w) \/ RunJob(w) \/ Poll(w) \/ QueueRetry(w) \/ Respond(w) \/ Stall(w)
        PROVE  dbErrors' = dbErrors
    BY <2>3 DEF Stall, RunTimer, RunJob, Poll, Respond, QueueRetry
  <2>4. ASSUME NEW w \in Workers, Load(w) \/ ReadWebhook(w) \/ CreateRetry(w)
        PROVE  dbErrors' \in {dbErrors, dbErrors + 1}
    BY <2>4 DEF Load, ReadWebhook, CreateRetry, DbFault
  <2>5. ASSUME NEW w \in Workers, SaveSuccess(w) \/ SaveFailed(w) \/ ScheduleRetry(w)
        PROVE  dbErrors' \in {dbErrors, dbErrors + 1}
    BY <2>5 DEF SaveSuccess, SaveFailed, ScheduleRetry, Saved, SaveThrows, DbFault
  <2>6. ASSUME NEW w \in Workers,
               CountSuccess(w) \/ CountFailure(w) \/ CheckHealth(w) \/ Deactivate(w)
        PROVE  dbErrors' \in {dbErrors, dbErrors + 1}
    BY <2>6 DEF CountSuccess, CountFailure, CheckHealth, Deactivate, Counted, DbFault
  <2>7. CASE \/ \E i \in Ids : LockExpires(i)
             \/ BreakerCools \/ RedisLost \/ UNCHANGED vars
    BY <2>7 DEF LockExpires, BreakerCools, RedisLost, vars
  <2> QED BY <2>1, <2>2, <2>3, <2>4, <2>5, <2>6, <2>7 DEF Next, ProcStep
<1> QED BY <1>1, <1>2, <1>3

LEMMA AnnouncedInductive ==
    ASSUME TypeOK, KnownIds, GoneInv, AnnouncedRetryExists, [Next]_vars
    PROVE  AnnouncedRetryExists'
<1> SUFFICES ASSUME NEW i \in Ids, rows'[i].status # "absent",
                    rows'[i].error = "retry_scheduled", crashes' + dbErrors' = 0, webhook'.exists
             PROVE  \/ \E j \in Ids : rows'[j].status # "absent" /\ rows'[j].prev = i
                    \/ \E w \in Workers : procs'[w].id = i /\ procs'[w].stage = "retrySaved"
  BY DEF AnnouncedRetryExists, Faults, Live
<1>1. /\ crashes + dbErrors = 0 /\ crashes' # crashes + 1 /\ dbErrors' # dbErrors + 1
      /\ webhook.exists
      /\ \A j \in Ids : RowGrows(rows[j], rows'[j])
  BY FaultsGrow, NothingDeleted
<1>2. ASSUME NEW j \in Ids, Live(j), rows[j].prev = i
      PROVE  rows'[j].status # "absent" /\ rows'[j].prev = i
  BY <1>1, <1>2 DEF RowGrows, Live
<1>3. ASSUME NEW w \in Workers, procs[w].id = i, procs[w].stage = "retrySaved", procs'[w] # procs[w],
             ~(procs'[w] = Disowned(procs[w]))
      PROVE  \E j \in Ids : rows'[j].status # "absent" /\ rows'[j].prev = i
  <2>1. ProcStep(w)
    BY <1>1, <1>3, ChangedCall, FaultsGrow DEF Starts, Poll
  <2>2. CreateRetry(w)
    BY <1>3, <2>1 DEF ProcStep, Load, ReadWebhook, Respond, SaveSuccess, SaveFailed,
                      ScheduleRetry, QueueRetry, CountSuccess, CountFailure, CheckHealth, Deactivate
  <2>3. PICK row : /\ row = NewRow("retry", procs[w].attempt + 1, procs[w].left, procs[w].lock, i)
                   /\ Insert(row)
    BY <1>1, <1>3, <2>2 DEF CreateRetry, DbFault
  <2>4. nextId \in Ids /\ rows'[nextId] = row
    BY <2>3 DEF Insert, TypeOK
  <2>5. row.prev = i /\ row.status = "pending"
    BY <2>3 DEF NewRow
  <2> QED BY <2>4, <2>5
<1>4. CASE Live(i) /\ rows[i].error = "retry_scheduled"
  <2>1. \/ \E j \in Ids : Live(j) /\ rows[j].prev = i
        \/ \E w \in Workers : procs[w].id = i /\ procs[w].stage = "retrySaved"
    BY <1>1, <1>4 DEF AnnouncedRetryExists, Faults
  <2>2. ASSUME NEW w \in Workers, procs'[w] = Disowned(procs[w])
        PROVE  procs'[w].id = procs[w].id /\ procs'[w].stage = procs[w].stage
    BY <2>2, DisownedType DEF TypeOK
  <2> QED BY <1>2, <1>3, <2>1, <2>2
<1>5. CASE ~(Live(i) /\ rows[i].error = "retry_scheduled")
  <2>1. rows[i] \in Row /\ rows'[i] # rows[i]
    BY <1>5 DEF TypeOK, Live
  <2>2. rows'[i] # AbsentRow /\ ~Inserted(i)
    <3>1. AbsentRow.status = "absent"
      BY DEF AbsentRow
    <3>2. ASSUME NEW kind, NEW attempt, NEW left, NEW lock, NEW prev
          PROVE  NewRow(kind, attempt, left, lock, prev).error = "none"
      BY DEF NewRow
    <3>3. Inserted(i) => rows'[i].error = "none"
      BY <3>2 DEF Inserted
    <3> QED BY <3>1, <3>3
  <2>3. rows'[i] # [rows[i] EXCEPT !.lock = "held"] /\ rows'[i] # [rows[i] EXCEPT !.lock = "expired"]
    BY <1>5, <2>1 DEF Row, Live
  <2>4. PICK w \in Workers : SavedBy(w, i)
    BY <2>1, <2>2, <2>3, ChangedRow
  <2>5. PICK p : p = procs[w] /\ p \in Proc
    BY DEF TypeOK
  <2>6. rows'[i] # Succeeded(rows[i]) /\ rows'[i] # Failed(rows[i], p)
    BY <1>5, <2>1, <2>4 DEF SavedBy, Live, Succeeded, Failed, Row
  <2>7. p.id = i /\ Becomes(w, At(p, "retrySaved"))
    BY <2>4, <2>5, <2>6 DEF SavedBy
  <2>8. procs'[w] = At(p, "retrySaved")
    BY <2>7 DEF Becomes, TypeOK
  <2>9. At(p, "retrySaved").id = i /\ At(p, "retrySaved").stage = "retrySaved"
    BY <2>5, <2>7 DEF At, Proc
  <2> QED BY <2>8, <2>9
<1> QED BY <1>4, <1>5

\* An announced retry exists, or is about to be inserted by the call that closed the
\* row, unless something was lost to a fault or to deleteWebhook (scheduleRetry).
THEOREM RetryIsAnnounced == Spec => []AnnouncedRetryExists
<1>1. Init => AnnouncedRetryExists
  BY DEF Init, AnnouncedRetryExists, AbsentRow, Live
<1>2. TypeOK /\ KnownIds /\ GoneInv /\ [Next]_vars => GoneInv'
  BY GoneInductive
<1>3. TypeOK /\ KnownIds /\ GoneInv /\ AnnouncedRetryExists /\ [Next]_vars => AnnouncedRetryExists'
  BY AnnouncedInductive
<1> QED BY <1>1, <1>2, <1>3, GoneInitial, TypeCorrect, PTL DEF Spec

-----------------------------------------------------------------------------
(* Polled events *)

EventRow(i) == Live(i) /\ rows[i].kind = "event"

\* Nobody but the poller starts a call for the row of an event.
PollOnly(i) ==
    /\ ~Queued(i)
    /\ \A w \in Workers : /\ procs[w].stage # "idle" /\ procs[w].job = i => procs[w].stalls = NoJob
                          /\ procs[w].stage = "retryCreated" => procs[w].child # i

\* A call that has not settled its row yet, and one that has sent the POST.
Unsettled(p) == p.stage \in {"start", "loaded", "sending", "succeeding", "scheduling", "failing",
                             "retrySaved"}
Posted(p) == p.stage \in {"sending", "succeeding", "scheduling", "failing", "retrySaved"}
Early(p) == p.stage \in {"start", "loaded"}

Runs(p, i) == p.id = i /\ Unsettled(p)

\* Its calls hold its claim, so that there is one at most ...
ClaimedOnce(i) ==
    /\ \A w \in Workers : Runs(procs[w], i) => procs[w].polled /\ rows[i].lock = "held"
    /\ \A v, w \in Workers : Runs(procs[v], i) /\ Runs(procs[w], i) => v = w

\* ... and a row is pending after its POST only if a fault ended the call.
PostsPaid(i) ==
    /\ posts[i] <= 1 + Faults
    /\ \A w \in Workers : procs[w].id = i =>
          /\ Early(procs[w]) => posts[i] <= Faults
          /\ procs[w].stage = "retrySaved" => rows[i].status # "pending"
    /\ rows[i].status = "pending" =>
          posts[i] <= Faults \/ \E w \in Workers : procs[w].id = i /\ Posted(procs[w])

NewRowsUnposted == \A i \in Ids : i >= nextId => posts[i] = 0
EventsPollOnly == \A i \in Ids : EventRow(i) => PollOnly(i)
EventsPaid == TimeoutBelowLock => \A i \in Ids : EventRow(i) => ClaimedOnce(i) /\ PostsPaid(i)

LEMMA EventStep ==
    ASSUME TypeOK, KnownIds, [Next]_vars, NEW i \in Ids, EventRow(i)'
    PROVE  \/ EventRow(i) /\ i < nextId
           \/ i = nextId /\ CreateDelivery /\ creating.kind = "event"
<1>1. CASE rows'[i] = rows[i]
  BY <1>1 DEF EventRow, Live, KnownIds, TypeOK, Ids
<1>2. CASE rows'[i] # rows[i]
  <2>1. rows'[i].status # "absent" /\ rows'[i].kind = "event" /\ rows[i] \in Row
    BY DEF EventRow, Live, TypeOK
  <2>2. rows'[i] # AbsentRow
    BY <2>1 DEF AbsentRow
  <2>3. CASE i = nextId /\ Inserted(i)
    <3>1. ASSUME NEW kind, NEW attempt, NEW left, NEW lock, NEW prev
          PROVE  NewRow(kind, attempt, left, lock, prev).kind = kind
      BY DEF NewRow
    <3> QED BY <2>1, <2>3, <3>1 DEF Inserted
  <2>4. CASE rows'[i] = [rows[i] EXCEPT !.lock = "held"] \/ rows'[i] = [rows[i] EXCEPT !.lock = "expired"]
    BY <2>1, <2>4 DEF Row, EventRow, Live, KnownIds, TypeOK, Ids
  <2>5. ASSUME NEW w \in Workers, SavedBy(w, i) PROVE EventRow(i) /\ i < nextId
    <3>1. PICK p : p = procs[w] /\ p \in Proc
      BY DEF TypeOK
    <3>2. Live(i) /\ rows'[i].kind = rows[i].kind
      BY <2>1, <2>5, <3>1 DEF SavedBy, Live, Succeeded, Failed, Scheduled, Row
    <3> QED BY <2>1, <3>2 DEF EventRow, Live, KnownIds, TypeOK, Ids
  <2> QED BY <1>2, <2>2, <2>3, <2>4, <2>5, ChangedRow
<1> QED BY <1>1, <1>2

\* What a call keeps by its own steps.
LEMMA CallKeeps ==
    ASSUME TypeOK, NEW w \in Workers, ProcStep(w), NEW p, p = procs[w], NEW q, q = procs'[w],
           q.stage # "idle"
    PROVE  /\ q.job = p.job /\ q.stalls = p.stalls /\ p.stage # "idle"
           /\ q.stage = "retryCreated" => q.child = nextId
           /\ \/ /\ q.id = p.id /\ q.polled = p.polled
                 /\ Unsettled(q) => Unsettled(p)
                 /\ Early(q) => Early(p)
              \/ p.stage = "retryCreated" /\ q.id = p.child
<1>1. p \in Proc
  BY DEF TypeOK
<1>2. p.stage # "idle"
  BY DEF ProcStep, Load, ReadWebhook, Respond, SaveSuccess, SaveFailed, ScheduleRetry, CreateRetry,
         QueueRetry, CountSuccess, CountFailure, CheckHealth, Deactivate
<1>3. CASE Load(w) /\ q = Holding(p, rows[p.id])
  <2>1. q.stage = "loaded" /\ q.id = p.id /\ q.job = p.job /\ q.stalls = p.stalls /\ q.polled = p.polled
    BY <1>1, <1>3 DEF Holding, Proc
  <2>2. p.stage = "start"
    BY <1>3 DEF Load
  <2> QED BY <1>2, <2>1, <2>2 DEF Unsettled, Early
<1>4. ASSUME NEW stage \in {"failing", "sending", "retrySaved", "counting", "deactivating"},
             q = At(p, stage), stage \in {"failing", "sending", "retrySaved"} => Unsettled(p)
      PROVE  /\ q.job = p.job /\ q.stalls = p.stalls /\ q.stage # "retryCreated"
             /\ q.id = p.id /\ q.polled = p.polled
             /\ Unsettled(q) => Unsettled(p)
             /\ ~Early(q)
  <2>1. q.stage = stage /\ q.id = p.id /\ q.job = p.job /\ q.stalls = p.stalls /\ q.polled = p.polled
    BY <1>1, <1>4 DEF At, Proc
  <2> QED BY <1>4, <2>1 DEF Unsettled, Early
<1>5. CASE ReadWebhook(w) /\ \E stage \in {"failing", "sending"} : q = At(p, stage)
  BY <1>2, <1>4, <1>5 DEF ReadWebhook, Unsettled
<1>6. CASE Respond(w) /\ \E answer : q = Answered(p, answer)
  <2>1. PICK answer : q = Answered(p, answer)
    BY <1>6
  <2>2. q.stage \in {"succeeding", "scheduling", "failing"} /\ q.id = p.id /\ q.job = p.job
    BY <1>1, <2>1, AnsweredType
  <2>3. q.stalls = p.stalls /\ q.polled = p.polled
    BY <1>1, <2>1 DEF Answered, Proc
  <2>4. p.stage = "sending"
    BY <1>6 DEF Respond
  <2> QED BY <1>2, <2>2, <2>3, <2>4 DEF Unsettled, Early
<1>7. CASE p.stage \in {"succeeding", "failing", "scheduling", "retrySaved"} /\ q = Caught(p)
  <2>1. q.stage = "failing" /\ q.id = p.id /\ q.job = p.job /\ q.stalls = p.stalls /\ q.polled = p.polled
    BY <1>1, <1>7 DEF Caught, Proc
  <2> QED BY <1>2, <1>7, <2>1 DEF Unsettled, Early
<1>8. CASE q = Settled(p, "succeeded") \/ q = Settled(p, "failed")
  <2>1. /\ q.stage \in {"succeeded", "failed"} /\ q.id = p.id
        /\ q.job = p.job /\ q.stalls = p.stalls /\ q.polled = p.polled
    BY <1>8 DEF Settled, Call
  <2> QED BY <1>2, <2>1 DEF Unsettled, Early
<1>9. CASE ScheduleRetry(w) /\ q = At(p, "retrySaved")
  BY <1>2, <1>4, <1>9 DEF ScheduleRetry, Unsettled
<1>10. CASE CreateRetry(w) /\ q = WithRetry(p, nextId)
  <2>1. /\ q.stage = "retryCreated" /\ q.child = nextId /\ q.id = p.id
        /\ q.job = p.job /\ q.stalls = p.stalls /\ q.polled = p.polled
    BY <1>1, <1>10 DEF WithRetry, Proc
  <2> QED BY <1>2, <2>1 DEF Unsettled, Early
<1>11. CASE QueueRetry(w) /\ q = RetryInPlace(p)
  <2>1. q.stage = "start" /\ q.id = p.child /\ q.job = p.job /\ q.stalls = p.stalls
    BY <1>11 DEF RetryInPlace, Call
  <2>2. p.stage = "retryCreated"
    BY <1>11 DEF QueueRetry
  <2> QED BY <1>2, <2>1, <2>2
<1>12. CASE (CountFailure(w) /\ q = At(p, "counting")) \/ (CheckHealth(w) /\ q = At(p, "deactivating"))
  BY <1>2, <1>4, <1>12
<1>13. q # Idle
  BY IdleType
<1> QED BY <1>3, <1>5, <1>6, <1>7, <1>8, <1>9, <1>10, <1>11, <1>12, <1>13, NextCall

\* A row that nobody has queued is only queued by its insertion or its retry.
LEMMA QueuedStep ==
    ASSUME TypeOK, [Next]_vars, NEW i, ~Queued(i), Queued(i)'
    PROVE  \/ i = nextId /\ CreateDelivery /\ creating.kind # "event"
           \/ \E w \in Workers : procs[w].stage = "retryCreated" /\ procs[w].child = i
           \/ \E w \in Workers : procs[w].stage # "idle" /\ procs[w].job = i /\ procs[w].stalls = 0
<1>a. ASSUME NEW k, Enqueue(k) \/ EnqueueThrows(k), i # k
      PROVE  /\ i \in timers' => i \in timers
             /\ \A j \in jobs' : i = j.id => j \in jobs
  <2>1. PICK job : job = [id |-> k, stalls |-> 0]
    OBVIOUS
  <2>2. job.id = k
    BY <2>1
  <2>3. /\ timers' = timers \/ timers' = timers \cup {k}
        /\ jobs' = jobs \/ jobs' = jobs \cup {job}
    BY <1>a, <2>1 DEF Enqueue, EnqueueThrows
  <2> QED BY <1>a, <2>2, <2>3
<1>0. CASE toQueue' \subseteq toQueue /\ timers' \subseteq timers /\ jobs' \subseteq jobs
  BY <1>0 DEF Queued
<1>1. CASE CreateDelivery
  BY <1>1 DEF CreateDelivery, Queued, unchangedByApi
<1>2. CASE QueueDelivery
  <2>1. PICK k \in toQueue : toQueue' = toQueue \ {k} /\ (Enqueue(k) \/ EnqueueThrows(k))
    BY <1>2 DEF QueueDelivery
  <2>2. i # k
    BY DEF Queued
  <2> QED BY <1>a, <2>1, <2>2 DEF Queued
<1>3. ASSUME NEW w \in Workers, RunTimer(w) \/ RunJob(w)
      PROVE  toQueue' \subseteq toQueue /\ timers' \subseteq timers /\ jobs' \subseteq jobs
  BY <1>3 DEF RunTimer, RunJob, unchangedByProc
<1>4. ASSUME NEW w \in Workers, QueueRetry(w)
      PROVE  \E v \in Workers : procs[v].stage = "retryCreated" /\ procs[v].child = i
  <2>1. procs[w].stage = "retryCreated" /\ UNCHANGED toQueue
        /\ (Enqueue(procs[w].child) \/ EnqueueThrows(procs[w].child))
    BY <1>4 DEF QueueRetry
  <2> QED BY <1>a, <2>1 DEF Queued
<1>5. CASE Crash
  <2>1. /\ toQueue' = {} /\ timers' = {}
        /\ jobs' = jobs \cup {[id |-> procs[w].job, stalls |-> 1] :
                                 w \in {v \in Workers : procs[v].stage # "idle" /\ procs[v].stalls = 0}}
    BY <1>5 DEF Crash
  <2>2. PICK j \in jobs' : i = j.id /\ j \notin jobs
    BY <2>1 DEF Queued
  <2>3. PICK w \in Workers : /\ procs[w].stage # "idle" /\ procs[w].stalls = 0
                             /\ j = [id |-> procs[w].job, stalls |-> 1]
    BY <2>1, <2>2
  <2> QED BY <2>2, <2>3
<1>6. ASSUME NEW w \in Workers,
             \/ Poll(w) \/ Load(w) \/ ReadWebhook(w) \/ Respond(w)
             \/ SaveSuccess(w) \/ SaveFailed(w) \/ ScheduleRetry(w) \/ CreateRetry(w)
             \/ CountSuccess(w) \/ CountFailure(w) \/ CheckHealth(w) \/ Deactivate(w)
      PROVE  UNCHANGED <<toQueue, timers, jobs>>
  BY <1>6 DEF Poll, Load, ReadWebhook, Respond, SaveSuccess, SaveFailed, ScheduleRetry,
              CreateRetry, CountSuccess, CountFailure, CheckHealth, Deactivate, unchangedByProc
<1>7. CASE \/ FindWebhook \/ FindReplayed \/ UpdateWebhook \/ DeleteWebhook \/ CascadeDelete
           \/ BreakerCools \/ RedisLost \/ (\E k \in Ids : LockExpires(k)) \/ UNCHANGED vars
  <2>1. UNCHANGED <<toQueue, timers, jobs>>
    BY <1>7 DEF FindWebhook, FindReplayed, UpdateWebhook, DeleteWebhook, CascadeDelete,
                BreakerCools, RedisLost, LockExpires, unchangedByApi, unchangedByProc, vars, memory
  <2> QED BY <1>0, <2>1
<1>8. ASSUME NEW w \in Workers, Stall(w)
      PROVE  procs[w].stage # "idle" /\ procs[w].job = i /\ procs[w].stalls = 0
  <2>1. PICK job : job = [id |-> procs[w].job, stalls |-> 1]
    OBVIOUS
  <2>2. job.id = procs[w].job
    BY <2>1
  <2>3. /\ jobs' = jobs \cup {job} /\ UNCHANGED <<toQueue, timers>>
        /\ procs[w].stage # "idle" /\ procs[w].stalls = 0
    BY <1>8, <2>1 DEF Stall
  <2> QED BY <2>2, <2>3 DEF Queued
<1> QED
  BY <1>0, <1>1, <1>2, <1>3, <1>4, <1>5, <1>6, <1>7, <1>8 DEF Next, ProcStep

LEMMA PollOnlyInductive ==
    ASSUME TypeOK, KnownIds, EventsPollOnly, [Next]_vars
    PROVE  EventsPollOnly'
<1> SUFFICES ASSUME NEW i \in Ids, EventRow(i)' PROVE PollOnly(i)'
  BY DEF EventsPollOnly
<1>1. CASE i = nextId /\ CreateDelivery /\ creating.kind = "event"
  <2>1. ~Known(i) /\ UNCHANGED procs
    BY <1>1 DEF Known, TypeOK, CreateDelivery, unchangedByApi
  <2>2. ~Queued(i) /\ \A w \in Workers : /\ procs[w].stage # "idle" => procs[w].job # i
                                         /\ procs[w].stage = "retryCreated" => procs[w].child # i
    BY <2>1 DEF KnownIds, KnownCall, Queued
  <2>3. ~Queued(i)'
    BY <1>1, <2>2 DEF CreateDelivery, Queued, unchangedByApi
  <2> QED BY <2>1, <2>2, <2>3 DEF PollOnly
<1>2. CASE EventRow(i) /\ i < nextId
  <2>1. PollOnly(i)
    BY <1>2 DEF EventsPollOnly
  <2>2. i # nextId
    BY <1>2 DEF Ids, TypeOK
  <2>3. ~Queued(i)'
    <3>1. \A w \in Workers : procs[w].stage # "idle" /\ procs[w].job = i => procs[w].stalls # 0
      BY <2>1 DEF PollOnly, NoJob
    <3> QED BY <2>1, <2>2, <3>1, QueuedStep DEF PollOnly
  <2>4. ASSUME NEW w \in Workers
        PROVE  /\ procs'[w].stage # "idle" /\ procs'[w].job = i => procs'[w].stalls = NoJob
               /\ procs'[w].stage = "retryCreated" => procs'[w].child # i
    <3>1. CASE procs'[w] = procs[w]
      BY <2>1, <3>1 DEF PollOnly
    <3>2. CASE Starts(w)
      BY <2>1, <3>2 DEF Starts, Started, Call, PollOnly, Queued
    <3>3. CASE Poll(w)
      <4>1. PICK k \in Ids : procs'[w] = Started(k, NoJob, TRUE)
        BY <3>3 DEF Poll, Becomes, TypeOK
      <4> QED BY <4>1 DEF Started, Call
    <3>4. CASE Crash
      BY <3>4, IdleType DEF Crash
    <3>5. CASE ProcStep(w) /\ procs'[w].stage # "idle"
      BY <2>1, <2>2, <3>5, CallKeeps DEF PollOnly
    <3>6. CASE procs'[w].stage = "idle"
      BY <3>6
    <3>7. CASE procs'[w] = Disowned(procs[w])
      BY <2>1, <3>7, DisownedType DEF PollOnly, TypeOK
    <3> QED BY <3>1, <3>2, <3>3, <3>4, <3>5, <3>6, <3>7, ChangedCall
  <2> QED BY <2>3, <2>4 DEF PollOnly, NoJob
<1> QED BY <1>1, <1>2, EventStep

\* A POST is sent when the webhook was read; rows are known before they are POSTed.
LEMMA PostStep ==
    ASSUME TypeOK, [Next]_vars, NEW i \in Ids, posts'[i] # posts[i]
    PROVE  \E w \in Workers : /\ procs[w].stage = "loaded" /\ procs[w].id = i
                              /\ procs'[w] = At(procs[w], "sending")
                              /\ posts'[i] = posts[i] + 1 /\ UNCHANGED rows
<1>1. ASSUME NEW w \in Workers, ReadWebhook(w)
      PROVE  /\ procs[w].stage = "loaded" /\ procs[w].id = i
             /\ procs'[w] = At(procs[w], "sending")
             /\ posts'[i] = posts[i] + 1 /\ UNCHANGED rows
  <2>1. /\ procs[w].stage = "loaded" /\ UNCHANGED rows
        /\ posts' = [posts EXCEPT ![procs[w].id] = @ + 1]
        /\ Becomes(w, At(procs[w], "sending"))
    BY <1>1 DEF ReadWebhook
  <2> QED BY <2>1 DEF Becomes, TypeOK
<1>2. ASSUME NEW w \in Workers,
             \/ RunTimer(w) \/ RunJob(w) \/ Poll(w) \/ Load(w) \/ Respond(w)
             \/ SaveSuccess(w) \/ SaveFailed(w) \/ ScheduleRetry(w) \/ CreateRetry(w)
             \/ QueueRetry(w) \/ CountSuccess(w) \/ CountFailure(w) \/ CheckHealth(w) \/ Deactivate(w)
             \/ Stall(w)
      PROVE  FALSE
  BY <1>2 DEF Stall, RunTimer, RunJob, Poll, Load, Respond, SaveSuccess, SaveFailed, ScheduleRetry,
              CreateRetry, QueueRetry, CountSuccess, CountFailure, CheckHealth, Deactivate
<1>3. CASE \/ FindWebhook \/ FindReplayed \/ CreateDelivery \/ QueueDelivery \/ UpdateWebhook
           \/ DeleteWebhook \/ CascadeDelete \/ BreakerCools \/ RedisLost \/ Crash
           \/ (\E k \in Ids : LockExpires(k)) \/ UNCHANGED vars
  BY <1>3 DEF FindWebhook, FindReplayed, CreateDelivery, QueueDelivery, UpdateWebhook,
              DeleteWebhook, CascadeDelete, BreakerCools, RedisLost, Crash, LockExpires,
              unchangedByApi, vars
<1> QED BY <1>1, <1>2, <1>3 DEF Next, ProcStep

LEMMA UnpostedInductive ==
    ASSUME TypeOK, KnownIds, TypeOK', NewRowsUnposted, [Next]_vars
    PROVE  NewRowsUnposted'
<1> SUFFICES ASSUME NEW i \in Ids, i >= nextId' PROVE posts'[i] = 0
  BY DEF NewRowsUnposted
<1>1. nextId' >= nextId
  <2>1. nextId' \in {nextId, nextId + 1}
    <3>1. CASE \/ FindWebhook \/ FindReplayed \/ CreateDelivery \/ QueueDelivery \/ UpdateWebhook
               \/ DeleteWebhook \/ CascadeDelete
      BY <3>1 DEF FindWebhook, FindReplayed, CreateDelivery, QueueDelivery, UpdateWebhook,
                  DeleteWebhook, CascadeDelete, Insert
    <3>2. CASE BreakerCools \/ RedisLost \/ Crash \/ (\E k \in Ids : LockExpires(k)) \/ UNCHANGED vars
      BY <3>2 DEF BreakerCools, RedisLost, Crash, LockExpires, vars
    <3>3. ASSUME NEW w \in Workers, RunTimer(w) \/ RunJob(w) \/ Poll(w) \/ ProcStep(w) \/ Stall(w)
          PROVE  nextId' \in {nextId, nextId + 1}
      BY <3>3 DEF Stall, RunTimer, RunJob, Poll, ProcStep, Load, ReadWebhook, Respond, SaveSuccess,
                  SaveFailed, ScheduleRetry, CreateRetry, QueueRetry, CountSuccess, CountFailure,
                  CheckHealth, Deactivate, Insert
    <3> QED BY <3>1, <3>2, <3>3 DEF Next
  <2> QED BY <2>1 DEF TypeOK
<1>2. posts[i] = 0
  BY <1>1 DEF NewRowsUnposted, TypeOK, Ids
<1>3. posts'[i] = posts[i]
  <2>1. ASSUME NEW w \in Workers, procs[w].stage = "loaded", procs[w].id = i PROVE FALSE
    <3>1. KnownCall(procs[w])
      BY DEF KnownIds
    <3>2. i < nextId
      BY <2>1, <3>1, CallHasRow
    <3> QED BY <1>1, <3>2 DEF TypeOK, Ids
  <2> QED BY <2>1, PostStep
<1> QED BY <1>2, <1>3

\* A call that posted ends without settling its row only by a fault.
LEMMA EndsByFault ==
    ASSUME TypeOK, NEW w \in Workers, ProcStep(w), Posted(procs[w]),
           Live(procs[w].id), procs'[w].stage = "idle"
    PROVE  dbErrors' = dbErrors + 1
<1>1. PICK p : p = procs[w] /\ p \in Proc
  BY DEF TypeOK
<1>a. ASSUME NEW q, Becomes(w, q) PROVE q.stage = "idle"
  BY <1>a DEF Becomes, TypeOK
<1>b. ASSUME SaveThrows(w) PROVE dbErrors' = dbErrors + 1
  BY <1>b DEF SaveThrows, DbFault, Live
<1>2. CASE Respond(w)
  <2>1. PICK answer : Becomes(w, Answered(p, answer))
    BY <1>1, <1>2 DEF Respond
  <2>2. Answered(p, answer).stage # "idle"
    BY <1>1, AnsweredType
  <2> QED BY <1>a, <2>1, <2>2
<1>3. CASE SaveSuccess(w) \/ SaveFailed(w) \/ ScheduleRetry(w)
  <2>1. SaveThrows(w) \/ \E q : Becomes(w, q) /\ q.stage \in {"succeeded", "failed", "retrySaved"}
    <3>1. /\ Settled(p, "succeeded").stage = "succeeded" /\ Settled(p, "failed").stage = "failed"
          /\ At(p, "retrySaved").stage = "retrySaved"
      BY <1>1, NextStages
    <3> QED BY <1>1, <1>3, <3>1 DEF SaveSuccess, SaveFailed, ScheduleRetry, Saved
  <2> QED BY <1>a, <1>b, <2>1
<1>4. CASE CreateRetry(w)
  <2>1. Becomes(w, WithRetry(p, nextId)) \/ dbErrors' = dbErrors + 1
    BY <1>1, <1>4 DEF CreateRetry, DbFault
  <2>2. WithRetry(p, nextId).stage = "retryCreated"
    BY <1>1, NextStages
  <2> QED BY <1>a, <2>1, <2>2
<1> QED
  BY <1>2, <1>3, <1>4 DEF ProcStep, Posted, Load, ReadWebhook, QueueRetry, CountSuccess,
                          CountFailure, CheckHealth, Deactivate

LEMMA PostedGoesOn ==
    ASSUME TypeOK, KnownIds, NEW w \in Workers, ProcStep(w), NEW p, p = procs[w],
           NEW q, q = procs'[w], q.stage # "idle", Posted(p), p.stage # "retrySaved"
    PROVE  (q.id = p.id /\ Posted(q)) \/ rows'[p.id].status # "pending"
<1>1. p \in Proc /\ p.id \in Ids
  <2>1. p \in Proc /\ KnownCall(p) /\ p.stage # "idle"
    BY DEF TypeOK, KnownIds, Posted
  <2> QED BY <2>1, CallHasRow
<1>2. rows[p.id] \in Row
  BY <1>1 DEF TypeOK
<1>3. CASE Respond(w) /\ \E answer : q = Answered(p, answer)
  BY <1>1, <1>3, AnsweredType DEF Posted
<1>4. CASE q = Caught(p)
  BY <1>1, <1>4, CaughtType DEF Posted
<1>5. CASE rows' = [rows EXCEPT ![p.id] = Succeeded(rows[p.id])]
  BY <1>1, <1>2, <1>5 DEF Succeeded, Row, TypeOK
<1>6. CASE rows' = [rows EXCEPT ![p.id] = Failed(rows[p.id], p)]
  BY <1>1, <1>2, <1>6 DEF Failed, Row, TypeOK
<1>7. CASE rows' = [rows EXCEPT ![p.id] = Scheduled(rows[p.id], p)]
  BY <1>1, <1>2, <1>7 DEF Scheduled, Row, TypeOK
<1>8. ~Load(w) /\ ~ReadWebhook(w) /\ ~CreateRetry(w) /\ ~QueueRetry(w) /\ ~CountFailure(w) /\ ~CheckHealth(w)
  BY DEF Posted, Load, ReadWebhook, CreateRetry, QueueRetry, CountFailure, CheckHealth
<1>9. q # Idle
  BY IdleType
<1> QED BY <1>3, <1>4, <1>5, <1>6, <1>7, <1>8, <1>9, NextCall

LEMMA RetrySavedClosed ==
    ASSUME TypeOK, KnownIds, NEW w \in Workers, ProcStep(w), NEW p, p = procs[w],
           NEW q, q = procs'[w], q.stage = "retrySaved"
    PROVE  q.id = p.id /\ rows'[p.id].status # "pending"
<1>1. p \in Proc
  BY DEF TypeOK
<1>2. ScheduleRetry(w) /\ q = At(p, "retrySaved") /\ rows' = [rows EXCEPT ![p.id] = Scheduled(rows[p.id], p)]
  <2>1. /\ \A row, answer : /\ Holding(p, row).stage # "retrySaved"
                            /\ Answered(p, answer).stage # "retrySaved"
        /\ Caught(p).stage # "retrySaved" /\ Idle.stage # "retrySaved"
        /\ \A stage : Settled(p, stage).stage = stage /\ At(p, stage).stage = stage
        /\ WithRetry(p, nextId).stage # "retrySaved"
        /\ RetryInPlace(p).stage # "retrySaved"
    BY <1>1, NextStages
  <2> QED BY <2>1, NextCall
<1>3. p.id \in Ids
  <2>1. KnownCall(p) /\ p.stage # "idle"
    BY <1>2 DEF KnownIds, ScheduleRetry
  <2> QED BY <2>1, CallHasRow
<1>4. q.id = p.id
  BY <1>1, <1>2 DEF At, Proc
<1> QED BY <1>2, <1>3, <1>4 DEF TypeOK, Scheduled, Row

\* Which calls may run the row of an event after a step.
PollsIt(w, i) ==
    /\ procs'[w] = Started(i, NoJob, TRUE) /\ \A v \in Workers : v # w => procs'[v] = procs[v]
    /\ rows[i].status = "pending" /\ rows[i].lock # "held" /\ rows'[i].lock = "held"

\* The call is at the same point of the same row.
SameRun(p, q) == q.id = p.id /\ q.stage = p.stage /\ q.polled = p.polled

LEMMA RunnerStep ==
    ASSUME TypeOK, KnownIds, [Next]_vars, NEW i \in Ids, PollOnly(i), NEW w \in Workers,
           Runs(procs'[w], i)
    PROVE  \/ SameRun(procs[w], procs'[w])
           \/ PollsIt(w, i)
           \/ /\ ProcStep(w) /\ Runs(procs[w], i) /\ procs'[w].polled = procs[w].polled
              /\ Early(procs'[w]) => Early(procs[w])
<1>1. procs'[w].stage # "idle"
  BY DEF Runs, Unsettled
<1>2. ~Starts(w)
  <2>1. ASSUME NEW k, NEW stalls, procs'[w] = Started(k, stalls, FALSE) PROVE k = i
    BY <2>1 DEF Runs, Started, Call
  <2>2. ~Queued(i)
    BY DEF PollOnly
  <2> QED BY <2>1, <2>2 DEF Starts, Queued
<1>3. ~Crash
  BY <1>1, IdleType DEF Crash
<1>4. CASE ProcStep(w)
  <2>1. PICK p, q : p = procs[w] /\ q = procs'[w]
    OBVIOUS
  <2>2. ~(p.stage = "retryCreated" /\ q.id = p.child)
    BY <2>1 DEF PollOnly, Runs
  <2>3. q.id = p.id /\ q.polled = p.polled /\ (Unsettled(q) => Unsettled(p)) /\ (Early(q) => Early(p))
    BY <1>1, <1>4, <2>1, <2>2, CallKeeps
  <2> QED BY <1>4, <2>1, <2>3 DEF Runs
<1>5. CASE Poll(w)
  <2>1. PICK k \in Ids : /\ Pollable(k) /\ rows' = [rows EXCEPT ![k] = [rows[k] EXCEPT !.lock = "held"]]
                         /\ procs' = [procs EXCEPT ![w] = Started(k, NoJob, TRUE)]
    BY <1>5 DEF Poll, Becomes
  <2>2. procs'[w] = Started(k, NoJob, TRUE) /\ \A v \in Workers : v # w => procs'[v] = procs[v]
    BY <2>1 DEF TypeOK
  <2>3. k = i
    BY <2>2 DEF Runs, Started, Call
  <2>4. rows'[i].lock = "held"
    <3>1. rows'[i] = [rows[i] EXCEPT !.lock = "held"] /\ rows[i] \in Row
      BY <2>1, <2>3 DEF TypeOK
    <3> QED BY <3>1 DEF Row
  <2> QED BY <2>1, <2>2, <2>3, <2>4 DEF PollsIt, Pollable
<1>6. procs'[w] = procs[w] \/ procs'[w] = Disowned(procs[w]) => SameRun(procs[w], procs'[w])
  BY DisownedType DEF SameRun, TypeOK
<1> QED BY <1>2, <1>3, <1>4, <1>5, <1>6, ChangedCall

LEMMA EventsPaidInductive ==
    ASSUME TypeOK, KnownIds, TypeOK', EventsPollOnly, NewRowsUnposted, EventsPaid, [Next]_vars
    PROVE  EventsPaid'
<1> SUFFICES ASSUME TimeoutBelowLock, NEW i \in Ids, EventRow(i)'
             PROVE  ClaimedOnce(i)' /\ PostsPaid(i)'
  BY DEF EventsPaid
<1>f. /\ Faults \in Nat /\ Faults' \in Nat /\ Faults' >= Faults
      /\ Crash \/ dbErrors' = dbErrors + 1 => Faults' >= Faults + 1
  BY FaultsGrow DEF Faults
<1>p. posts[i] \in Nat /\ posts'[i] \in Nat
  BY DEF TypeOK
<1>1. CASE i = nextId /\ CreateDelivery
  <2>1. ~Known(i) /\ UNCHANGED <<procs, posts>>
    BY <1>1 DEF Known, TypeOK, CreateDelivery, unchangedByApi
  <2>2. \A w \in Workers : procs'[w].stage # "idle" => procs'[w].id # i
    BY <2>1 DEF KnownIds, KnownCall
  <2>3. posts'[i] = 0
    BY <1>1, <2>1 DEF NewRowsUnposted, TypeOK, Ids
  <2>4. ClaimedOnce(i)'
    BY <2>2 DEF ClaimedOnce, Runs, Unsettled
  <2>5. PostsPaid(i)'
    <3>1. posts'[i] <= Faults' /\ posts'[i] <= 1 + Faults'
      <4>1. \A n \in Nat : 0 <= n /\ 0 <= 1 + n
        OBVIOUS
      <4> QED BY <1>f, <2>3, <4>1
    <3>2. ASSUME NEW w \in Workers, procs'[w].id = i PROVE procs'[w].stage = "idle"
      BY <2>2, <3>2
    <3> QED BY <3>1, <3>2 DEF PostsPaid, Early
  <2> QED BY <2>4, <2>5
<1>2. CASE EventRow(i) /\ i < nextId
  <2>1. PollOnly(i) /\ ClaimedOnce(i) /\ PostsPaid(i) /\ i # nextId
    BY <1>2 DEF EventsPollOnly, EventsPaid, Ids, TypeOK
  <2>2. ASSUME NEW w \in Workers, Runs(procs'[w], i)
        PROVE  \/ PollsIt(w, i)
               \/ /\ ProcStep(w) \/ SameRun(procs[w], procs'[w])
                  /\ Runs(procs[w], i) /\ procs'[w].polled = procs[w].polled
                  /\ Early(procs'[w]) => Early(procs[w])
    <3>1. SameRun(procs[w], procs'[w]) =>
             /\ Runs(procs[w], i) /\ procs'[w].polled = procs[w].polled
             /\ Early(procs'[w]) => Early(procs[w])
      BY <2>2 DEF SameRun, Runs, Unsettled, Early
    <3> QED BY <2>1, <2>2, <3>1, RunnerStep
  <2>3. ASSUME NEW w \in Workers, PollsIt(w, i) PROVE \A v \in Workers : ~Runs(procs[v], i)
    BY <2>1, <2>3 DEF ClaimedOnce, PollsIt
  <2>4. ASSUME NEW w \in Workers, Runs(procs[w], i) PROVE rows'[i].lock = "held"
    <3>1. rows[i].lock = "held" /\ rows[i] \in Row /\ procs[w].polled /\ procs[w].id = i
      BY <2>1, <2>4 DEF ClaimedOnce, TypeOK, Runs
    <3>2. ~LockExpires(i)
      BY <3>1 DEF LockExpires
    <3>3. rows'[i] # AbsentRow
      BY DEF EventRow, Live, AbsentRow
    <3>4. ASSUME NEW v \in Workers, SavedBy(v, i) PROVE rows'[i].lock = "held"
      <4>1. \A p : /\ Succeeded(rows[i]).lock = "held" /\ Failed(rows[i], p).lock = "held"
                   /\ Scheduled(rows[i], p).lock = "held"
        BY <3>1 DEF Succeeded, Failed, Scheduled, Row
      <4> QED BY <3>4, <4>1 DEF SavedBy
    <3>5. rows'[i] = [rows[i] EXCEPT !.lock = "held"] => rows'[i].lock = "held"
      BY <3>1 DEF Row
    <3> QED BY <2>1, <3>1, <3>2, <3>3, <3>4, <3>5, ChangedRow
  <2>5. ClaimedOnce(i)'
    <3>1. ASSUME NEW w \in Workers, Runs(procs'[w], i)
          PROVE  procs'[w].polled /\ rows'[i].lock = "held"
      <4>1. CASE PollsIt(w, i)
        BY <4>1 DEF PollsIt, Started, Call
      <4>2. CASE Runs(procs[w], i) /\ procs'[w].polled = procs[w].polled
        BY <2>1, <2>4, <4>2 DEF ClaimedOnce
      <4> QED BY <2>2, <3>1, <4>1, <4>2
    <3>2. ASSUME NEW v \in Workers, NEW w \in Workers, Runs(procs'[v], i), Runs(procs'[w], i)
          PROVE  v = w
      <4>1. CASE Runs(procs[v], i) /\ Runs(procs[w], i)
        BY <2>1, <4>1 DEF ClaimedOnce
      <4>2. ASSUME NEW u \in Workers, PollsIt(u, i) PROVE v = u /\ w = u
        BY <2>3, <3>2, <4>2 DEF PollsIt
      <4> QED BY <2>2, <3>2, <4>1, <4>2
    <3> QED BY <3>1, <3>2 DEF ClaimedOnce, Runs, Unsettled
  <2>6. ASSUME posts'[i] # posts[i]
        PROVE  /\ posts[i] <= Faults /\ posts'[i] = posts[i] + 1
               /\ \E w \in Workers : /\ Runs(procs[w], i) /\ Early(procs[w])
                                     /\ procs'[w].id = i /\ procs'[w].stage = "sending"
    <3>1. PICK w \in Workers : /\ procs[w].stage = "loaded" /\ procs[w].id = i
                               /\ procs'[w] = At(procs[w], "sending") /\ posts'[i] = posts[i] + 1
      BY <2>6, PostStep
    <3>2. procs'[w].id = i /\ procs'[w].stage = "sending"
      BY <3>1 DEF At, TypeOK, Proc
    <3> QED BY <2>1, <3>1, <3>2 DEF PostsPaid, Runs, Unsettled, Early
  <2>7. posts'[i] <= 1 + Faults'
    BY <1>f, <1>p, <2>1, <2>6 DEF PostsPaid
  <2>8. ASSUME NEW w \in Workers, procs'[w].id = i, Early(procs'[w]) PROVE posts'[i] <= Faults'
    <3>1. Runs(procs'[w], i)
      BY <2>8 DEF Runs, Early, Unsettled
    <3>2. CASE PollsIt(w, i)
      <4>1. \A v \in Workers : ~Runs(procs[v], i)
        BY <2>3, <3>2
      <4>2. posts[i] <= Faults
        BY <2>1, <3>2, <4>1 DEF PostsPaid, PollsIt, Runs, Posted, Unsettled
      <4> QED BY <1>f, <1>p, <2>6, <4>1, <4>2
    <3>3. CASE Runs(procs[w], i) /\ Early(procs[w])
      <4>1. posts[i] <= Faults
        BY <2>1, <3>3 DEF PostsPaid, Runs
      <4>2. posts'[i] = posts[i]
        BY <2>1, <2>6, <2>8, <3>3 DEF ClaimedOnce, Early
      <4> QED BY <1>f, <1>p, <4>1, <4>2
    <3> QED BY <2>2, <2>8, <3>1, <3>2, <3>3
  <2>9. rows'[i].status = "pending" => rows[i].status = "pending"
    <3>1. RowKept(rows[i], rows'[i])
      BY <1>2, RowsStep
    <3> QED BY <1>2, <3>1 DEF RowKept, EventRow, Live, TypeOK, Row, Statuses
  <2>10. ASSUME NEW w \in Workers, procs'[w].id = i, procs'[w].stage = "retrySaved"
         PROVE  rows'[i].status # "pending"
    <3>1. Runs(procs'[w], i)
      BY <2>10 DEF Runs, Unsettled
    <3>2. CASE SameRun(procs[w], procs'[w])
      BY <2>1, <2>9, <2>10, <3>2 DEF PostsPaid, SameRun
    <3>3. CASE ProcStep(w)
      BY <2>10, <3>3, RetrySavedClosed
    <3>4. CASE PollsIt(w, i)
      BY <2>10, <3>4 DEF PollsIt, Started, Call
    <3> QED BY <2>2, <3>1, <3>2, <3>3, <3>4
  <2>11. ASSUME rows'[i].status = "pending"
         PROVE  posts'[i] <= Faults' \/ \E w \in Workers : procs'[w].id = i /\ Posted(procs'[w])
    <3>1. CASE posts[i] <= Faults
      BY <1>f, <1>p, <2>6, <3>1 DEF Posted
    <3>2. ASSUME NEW w \in Workers, procs[w].id = i, Posted(procs[w])
          PROVE  posts'[i] <= Faults' \/ \E v \in Workers : procs'[v].id = i /\ Posted(procs'[v])
      <4>1. CASE procs'[w] = procs[w] \/ procs'[w] = Disowned(procs[w])
        <5>1. procs'[w].id = procs[w].id /\ procs'[w].stage = procs[w].stage
          BY <4>1, DisownedType DEF TypeOK
        <5> QED BY <3>2, <5>1 DEF Posted
      <4>2. ASSUME Faults' >= Faults + 1 PROVE posts'[i] <= Faults'
        <5>1. posts'[i] = posts[i]
          BY <2>1, <2>6, <3>2 DEF ClaimedOnce, Runs, Unsettled, Posted, Early
        <5> QED BY <1>f, <1>p, <2>1, <4>2, <5>1 DEF PostsPaid
      <4>3. CASE ProcStep(w)
        <5>1. Live(procs[w].id) /\ rows'[procs[w].id].status = "pending"
          BY <1>2, <2>11, <3>2 DEF EventRow
        <5>2. procs[w].stage # "retrySaved"
          BY <2>1, <2>9, <2>11, <3>2 DEF PostsPaid
        <5>3. CASE procs'[w].stage = "idle"
          BY <1>f, <3>2, <4>2, <4>3, <5>1, <5>3, EndsByFault
        <5>4. CASE procs'[w].stage # "idle"
          BY <3>2, <4>3, <5>1, <5>2, <5>4, PostedGoesOn
        <5> QED BY <5>3, <5>4
      <4>4. ~Starts(w) /\ ~Poll(w)
        BY <3>2 DEF Starts, Poll, Posted
      <4> QED BY <1>f, <4>1, <4>2, <4>3, <4>4, ChangedCall
    <3> QED BY <2>1, <2>9, <2>11, <3>1, <3>2 DEF PostsPaid
  <2>12. PostsPaid(i)'
    BY <2>7, <2>8, <2>10, <2>11 DEF PostsPaid, Early, Posted
  <2> QED BY <2>5, <2>12
<1> QED BY <1>1, <1>2, EventStep

PollInv == EventsPollOnly /\ NewRowsUnposted /\ EventsPaid

\* A row that only the poller runs is POSTed once, and once more at most for each fault,
\* when attempts are over before their claims expire (pollPendingDeliveries).
THEOREM PolledOnce == Spec => []PolledRowPostedOnce
<1>1. Init => PollInv
  BY DEF Init, PollInv, EventsPollOnly, NewRowsUnposted, EventsPaid, EventRow, Live, AbsentRow
<1>2. TypeOK /\ KnownIds /\ PollInv /\ [Next]_vars => PollInv'
  BY TypeInductive, PollOnlyInductive, UnpostedInductive, EventsPaidInductive DEF PollInv
<1>3. PollInv => PolledRowPostedOnce
  BY DEF PollInv, EventsPaid, PostsPaid, EventRow, PolledRowPostedOnce
<1> QED BY <1>1, <1>2, <1>3, TypeCorrect, PTL DEF Spec

-----------------------------------------------------------------------------
(* Statistics *)

Ended == {i \in Ids : rows[i].status = "success" \/ rows[i].error = "final"}
Settling == {w \in Workers : procs[w].stage \in {"succeeded", "failed"}}
Counts == webhook.successes + webhook.failures

\* A call closed its row, and its count is still owed.
Closes(w) ==
    /\ procs[w].stage \in {"succeeding", "failing"}
    /\ \E row : rows' = [rows EXCEPT ![procs[w].id] = row]
    /\ \E stage \in {"succeeded", "failed"} : Becomes(w, Settled(procs[w], stage))

LEMMA CountStep ==
    ASSUME TypeOK, [Next]_vars,
           ~\E w \in Workers : CountSuccess(w) \/ CountFailure(w)
    PROVE  Counts' = Counts
<1>1. webhook \in [exists : BOOLEAN, active : BOOLEAN, successes : Nat, failures : Nat]
  BY DEF TypeOK
<1>a. ASSUME UNCHANGED webhook PROVE Counts' = Counts
  BY <1>a DEF Counts
<1>2. CASE UpdateWebhook
  <2>1. PICK active \in BOOLEAN : webhook' = [webhook EXCEPT !.active = active]
    BY <1>2 DEF UpdateWebhook
  <2> QED BY <1>1, <2>1 DEF Counts
<1>3. CASE DeleteWebhook
  BY <1>1, <1>3 DEF DeleteWebhook, Counts
<1>4. ASSUME NEW w \in Workers, Deactivate(w) PROVE Counts' = Counts
  <2>1. UNCHANGED webhook \/ webhook' = [webhook EXCEPT !.active = FALSE]
    BY <1>4 DEF Deactivate
  <2> QED BY <1>1, <1>a, <2>1 DEF Counts
<1>5. ASSUME NEW w \in Workers,
             \/ RunTimer(w) \/ RunJob(w) \/ Poll(w) \/ Load(w) \/ ReadWebhook(w) \/ Respond(w)
             \/ SaveSuccess(w) \/ SaveFailed(w) \/ ScheduleRetry(w) \/ CreateRetry(w)
             \/ QueueRetry(w) \/ CheckHealth(w) \/ Stall(w)
      PROVE  UNCHANGED webhook
  BY <1>5 DEF Stall, RunTimer, RunJob, Poll, Load, ReadWebhook, Respond, SaveSuccess, SaveFailed,
              ScheduleRetry, CreateRetry, QueueRetry, CheckHealth
<1>6. CASE \/ FindWebhook \/ FindReplayed \/ CreateDelivery \/ QueueDelivery \/ CascadeDelete
           \/ BreakerCools \/ RedisLost \/ Crash \/ (\E i \in Ids : LockExpires(i))
           \/ UNCHANGED vars
  <2>1. UNCHANGED webhook
    BY <1>6 DEF FindWebhook, FindReplayed, CreateDelivery, QueueDelivery, CascadeDelete,
                BreakerCools, RedisLost, Crash, LockExpires, vars
  <2> QED BY <1>a, <2>1
<1> QED
  BY <1>a, <1>2, <1>3, <1>4, <1>5, <1>6 DEF Next, ProcStep

LEMMA OneMore ==
    ASSUME NEW S, NEW x, IsFiniteSet(S)
    PROVE  /\ IsFiniteSet(S \cup {x})
           /\ Cardinality(S \cup {x}) <= Cardinality(S) + 1
           /\ x \notin S => Cardinality(S \cup {x}) = Cardinality(S) + 1
<1>1. Cardinality(S) \in Nat
  BY FS_CardinalityType
<1>2. /\ IsFiniteSet(S \cup {x})
      /\ Cardinality(S \cup {x}) = IF x \in S THEN Cardinality(S) ELSE Cardinality(S) + 1
  BY FS_AddElement
<1>3. CASE x \in S
  BY <1>1, <1>2, <1>3
<1>4. CASE x \notin S
  BY <1>1, <1>2, <1>4
<1> QED BY <1>3, <1>4

LEMMA OneLess ==
    ASSUME NEW S, NEW x, IsFiniteSet(S)
    PROVE  /\ IsFiniteSet(S \ {x}) /\ Cardinality(S \ {x}) \in Nat
           /\ Cardinality(S) <= Cardinality(S \ {x}) + 1
<1>1. Cardinality(S) \in Nat
  BY FS_CardinalityType
<1>2. /\ IsFiniteSet(S \ {x})
      /\ Cardinality(S \ {x}) = IF x \in S THEN Cardinality(S) - 1 ELSE Cardinality(S)
  BY FS_RemoveElement
<1>3. Cardinality(S \ {x}) \in Nat
  BY <1>2, FS_CardinalityType
<1> QED BY <1>1, <1>2, <1>3

LEMMA WorkersFinite ==
    ASSUME NEW S, S \subseteq Workers PROVE IsFiniteSet(S) /\ Cardinality(S) \in Nat
BY WebhookAssumption, FS_Subset, FS_CardinalityType

LEMMA EndedCountedInductive ==
    ASSUME TypeOK, KnownIds, GoneInv, EndedRowsCounted, [Next]_vars
    PROVE  EndedRowsCounted'
<1> SUFFICES ASSUME crashes' + dbErrors' = 0, webhook'.exists
             PROVE  Cardinality(Ended') <= Counts' + Cardinality(Settling')
  BY DEF EndedRowsCounted, Faults, Ended, Settling, Counts
<1>1. /\ crashes + dbErrors = 0 /\ crashes' # crashes + 1 /\ dbErrors' # dbErrors + 1
      /\ webhook.exists /\ ~Crash
  BY FaultsGrow, NothingDeleted
<1>2. Cardinality(Ended) <= Counts + Cardinality(Settling)
  BY <1>1 DEF EndedRowsCounted, Faults, Ended, Settling, Counts
<1>3. /\ webhook \in [exists : BOOLEAN, active : BOOLEAN, successes : Nat, failures : Nat]
      /\ Counts \in Nat
  BY DEF TypeOK, Counts
<1>4. /\ IsFiniteSet(Ended) /\ Cardinality(Ended) \in Nat
      /\ IsFiniteSet(Ended') /\ Cardinality(Ended') \in Nat
      /\ IsFiniteSet(Settling) /\ Cardinality(Settling) \in Nat
      /\ IsFiniteSet(Settling') /\ Cardinality(Settling') \in Nat
  <2>1. Ended \subseteq Ids /\ Ended' \subseteq Ids /\ Settling \subseteq Workers /\ Settling' \subseteq Workers
    BY DEF Ended, Settling
  <2> QED BY <2>1, IdsFinite, WorkersFinite
<1>5. CASE \E w \in Workers : CountSuccess(w) \/ CountFailure(w)
  <2>1. PICK w \in Workers : CountSuccess(w) \/ CountFailure(w)
    BY <1>5
  <2>2. UNCHANGED rows /\ \E q : procs' = [procs EXCEPT ![w] = q]
    BY <2>1 DEF CountSuccess, CountFailure, Becomes, Finish
  <2>3. Counts' = Counts + 1
    <3>1. \/ webhook' = [webhook EXCEPT !.successes = @ + 1]
          \/ webhook' = [webhook EXCEPT !.failures = @ + 1]
      BY <1>1, <2>1 DEF CountSuccess, CountFailure, Counted, DbFault
    <3> QED BY <1>3, <3>1 DEF Counts
  <2>4. Ended' = Ended
    BY <2>2 DEF Ended
  <2>5. Settling \ {w} \subseteq Settling'
    BY <2>2 DEF Settling, TypeOK
  <2>6. PICK R : R = Settling \ {w}
    OBVIOUS
  <2>7. /\ IsFiniteSet(R) /\ Cardinality(R) \in Nat /\ Cardinality(Settling) <= Cardinality(R) + 1
    BY <1>4, <2>6, OneLess
  <2>8. Cardinality(R) <= Cardinality(Settling')
    BY <1>4, <2>5, <2>6, FS_Subset
  <2> QED BY <1>2, <1>3, <1>4, <2>3, <2>4, <2>7, <2>8
<1>6. ASSUME NEW w \in Workers, Closes(w),
             ~\E v \in Workers : CountSuccess(v) \/ CountFailure(v)
      PROVE  Cardinality(Ended') <= Counts' + Cardinality(Settling')
  <2>1. Counts' = Counts
    BY <1>6, CountStep
  <2>2. Ended' \subseteq Ended \cup {procs[w].id}
    <3>1. \A i \in Ids : i # procs[w].id => rows'[i] = rows[i]
      BY <1>6 DEF Closes, TypeOK
    <3> QED BY <3>1 DEF Ended
  <2>3. w \notin Settling /\ Settling \cup {w} \subseteq Settling'
    <3>1. w \notin Settling
      BY <1>6 DEF Closes, Settling
    <3>2. PICK stage \in {"succeeded", "failed"} : procs' = [procs EXCEPT ![w] = Settled(procs[w], stage)]
      BY <1>6 DEF Closes, Becomes
    <3>3. procs'[w].stage = stage /\ \A v \in Workers : v # w => procs'[v] = procs[v]
      BY <3>2 DEF TypeOK, Settled, Call
    <3> QED BY <3>1, <3>3 DEF Settling
  <2>4. PICK E, S : E = Ended \cup {procs[w].id} /\ S = Settling \cup {w}
    OBVIOUS
  <2>5. /\ IsFiniteSet(E) /\ Cardinality(E) <= Cardinality(Ended) + 1 /\ Cardinality(E) \in Nat
    <3>1. IsFiniteSet(E) /\ Cardinality(E) <= Cardinality(Ended) + 1
      <4>1. PICK i : i = procs[w].id
        OBVIOUS
      <4>2. IsFiniteSet(Ended \cup {i}) /\ Cardinality(Ended \cup {i}) <= Cardinality(Ended) + 1
        BY <1>4, OneMore
      <4> QED BY <2>4, <4>1, <4>2
    <3> QED BY <3>1, FS_CardinalityType
  <2>6. IsFiniteSet(S) /\ Cardinality(S) = Cardinality(Settling) + 1
    BY <1>4, <2>3, <2>4, OneMore
  <2>7. Cardinality(Ended') <= Cardinality(E)
    BY <2>2, <2>4, <2>5, FS_Subset
  <2>8. Cardinality(S) <= Cardinality(Settling')
    BY <1>4, <2>3, <2>4, FS_Subset
  <2> QED BY <1>2, <1>3, <1>4, <2>1, <2>5, <2>6, <2>7, <2>8
<1>7. CASE (\A w \in Workers : ~Closes(w)) /\ ~\E w \in Workers : CountSuccess(w) \/ CountFailure(w)
  <2>1. Counts' = Counts
    BY <1>7, CountStep
  <2>2. ASSUME NEW i \in Ids, i \in Ended', i \notin Ended PROVE FALSE
    <3>1. rows'[i] # rows[i] /\ (rows'[i].status = "success" \/ rows'[i].error = "final")
          /\ rows[i].status # "success" /\ rows[i].error # "final" /\ rows[i] \in Row
      BY <2>2 DEF Ended, TypeOK
    <3>2. rows'[i] # AbsentRow
      BY <3>1 DEF AbsentRow
    <3>3. ~Inserted(i)
      <4>1. \A kind, attempt, left, lock, prev :
               LET row == NewRow(kind, attempt, left, lock, prev)
               IN  row.status = "pending" /\ row.error = "none"
        BY DEF NewRow
      <4> QED BY <3>1, <4>1 DEF Inserted
    <3>4. \A lock : rows'[i] # [rows[i] EXCEPT !.lock = lock]
      BY <3>1 DEF Row
    <3>5. ASSUME NEW w \in Workers, SavedBy(w, i) PROVE Closes(w)
      <4>1. ~(rows'[i] = Scheduled(rows[i], procs[w]))
        <5>1. \A p : LET row == Scheduled(rows[i], p)
                     IN  row.status = "failed" /\ row.error = "retry_scheduled"
          BY <3>1 DEF Scheduled, Row
        <5> QED BY <3>1, <5>1
      <4>2. /\ SaveSuccess(w) \/ SaveFailed(w)
            /\ \E stage \in {"succeeded", "failed"} : Becomes(w, Settled(procs[w], stage))
        BY <3>5, <4>1 DEF SavedBy
      <4>3. \E row : rows' = [rows EXCEPT ![procs[w].id] = row]
        BY <3>1, <4>2 DEF SaveSuccess, SaveFailed, Saved, SaveThrows
      <4> QED BY <4>2, <4>3 DEF Closes, SaveSuccess, SaveFailed
    <3> QED BY <1>7, <3>1, <3>2, <3>3, <3>4, <3>5, ChangedRow
  <2>3. ASSUME NEW w \in Workers, w \in Settling PROVE w \in Settling'
    <3>1. procs[w].stage \in {"succeeded", "failed"}
      BY <2>3 DEF Settling
    <3>2. ~Starts(w) /\ ~Poll(w)
      BY <3>1 DEF Starts, Poll
    <3>3. ~ProcStep(w)
      BY <1>7, <3>1 DEF ProcStep, Load, ReadWebhook, Respond, SaveSuccess, SaveFailed, ScheduleRetry,
                        CreateRetry, QueueRetry, CheckHealth, Deactivate
    <3>4. procs'[w] = procs[w] \/ procs'[w] = Disowned(procs[w])
      BY <1>1, <3>2, <3>3, ChangedCall
    <3>5. procs'[w].stage = procs[w].stage
      BY <3>4, DisownedType DEF TypeOK
    <3> QED BY <3>1, <3>5 DEF Settling
  <2>4. Ended' \subseteq Ended /\ Settling \subseteq Settling'
    BY <2>2, <2>3 DEF Ended, Settling
  <2>5. Cardinality(Ended') <= Cardinality(Ended) /\ Cardinality(Settling) <= Cardinality(Settling')
    BY <1>4, <2>4, FS_Subset
  <2> QED BY <1>2, <1>3, <1>4, <2>1, <2>5
<1> QED BY <1>5, <1>6, <1>7

\* As long as nothing fails, every row that ended is in the statistics of its webhook or
\* will be counted by a call still running, whatever calls overwrite each other's status
\* (updateWebhookStats).
THEOREM StatsCountEveryEnd == Spec => []EndedRowsCounted
<1>1. Init => EndedRowsCounted
  <2> SUFFICES ASSUME Init PROVE EndedRowsCounted
    OBVIOUS
  <2>1. Ended = {} /\ Counts = 0
    BY DEF Init, Ended, Counts, AbsentRow
  <2>2. Cardinality(Ended) = 0
    BY <2>1, FS_EmptySet
  <2>3. Settling \subseteq Workers
    BY DEF Settling
  <2>4. Cardinality(Settling) \in Nat
    BY <2>3, WorkersFinite
  <2> QED BY <2>1, <2>2, <2>4 DEF EndedRowsCounted, Ended, Settling, Counts
<1>2. TypeOK /\ KnownIds /\ GoneInv /\ [Next]_vars => GoneInv'
  BY GoneInductive
<1>3. TypeOK /\ KnownIds /\ GoneInv /\ EndedRowsCounted /\ [Next]_vars => EndedRowsCounted'
  BY EndedCountedInductive
<1> QED BY <1>1, <1>2, <1>3, GoneInitial, TypeCorrect, PTL DEF Spec

-----------------------------------------------------------------------------
(* While Redis is up: events *)

\* No call has started for the row of an event, and it is as it was inserted.
EventUnsent(i) ==
    /\ rows[i].status = "pending" /\ posts[i] = 0
    /\ \A w \in Workers : procs[w].stage # "idle" => procs[w].id # i

EventsUnsent == \A i \in Ids : EventRow(i) => EventUnsent(i)

\* While the fallback is off, nothing runs the row of an event: nobody queues it, and
\* only the poller, which is part of the fallback, would find it.
LEMMA UnsentInductive ==
    ASSUME TypeOK, KnownIds, EventsPollOnly, NewRowsUnposted, EventsUnsent, [Next]_vars, ~fallback
    PROVE  EventsUnsent'
<1> SUFFICES ASSUME NEW i \in Ids, EventRow(i)' PROVE EventUnsent(i)'
  BY DEF EventsUnsent
<1>1. CASE i = nextId /\ CreateDelivery /\ creating.kind = "event"
  <2>1. ~Known(i) /\ UNCHANGED <<procs, posts>>
    BY <1>1 DEF Known, TypeOK, CreateDelivery, unchangedByApi
  <2>2. \A w \in Workers : procs[w].stage # "idle" => procs[w].id # i
    BY <2>1 DEF KnownIds, KnownCall
  <2>3. posts[i] = 0
    BY <1>1 DEF NewRowsUnposted, TypeOK, Ids
  <2>4. rows'[i].status = "pending"
    <3>1. rows'[i] # rows[i]
      BY <1>1 DEF EventRow, Live, KnownIds, TypeOK, Ids
    <3>2. rows'[i] # AbsentRow
      BY DEF EventRow, Live, AbsentRow
    <3>3. rows[i].status = "absent" /\ rows[i] \in Row
      BY <1>1 DEF KnownIds, TypeOK, Ids
    <3>4. /\ [rows[i] EXCEPT !.lock = "held"].status = "absent"
          /\ [rows[i] EXCEPT !.lock = "expired"].status = "absent"
      BY <3>3 DEF Row
    <3>5. ~\E w \in Workers : SavedBy(w, i)
      BY <3>3 DEF SavedBy
    <3>6. Inserted(i)
      BY <3>1, <3>2, <3>4, <3>5, ChangedRow DEF EventRow, Live
    <3>7. ASSUME NEW kind, NEW attempt, NEW left, NEW lock, NEW prev
          PROVE  NewRow(kind, attempt, left, lock, prev).status = "pending"
      BY DEF NewRow
    <3> QED BY <3>6, <3>7 DEF Inserted
  <2> QED BY <2>1, <2>2, <2>3, <2>4 DEF EventUnsent
<1>2. CASE EventRow(i) /\ i < nextId
  <2>1. PollOnly(i) /\ EventUnsent(i) /\ rows[i] \in Row
    BY <1>2 DEF EventsPollOnly, EventsUnsent, TypeOK
  <2>2. i # nextId
    BY <1>2 DEF Ids, TypeOK
  <2>3. ~\E w \in Workers : Poll(w)
    BY DEF Poll
  <2>4. ASSUME NEW w \in Workers, procs'[w].stage # "idle" PROVE procs'[w].id # i
    <3>1. CASE procs'[w] = procs[w]
      BY <2>1, <2>4, <3>1 DEF EventUnsent
    <3>2. CASE Starts(w)
      BY <2>1, <3>2 DEF Starts, Started, Call, PollOnly, Queued
    <3>3. CASE Crash
      BY <2>4, <3>3, IdleType DEF Crash
    <3>4. CASE ProcStep(w)
      <4>1. procs[w].stage # "idle"
        BY <2>4, <3>4, CallKeeps
      <4>2. \/ procs'[w].id = procs[w].id
            \/ procs[w].stage = "retryCreated" /\ procs'[w].id = procs[w].child
        BY <2>4, <3>4, CallKeeps
      <4> QED BY <2>1, <4>1, <4>2 DEF EventUnsent, PollOnly
    <3>5. CASE procs'[w] = Disowned(procs[w])
      BY <2>1, <2>4, <3>5, DisownedType DEF EventUnsent, TypeOK
    <3> QED BY <2>3, <3>1, <3>2, <3>3, <3>4, <3>5, ChangedCall
  <2>5. posts'[i] = 0
    <3>1. ASSUME posts'[i] # posts[i] PROVE FALSE
      <4>1. PICK w \in Workers : procs[w].stage = "loaded" /\ procs[w].id = i
        BY <3>1, PostStep
      <4> QED BY <2>1, <4>1 DEF EventUnsent
    <3> QED BY <2>1, <3>1 DEF EventUnsent
  <2>6. rows'[i].status = "pending"
    <3>1. rows[i].status = "pending"
      BY <2>1 DEF EventUnsent
    <3>2. rows'[i] # AbsentRow
      BY DEF EventRow, Live, AbsentRow
    <3>3. /\ [rows[i] EXCEPT !.lock = "held"].status = "pending"
          /\ [rows[i] EXCEPT !.lock = "expired"].status = "pending"
      BY <2>1, <3>1 DEF Row
    <3>4. ASSUME NEW w \in Workers, SavedBy(w, i) PROVE FALSE
      <4>1. procs[w].id = i /\ procs[w].stage # "idle"
        BY <3>4 DEF SavedBy, SaveSuccess, SaveFailed, ScheduleRetry
      <4> QED BY <2>1, <4>1 DEF EventUnsent
    <3> QED BY <2>2, <3>1, <3>2, <3>3, <3>4, ChangedRow
  <2> QED BY <2>4, <2>5, <2>6 DEF EventUnsent
<1> QED BY <1>1, <1>2, EventStep

\* processEvent inserts the row of an event and never queues it (webhook.service.ts:285).
\* While Redis is up, no event of any webhook is ever POSTed: its row stays pending
\* until the webhook is deleted.
THEOREM EventsNeverSent ==
    Spec /\ []~fallback
    => [](\A i \in Ids : EventRow(i) => rows[i].status = "pending" /\ posts[i] = 0)
<1>1. Init => EventsPollOnly /\ NewRowsUnposted /\ EventsUnsent
  BY DEF Init, EventsPollOnly, NewRowsUnposted, EventsUnsent, EventRow, Live, AbsentRow
<1>2. TypeOK /\ KnownIds /\ EventsPollOnly /\ NewRowsUnposted /\ EventsUnsent /\ [Next]_vars /\ ~fallback
      => EventsPollOnly' /\ NewRowsUnposted' /\ EventsUnsent'
  BY TypeInductive, PollOnlyInductive, UnpostedInductive, UnsentInductive
<1>3. EventsUnsent => \A i \in Ids : EventRow(i) => rows[i].status = "pending" /\ posts[i] = 0
  BY DEF EventsUnsent, EventUnsent
<1> QED BY <1>1, <1>2, <1>3, TypeCorrect, PTL DEF Spec

-----------------------------------------------------------------------------
(* While Redis is up: tests, replays and retries *)

\* A call that has not settled row i yet, or is about to queue it.
Waits(p, i) ==
    \/ p.id = i /\ p.stage \in {"start", "loaded", "sending", "succeeding", "scheduling", "failing"}
    \/ p.child = i /\ p.stage = "retryCreated"

Minded(i) == Queued(i) \/ \E w \in Workers : Waits(procs[w], i)

\* A pending row that is not an event's is on its way to be processed: no schedule of the
\* handlers, the jobs and the retries loses it, unless a fault does or deleteWebhook.
PendingMinded ==
    Faults = 0 /\ webhook.exists /\ ~fallback =>
        \A i \in Ids : rows[i].status = "pending" /\ rows[i].kind # "event" => Minded(i)

\* What it rests on: no row of the webhook is deleted, and so nothing feeds the breaker.
MindedInv ==
    /\ webhook.exists => \A i \in Ids : i < nextId => Live(i)
    /\ Faults = 0 /\ webhook.exists => dbFailures = 0
    /\ PendingMinded

LEMMA LiveInductive ==
    ASSUME TypeOK, KnownIds, GoneInv, [Next]_vars, MindedInv, webhook'.exists,
           NEW i \in Ids, i < nextId'
    PROVE  Live(i)'
<1>1. webhook.exists /\ RowGrows(rows[i], rows'[i])
  BY NothingDeleted
<1>2. CASE i < nextId
  BY <1>1, <1>2 DEF MindedInv, Live, RowGrows
<1>3. CASE ~(i < nextId)
  <2>1. nextId' # nextId
    BY <1>3
  <2>2. ASSUME NEW row, Insert(row), row.status = "pending" PROVE Live(i)'
    <3>1. rows' = [rows EXCEPT ![nextId] = row] /\ nextId' = nextId + 1 /\ nextId \in Ids
      BY <2>2 DEF Insert
    <3>2. i = nextId
      BY <1>3, <3>1 DEF Ids, TypeOK
    <3>3. rows'[i] = row
      BY <3>1, <3>2 DEF TypeOK
    <3> QED BY <2>2, <3>3 DEF Live
  <2>3. \A kind, attempt, left, lock, prev :
           NewRow(kind, attempt, left, lock, prev).status = "pending"
    BY DEF NewRow
  <2>4. CASE CreateDelivery
    BY <2>1, <2>2, <2>3, <2>4 DEF CreateDelivery
  <2>5. ASSUME NEW w \in Workers, CreateRetry(w) PROVE Live(i)'
    BY <2>1, <2>2, <2>3, <2>5 DEF CreateRetry
  <2>6. ASSUME NEW w \in Workers,
               \/ RunTimer(w) \/ RunJob(w) \/ Poll(w) \/ Load(w) \/ ReadWebhook(w) \/ Respond(w)
               \/ SaveSuccess(w) \/ SaveFailed(w) \/ ScheduleRetry(w) \/ QueueRetry(w)
               \/ CountSuccess(w) \/ CountFailure(w) \/ CheckHealth(w) \/ Deactivate(w)
               \/ Stall(w)
        PROVE  FALSE
    BY <2>1, <2>6 DEF Stall, RunTimer, RunJob, Poll, Load, ReadWebhook, Respond, SaveSuccess, SaveFailed,
                      ScheduleRetry, QueueRetry, CountSuccess, CountFailure, CheckHealth, Deactivate
  <2>7. CASE \/ FindWebhook \/ FindReplayed \/ QueueDelivery \/ UpdateWebhook \/ DeleteWebhook
             \/ CascadeDelete \/ BreakerCools \/ RedisLost \/ Crash
             \/ (\E k \in Ids : LockExpires(k)) \/ UNCHANGED vars
    BY <2>1, <2>7 DEF FindWebhook, FindReplayed, QueueDelivery, UpdateWebhook, DeleteWebhook,
                      CascadeDelete, BreakerCools, RedisLost, Crash, LockExpires, vars
  <2> QED BY <2>4, <2>5, <2>6, <2>7 DEF Next, ProcStep
<1> QED BY <1>2, <1>3

\* The document a call saves is there, and no operation throws.
LEMMA NothingThrows ==
    ASSUME TypeOK, KnownIds, MindedInv, webhook.exists, dbErrors' = dbErrors,
           NEW w \in Workers, procs[w].stage # "idle"
    PROVE  ~DbFault /\ ~SaveThrows(w)
<1>1. ~DbFault
  BY DEF DbFault, TypeOK
<1>2. Live(procs[w].id)
  <2>1. procs[w].id \in Nat /\ procs[w].id >= 1 /\ procs[w].id < nextId
    BY DEF KnownIds, KnownCall, Known, TypeOK, Proc
  <2>2. nextId <= MaxRows + 1 /\ MaxRows \in Nat /\ nextId \in Nat
    BY WebhookAssumption DEF TypeOK
  <2>3. procs[w].id \in Ids
    BY <2>1, <2>2 DEF Ids
  <2> QED BY <2>1, <2>3 DEF MindedInv
<1> QED BY <1>1, <1>2 DEF SaveThrows, Live

LEMMA BreakerInductive ==
    ASSUME TypeOK, KnownIds, GoneInv, [Next]_vars, MindedInv,
           crashes' + dbErrors' = 0, webhook'.exists
    PROVE  dbFailures' = 0
<1>1. Faults = 0 /\ dbErrors' = dbErrors /\ ~Crash
  BY FaultsGrow DEF Faults
<1>2. webhook.exists /\ dbFailures = 0
  BY <1>1, NothingDeleted DEF MindedInv
<1>3. ASSUME NEW w \in Workers, procs[w].stage # "idle" PROVE ~DbFault /\ ~SaveThrows(w)
  BY <1>1, <1>2, <1>3, NothingThrows
<1>4. ResetBreaker => dbFailures' = 0
  BY <1>2 DEF ResetBreaker, FailuresAsked
<1>5. ASSUME NEW w \in Workers, Load(w) PROVE dbFailures' = 0
  <2>1. procs[w].stage # "idle"
    BY <1>5 DEF Load
  <2> QED BY <1>2, <1>3, <1>4, <1>5, <2>1 DEF Load
<1>6. ASSUME NEW w \in Workers, ReadWebhook(w) PROVE dbFailures' = 0
  <2>1. procs[w].stage # "idle"
    BY <1>6 DEF ReadWebhook
  <2> QED BY <1>2, <1>3, <1>6, <2>1 DEF ReadWebhook
<1>7. ASSUME NEW w \in Workers, SaveSuccess(w) \/ SaveFailed(w) \/ ScheduleRetry(w) \/ CreateRetry(w)
      PROVE  dbFailures' = 0
  <2>1. procs[w].stage # "idle"
    BY <1>7 DEF SaveSuccess, SaveFailed, ScheduleRetry, CreateRetry
  <2>2. UNCHANGED dbFailures
    BY <1>3, <1>7, <2>1 DEF SaveSuccess, SaveFailed, ScheduleRetry, CreateRetry, Saved
  <2> QED BY <1>2, <2>2
<1>8. ASSUME NEW w \in Workers,
             \/ RunTimer(w) \/ RunJob(w) \/ Poll(w) \/ Respond(w) \/ QueueRetry(w)
             \/ CountSuccess(w) \/ CountFailure(w) \/ CheckHealth(w) \/ Deactivate(w)
             \/ Stall(w)
      PROVE  dbFailures' = 0
  BY <1>2, <1>8 DEF Stall, RunTimer, RunJob, Poll, Respond, QueueRetry, CountSuccess, CountFailure,
                    CheckHealth, Deactivate
<1>9. CASE \/ FindWebhook \/ FindReplayed \/ CreateDelivery \/ QueueDelivery \/ UpdateWebhook
           \/ DeleteWebhook \/ CascadeDelete \/ BreakerCools \/ RedisLost
           \/ (\E k \in Ids : LockExpires(k)) \/ UNCHANGED vars
  BY <1>2, <1>9 DEF FindWebhook, FindReplayed, CreateDelivery, QueueDelivery, UpdateWebhook,
                    DeleteWebhook, CascadeDelete, BreakerCools, RedisLost, LockExpires,
                    unchangedByApi, unchangedByProc, vars, memory
<1> QED BY <1>1, <1>5, <1>6, <1>7, <1>8, <1>9 DEF Next, ProcStep

\* What is queued stays queued until a call starts for it.
LEMMA QueuedUntilStarted ==
    ASSUME TypeOK, [Next]_vars, ~Crash, NEW i, Queued(i)
    PROVE  Queued(i)' \/ \E w \in Workers : Waits(procs'[w], i)
<1>a. ASSUME NEW w \in Workers, NEW k, NEW stalls, NEW polled, Becomes(w, Started(k, stalls, polled))
      PROVE  Waits(procs'[w], k)
  <2>1. procs'[w] = Started(k, stalls, polled)
    BY <1>a DEF Becomes, TypeOK
  <2>2. Started(k, stalls, polled).id = k /\ Started(k, stalls, polled).stage = "start"
    BY DEF Started, Call
  <2> QED BY <2>1, <2>2 DEF Waits
<1>b. ASSUME NEW k, Enqueue(k) PROVE Queued(k)' /\ jobs \subseteq jobs' /\ timers \subseteq timers'
  <2>1. \/ timers' = timers \cup {k} /\ jobs' = jobs
        \/ timers' = timers /\ jobs' = jobs \cup {[id |-> k, stalls |-> 0]}
    BY <1>b DEF Enqueue
  <2>2. k \in timers' \/ [id |-> k, stalls |-> 0] \in jobs'
    BY <2>1
  <2>3. [id |-> k, stalls |-> 0].id = k
    OBVIOUS
  <2>4. Queued(k)'
    BY <2>2, <2>3, Zenon DEF Queued
  <2> QED BY <2>1, <2>4
<1>0. CASE toQueue \subseteq toQueue' /\ timers \subseteq timers' /\ jobs \subseteq jobs'
  BY <1>0 DEF Queued
<1>1. CASE QueueDelivery
  <2>1. PICK k \in toQueue : /\ toQueue' = toQueue \ {k}
                             /\ \/ Enqueue(k)
                                \/ /\ jobs \subseteq jobs' /\ timers \subseteq timers'
                                   /\ \E w \in Workers : Becomes(w, Started(k, NoJob, FALSE))
    BY <1>1 DEF QueueDelivery, EnqueueThrows
  <2>2. Queued(k)' \/ \E w \in Workers : Waits(procs'[w], k)
    BY <1>a, <1>b, <2>1
  <2>3. i # k => Queued(i)'
    <3>1. jobs \subseteq jobs' /\ timers \subseteq timers'
      BY <1>b, <2>1
    <3> QED BY <2>1, <3>1 DEF Queued
  <2> QED BY <2>2, <2>3
<1>2. ASSUME NEW w \in Workers, RunTimer(w) PROVE Queued(i)' \/ \E v \in Workers : Waits(procs'[v], i)
  <2>1. PICK k \in timers : timers' = timers \ {k} /\ Becomes(w, Started(k, NoJob, FALSE))
    BY <1>2 DEF RunTimer
  <2>2. UNCHANGED <<toQueue, jobs>>
    BY <1>2 DEF RunTimer, unchangedByProc
  <2>3. i # k => Queued(i)'
    BY <2>1, <2>2 DEF Queued
  <2> QED BY <1>a, <2>1, <2>3
<1>3. ASSUME NEW w \in Workers, RunJob(w) PROVE Queued(i)' \/ \E v \in Workers : Waits(procs'[v], i)
  <2>1. PICK j \in jobs : jobs' = jobs \ {j} /\ Becomes(w, Started(j.id, j.stalls, FALSE))
    BY <1>3 DEF RunJob
  <2>2. UNCHANGED <<toQueue, timers>>
    BY <1>3 DEF RunJob, unchangedByProc
  <2>3. i # j.id => Queued(i)'
    BY <2>1, <2>2 DEF Queued
  <2> QED BY <1>a, <2>1, <2>3
<1>4. ASSUME NEW w \in Workers, QueueRetry(w)
      PROVE  toQueue \subseteq toQueue' /\ timers \subseteq timers' /\ jobs \subseteq jobs'
  <2>1. /\ UNCHANGED toQueue
        /\ Enqueue(procs[w].child) \/ (jobs \subseteq jobs' /\ timers \subseteq timers')
    BY <1>4 DEF QueueRetry, EnqueueThrows
  <2> QED BY <1>b, <2>1
<1>5. CASE CreateDelivery
  BY <1>0, <1>5 DEF CreateDelivery, unchangedByApi
<1>6. ASSUME NEW w \in Workers,
             \/ Poll(w) \/ Load(w) \/ ReadWebhook(w) \/ Respond(w)
             \/ SaveSuccess(w) \/ SaveFailed(w) \/ ScheduleRetry(w) \/ CreateRetry(w)
             \/ CountSuccess(w) \/ CountFailure(w) \/ CheckHealth(w) \/ Deactivate(w)
      PROVE  UNCHANGED <<toQueue, timers, jobs>>
  BY <1>6 DEF Poll, Load, ReadWebhook, Respond, SaveSuccess, SaveFailed, ScheduleRetry,
              CreateRetry, CountSuccess, CountFailure, CheckHealth, Deactivate, unchangedByProc
<1>7. CASE \/ FindWebhook \/ FindReplayed \/ UpdateWebhook \/ DeleteWebhook \/ CascadeDelete
           \/ BreakerCools \/ RedisLost \/ (\E k \in Ids : LockExpires(k)) \/ UNCHANGED vars
  <2>1. UNCHANGED <<toQueue, timers, jobs>>
    BY <1>7 DEF FindWebhook, FindReplayed, UpdateWebhook, DeleteWebhook, CascadeDelete,
                BreakerCools, RedisLost, LockExpires, unchangedByApi, unchangedByProc, vars, memory
  <2> QED BY <1>0, <2>1
<1>8. ASSUME NEW w \in Workers, Stall(w)
      PROVE  toQueue \subseteq toQueue' /\ timers \subseteq timers' /\ jobs \subseteq jobs'
  BY <1>8 DEF Stall
<1> QED
  BY <1>0, <1>1, <1>2, <1>3, <1>4, <1>5, <1>6, <1>7, <1>8 DEF Next, ProcStep

\* A call that minds a row minds it until it has settled it, or has queued it.
LEMMA WaitGoesOn ==
    ASSUME TypeOK, KnownIds, MindedInv, webhook.exists, dbErrors' = dbErrors, dbFailures = 0,
           NEW w \in Workers, ProcStep(w), NEW i \in Ids, Waits(procs[w], i),
           rows[i].status = "pending", rows'[i].status = "pending"
    PROVE  Queued(i)' \/ Waits(procs'[w], i)
<1> DEFINE p == procs[w]
           q == procs'[w]
<1>0. p \in Proc /\ p.stage # "idle"
  BY DEF Waits, TypeOK
<1>a. ASSUME NEW r, Becomes(w, r) PROVE q = r
  BY <1>a DEF Becomes, TypeOK
<1>b. ~DbFault /\ ~SaveThrows(w)
  BY <1>0, NothingThrows
<1>c. ASSUME NEW row, Saved(w, row, q) \/ (\E call : Saved(w, row, call)), row.status # "pending", p.id = i
      PROVE  FALSE
  <2>1. rows' = [rows EXCEPT ![i] = row]
    BY <1>c DEF Saved
  <2> QED BY <1>c, <2>1 DEF TypeOK
<1>1. CASE Load(w)
  <2>1. p.stage = "start" /\ p.id = i
    BY <1>1 DEF Load, Waits
  <2>2. ~BreakerOpen
    BY WebhookAssumption DEF BreakerOpen
  <2>3. q = Holding(p, rows[i])
    BY <1>a, <1>b, <1>1, <2>1, <2>2 DEF Load
  <2>4. q.stage = "loaded" /\ q.id = p.id
    BY <1>0, <2>3 DEF Holding, Proc
  <2> QED BY <2>1, <2>4 DEF Waits
<1>2. CASE ReadWebhook(w)
  <2>1. p.stage = "loaded" /\ p.id = i
    BY <1>2 DEF ReadWebhook, Waits
  <2>2. \E stage \in {"failing", "sending"} : q = At(p, stage)
    BY <1>a, <1>b, <1>2 DEF ReadWebhook
  <2>3. q.stage \in {"failing", "sending"} /\ q.id = p.id
    BY <1>0, <2>2 DEF At, Proc
  <2> QED BY <2>1, <2>3 DEF Waits
<1>3. CASE Respond(w)
  <2>1. p.stage = "sending" /\ p.id = i
    BY <1>3 DEF Respond, Waits
  <2>2. PICK answer : q = Answered(p, answer)
    BY <1>a, <1>3 DEF Respond
  <2>3. q.stage \in {"succeeding", "scheduling", "failing"} /\ q.id = p.id
    BY <1>0, <2>2, AnsweredType
  <2> QED BY <2>1, <2>3 DEF Waits
<1>4. CASE SaveSuccess(w) \/ SaveFailed(w) \/ ScheduleRetry(w)
  <2>1. p.id = i
    BY <1>4 DEF SaveSuccess, SaveFailed, ScheduleRetry, Waits
  <2>2. rows[i] \in Row
    BY DEF TypeOK
  <2>3. /\ Succeeded(rows[i]).status # "pending"
        /\ Failed(rows[i], p).status # "pending"
        /\ Scheduled(rows[i], p).status # "pending"
    BY <2>2 DEF Succeeded, Failed, Scheduled, Row
  <2>4. \/ \E call : Saved(w, Succeeded(rows[i]), call)
        \/ \E call : Saved(w, Failed(rows[i], p), call)
        \/ \E call : Saved(w, Scheduled(rows[i], p), call)
    BY <1>b, <1>4, <2>1 DEF SaveSuccess, SaveFailed, ScheduleRetry
  <2> QED BY <1>c, <2>1, <2>3, <2>4
<1>5. CASE CreateRetry(w) \/ CountSuccess(w) \/ CountFailure(w) \/ CheckHealth(w) \/ Deactivate(w)
  BY <1>5 DEF CreateRetry, CountSuccess, CountFailure, CheckHealth, Deactivate, Waits
<1>6. CASE QueueRetry(w)
  <2>1. p.stage = "retryCreated" /\ p.child = i
    BY <1>6 DEF QueueRetry, Waits
  <2>2. CASE Enqueue(p.child)
    <3>1. i \in timers' \/ [id |-> i, stalls |-> 0] \in jobs'
      BY <2>1, <2>2 DEF Enqueue
    <3>2. [id |-> i, stalls |-> 0].id = i
      OBVIOUS
    <3> QED BY <3>1, <3>2, Zenon DEF Queued
  <2>3. CASE Becomes(w, RetryInPlace(p))
    <3>1. q = RetryInPlace(p)
      BY <1>a, <2>3
    <3>2. q.stage = "start" /\ q.id = p.child
      BY <3>1 DEF RetryInPlace, Call
    <3> QED BY <2>1, <3>2 DEF Waits
  <2> QED BY <1>6, <2>2, <2>3 DEF QueueRetry
<1> QED BY <1>1, <1>2, <1>3, <1>4, <1>5, <1>6 DEF ProcStep

LEMMA MindedInductive ==
    ASSUME TypeOK, KnownIds, GoneInv, MindedInv, [Next]_vars
    PROVE  MindedInv'
<1>1. webhook'.exists => \A i \in Ids : i < nextId' => Live(i)'
  BY LiveInductive
<1>2. Faults' = 0 /\ webhook'.exists => dbFailures' = 0
  BY BreakerInductive DEF Faults
<1>3. ASSUME crashes' + dbErrors' = 0, webhook'.exists, ~fallback', NEW i \in Ids,
             rows'[i].status = "pending", rows'[i].kind # "event"
      PROVE  Minded(i)'
  <2>1. Faults = 0 /\ dbErrors' = dbErrors /\ ~Crash
    BY <1>3, FaultsGrow DEF Faults
  <2>2. webhook.exists /\ dbFailures = 0
    BY <1>3, <2>1, NothingDeleted DEF MindedInv
  <2>3. ~fallback
    <3>1. ASSUME NEW w \in Workers, RunTimer(w) \/ RunJob(w) \/ Poll(w) \/ ProcStep(w) \/ Stall(w)
          PROVE  UNCHANGED fallback
      BY <3>1 DEF Stall, RunTimer, RunJob, Poll, ProcStep, Load, ReadWebhook, Respond, SaveSuccess,
                  SaveFailed, ScheduleRetry, CreateRetry, QueueRetry, CountSuccess, CountFailure,
                  CheckHealth, Deactivate, unchangedByProc
    <3>2. CASE \/ FindWebhook \/ FindReplayed \/ CreateDelivery \/ QueueDelivery \/ UpdateWebhook
               \/ DeleteWebhook \/ CascadeDelete \/ BreakerCools
               \/ (\E k \in Ids : LockExpires(k)) \/ UNCHANGED vars
      BY <1>3, <3>2 DEF FindWebhook, FindReplayed, CreateDelivery, QueueDelivery, UpdateWebhook,
                  DeleteWebhook, CascadeDelete, BreakerCools, LockExpires,
                  unchangedByApi, unchangedByProc, vars
    <3>3. ~RedisLost
      BY <1>3 DEF RedisLost
    <3> QED BY <1>3, <2>1, <3>1, <3>2, <3>3 DEF Next
  <2>4. CASE rows[i].status = "pending" /\ rows[i].kind # "event"
    <3>1. Minded(i)
      BY <2>1, <2>2, <2>3, <2>4 DEF MindedInv, PendingMinded
    <3>2. CASE Queued(i)
      BY <2>1, <3>2, QueuedUntilStarted DEF Minded
    <3>3. ASSUME NEW w \in Workers, Waits(procs[w], i) PROVE Minded(i)'
      <4>1. procs[w].stage # "idle"
        BY <3>3 DEF Waits
      <4>2. CASE procs'[w] = procs[w]
        BY <3>3, <4>2 DEF Minded, Waits
      <4>3. CASE ProcStep(w)
        <5>1. Queued(i)' \/ Waits(procs'[w], i)
          BY <1>3, <2>1, <2>2, <2>4, <3>3, <4>3, WaitGoesOn
        <5> QED BY <5>1 DEF Minded, Waits
      <4>4. ~Starts(w) /\ ~Poll(w)
        BY <4>1 DEF Starts, Poll
      <4>5. CASE procs'[w] = Disowned(procs[w])
        <5>1. Waits(procs'[w], i)
          BY <3>3, <4>5, DisownedType DEF Waits, TypeOK
        <5> QED BY <5>1 DEF Minded
      <4> QED BY <2>1, <4>2, <4>3, <4>4, <4>5, ChangedCall
    <3> QED BY <3>1, <3>2, <3>3 DEF Minded
  <2>5. CASE ~(rows[i].status = "pending" /\ rows[i].kind # "event")
    <3>1. rows'[i] # rows[i] /\ rows[i] \in Row
      BY <1>3, <2>5 DEF TypeOK
    <3>2. rows'[i] # AbsentRow
      BY <1>3 DEF AbsentRow
    <3>3. /\ [rows[i] EXCEPT !.lock = "held"].status = rows[i].status
          /\ [rows[i] EXCEPT !.lock = "held"].kind = rows[i].kind
          /\ [rows[i] EXCEPT !.lock = "expired"].status = rows[i].status
          /\ [rows[i] EXCEPT !.lock = "expired"].kind = rows[i].kind
      BY <3>1 DEF Row
    <3>4. ASSUME NEW w \in Workers PROVE ~SavedBy(w, i)
      <4>1. /\ Succeeded(rows[i]).status # "pending"
            /\ Failed(rows[i], procs[w]).status # "pending"
            /\ Scheduled(rows[i], procs[w]).status # "pending"
        BY <3>1 DEF Succeeded, Failed, Scheduled, Row
      <4> QED BY <1>3, <4>1 DEF SavedBy
    <3>5. i = nextId /\ Inserted(i)
      BY <1>3, <2>5, <3>1, <3>2, <3>3, <3>4, ChangedRow
    <3>6. \A kind, attempt, left, lock, prev : NewRow(kind, attempt, left, lock, prev).kind = kind
      BY DEF NewRow
    <3>7. CASE CreateDelivery /\ rows'[i] = NewRow(creating.kind, 1, creating.left, creating.lock, 0)
      <4>1. creating.kind # "event"
        BY <1>3, <3>6, <3>7
      <4>2. UNCHANGED rows \/ toQueue' = toQueue \cup {nextId}
        BY <3>7, <4>1 DEF CreateDelivery
      <4> QED BY <3>1, <3>5, <4>2 DEF Minded, Queued
    <3>8. ASSUME NEW w \in Workers, CreateRetry(w) PROVE Minded(i)'
      <4>1. Becomes(w, WithRetry(procs[w], nextId))
        BY <3>1, <3>8 DEF CreateRetry
      <4>2. procs'[w] = WithRetry(procs[w], nextId) /\ procs[w] \in Proc
        BY <4>1 DEF Becomes, TypeOK
      <4>3. procs'[w].stage = "retryCreated" /\ procs'[w].child = nextId
        BY <4>2 DEF WithRetry, Proc
      <4> QED BY <3>5, <4>3 DEF Minded, Waits
    <3> QED BY <3>5, <3>7, <3>8 DEF Inserted
  <2> QED BY <2>4, <2>5
<1>4. PendingMinded'
  BY <1>3 DEF PendingMinded, Faults
<1> QED BY <1>1, <1>2, <1>4 DEF MindedInv

\* Tests, replays and retries are not lost: while Redis is up and nothing has failed, a row
\* that is pending is queued, being processed, or about to be queued by the call that
\* inserted it (queueDelivery, scheduleRetry).
THEOREM NothingPendingIsLost == Spec => []PendingMinded
<1>1. Init => MindedInv
  BY DEF Init, MindedInv, PendingMinded, AbsentRow, Ids
<1>2. TypeOK /\ KnownIds /\ GoneInv /\ [Next]_vars => GoneInv'
  BY GoneInductive
<1>3. TypeOK /\ KnownIds /\ GoneInv /\ MindedInv /\ [Next]_vars => MindedInv'
  BY MindedInductive
<1>4. MindedInv => PendingMinded
  BY DEF MindedInv
<1> QED BY <1>1, <1>2, <1>3, <1>4, GoneInitial, TypeCorrect, PTL DEF Spec

-----------------------------------------------------------------------------
(* While Redis is up: how often a delivery is POSTed *)

\* The calls that have yet to POST row i, the calls whose job BullMQ may run again, and
\* the jobs of the row, as 0 or 1: those never run, and those that stalled once.
Starting(i) == {w \in Workers : procs[w].id = i /\ Early(procs[w])}
Stallable(i) == {w \in Workers : /\ procs[w].stage # "idle"
                                 /\ procs[w].job = i /\ procs[w].stalls = 0}
Waiting(i, stalls) == IF \E j \in jobs : j.id = i /\ j.stalls = stalls THEN 1 ELSE 0

\* The POSTs of row i so far, with those that are on their way, or that could be, are paid
\* for by faults, and never more than three: a job may be run once and once again, and its
\* row be processed by the handler that lost the reply to the add.
PostsLimit(sent, calls, owners, fresh, stalled, faults) ==
    /\ sent + calls + fresh + stalled <= 1 + faults
    /\ sent + calls + owners + fresh + fresh + stalled <= 3

PostsLimited(i) ==
    PostsLimit(posts[i], Cardinality(Starting(i)), Cardinality(Stallable(i)),
               Waiting(i, 0), Waiting(i, 1), crashes + jobFaults)

\* Until it is queued, once, nothing can have POSTed a row.
Untouched(i) ==
    /\ posts[i] = 0
    /\ \A j \in jobs : j.id # i
    /\ \A w \in Workers : procs[w].stage # "idle" => procs[w].id # i /\ procs[w].job # i

Queues(p, i) == p.stage = "retryCreated" /\ p.child = i

QueuedOnce(i) ==
    /\ i \in toQueue => Untouched(i) /\ \A w \in Workers : ~Queues(procs[w], i)
    /\ \A w \in Workers : Queues(procs[w], i) =>
          /\ Untouched(i) /\ i \notin toQueue
          /\ \A v \in Workers : Queues(procs[v], i) => v = w

LimitInv ==
    /\ timers = {}
    /\ \A i \in Ids : PostsLimited(i) /\ QueuedOnce(i)

\* Nothing knows a row that was not inserted.
LEMMA NextIsUnknown ==
    ASSUME TypeOK, KnownIds, NewRowsUnposted, nextId \in Ids
    PROVE  /\ nextId \notin toQueue /\ Untouched(nextId)
           /\ \A w \in Workers : ~Queues(procs[w], nextId)
<1>1. ~Known(nextId) /\ nextId >= nextId
  BY DEF Known, TypeOK, Ids
<1>2. \A w \in Workers : /\ procs[w].stage # "idle" => procs[w].id # nextId /\ procs[w].job # nextId
                         /\ ~Queues(procs[w], nextId)
  BY <1>1 DEF KnownIds, KnownCall, Queues
<1>3. nextId \notin toQueue /\ \A j \in jobs : j.id # nextId
  BY <1>1 DEF KnownIds
<1> QED BY <1>1, <1>2, <1>3 DEF NewRowsUnposted, Untouched

LEMMA WaitingType == ASSUME NEW i, NEW s PROVE Waiting(i, s) \in {0, 1}
BY DEF Waiting

\* A set of calls to which one call comes, or which it leaves.
LEMMA OneMoved ==
    ASSUME NEW S, NEW T, S \subseteq Workers, T \subseteq Workers, NEW w \in Workers,
           \A v \in Workers : v # w => (v \in S <=> v \in T)
    PROVE  /\ Cardinality(S) \in Nat /\ Cardinality(T) \in Nat
           /\ (w \in S <=> w \in T) => Cardinality(T) = Cardinality(S)
           /\ w \notin S /\ w \in T => Cardinality(T) = Cardinality(S) + 1
           /\ w \in S /\ w \notin T => Cardinality(S) = Cardinality(T) + 1
<1>1. /\ IsFiniteSet(S) /\ Cardinality(S) \in Nat
      /\ IsFiniteSet(T) /\ Cardinality(T) \in Nat
  BY WorkersFinite
<1>2. ASSUME w \in S <=> w \in T PROVE Cardinality(T) = Cardinality(S)
  <2>1. S = T
    BY <1>2
  <2> QED BY <2>1
<1>3. ASSUME w \notin S, w \in T PROVE Cardinality(T) = Cardinality(S) + 1
  <2>1. T = S \cup {w}
    BY <1>3
  <2> QED BY <1>1, <1>3, <2>1, OneMore
<1>4. ASSUME w \in S, w \notin T PROVE Cardinality(S) = Cardinality(T) + 1
  <2>1. S = T \cup {w}
    BY <1>4
  <2> QED BY <1>1, <1>4, <2>1, OneMore
<1> QED BY <1>1, <1>2, <1>3, <1>4

\* When one call changes.
LEMMA CallMoved ==
    ASSUME NEW w \in Workers, \A v \in Workers : v # w => procs'[v] = procs[v], NEW i
    PROVE  LET a == Cardinality(Starting(i))
               b == Cardinality(Stallable(i))
           IN  /\ a \in Nat /\ b \in Nat /\ a' \in Nat /\ b' \in Nat
               /\ (w \in Starting(i) <=> w \in Starting(i)') => a' = a
               /\ w \notin Starting(i) /\ w \in Starting(i)' => a' = a + 1
               /\ w \in Starting(i) /\ w \notin Starting(i)' => a = a' + 1
               /\ (w \in Stallable(i) <=> w \in Stallable(i)') => b' = b
               /\ w \notin Stallable(i) /\ w \in Stallable(i)' => b' = b + 1
               /\ w \in Stallable(i) /\ w \notin Stallable(i)' => b = b' + 1
<1>1. PICK S, T : S = Starting(i) /\ T = Starting(i)'
  OBVIOUS
<1>2. PICK U, V : U = Stallable(i) /\ V = Stallable(i)'
  OBVIOUS
<1>3. /\ S \subseteq Workers /\ T \subseteq Workers
      /\ \A v \in Workers : v # w => (v \in S <=> v \in T)
  BY <1>1 DEF Starting
<1>4. /\ U \subseteq Workers /\ V \subseteq Workers
      /\ \A v \in Workers : v # w => (v \in U <=> v \in V)
  BY <1>2 DEF Stallable
<1> QED BY <1>1, <1>2, <1>3, <1>4, OneMoved

LEMMA LimitTypes ==
    ASSUME TypeOK, NEW i \in Ids
    PROVE  /\ posts[i] \in Nat /\ crashes \in Nat /\ jobFaults \in Nat
           /\ \A j \in jobs : j = [id |-> j.id, stalls |-> j.stalls] /\ j.stalls \in {0, 1}
           /\ \A w \in Workers : procs[w] \in Proc
BY DEF TypeOK, Job

LEMMA UntouchedCounts ==
    ASSUME TypeOK, NEW i \in Ids, Untouched(i)
    PROVE  /\ posts[i] = 0 /\ Cardinality(Starting(i)) = 0 /\ Cardinality(Stallable(i)) = 0
           /\ Waiting(i, 0) = 0 /\ Waiting(i, 1) = 0
<1>1. Starting(i) = {} /\ Stallable(i) = {}
  BY DEF Untouched, Starting, Stallable, Early
<1>2. Cardinality(Starting(i)) = 0 /\ Cardinality(Stallable(i)) = 0
  BY <1>1, FS_EmptySet
<1>3. posts[i] = 0 /\ \A s : Waiting(i, s) = 0
  BY DEF Untouched, Waiting
<1> QED BY <1>2, <1>3

LEMMA WaitingMore ==
    ASSUME NEW k, NEW s, jobs' = jobs \cup {[id |-> k, stalls |-> s]}, NEW i, NEW t
    PROVE  /\ k = i /\ s = t => Waiting(i, t)' = 1
           /\ ~(k = i /\ s = t) => Waiting(i, t)' = Waiting(i, t)
<1>1. PICK job : job = [id |-> k, stalls |-> s]
  OBVIOUS
<1>2. job.id = k /\ job.stalls = s /\ jobs' = jobs \cup {job}
  BY <1>1
<1>3. (\E j \in jobs' : j.id = i /\ j.stalls = t)
      <=> (\E j \in jobs : j.id = i /\ j.stalls = t) \/ (k = i /\ s = t)
  BY <1>2
<1> QED BY <1>3 DEF Waiting

LEMMA WaitingLess ==
    ASSUME TypeOK, NEW j \in jobs, jobs' = jobs \ {j}, NEW i, NEW t
    PROVE  /\ j.id = i /\ j.stalls = t => Waiting(i, t) = 1 /\ Waiting(i, t)' = 0
           /\ ~(j.id = i /\ j.stalls = t) => Waiting(i, t)' = Waiting(i, t)
<1>1. \A k \in jobs : k = [id |-> k.id, stalls |-> k.stalls]
  BY DEF TypeOK, Job
<1>2. CASE j.id = i /\ j.stalls = t
  <2>1. \A k \in jobs : k.id = i /\ k.stalls = t => k = j
    BY <1>1, <1>2
  <2> QED BY <1>2, <2>1 DEF Waiting
<1>3. CASE ~(j.id = i /\ j.stalls = t)
  <2>1. (\E k \in jobs' : k.id = i /\ k.stalls = t) <=> (\E k \in jobs : k.id = i /\ k.stalls = t)
    BY <1>3
  <2> QED BY <1>3, <2>1 DEF Waiting
<1> QED BY <1>2, <1>3

\* Queueing a row, by the handler of its creation or by the call that retries: it becomes
\* a job, or is processed in place, or both when the add's reply is lost.
LEMMA LimitQueued ==
    ASSUME TypeOK, TypeOK', NEW i \in Ids, PostsLimited(i), ~fallback, NEW k, k = i => Untouched(i),
           UNCHANGED <<posts, crashes>>,
           NEW a \in Nat, NEW b \in Nat, NEW c \in Nat, NEW d \in Nat,
           a = Cardinality(Starting(i)), b = Cardinality(Stallable(i)),
           c = Cardinality(Starting(i)'), d = Cardinality(Stallable(i)'), d <= b,
           \/ Enqueue(k) /\ UNCHANGED jobFaults /\ c = a
           \/ EnqueueThrows(k) /\ (c = a \/ (k = i /\ c = a + 1))
    PROVE  PostsLimited(i)'
<1>1. PICK n, e, f : /\ n = posts[i] /\ e = crashes + jobFaults /\ f = crashes' + jobFaults'
                     /\ n \in Nat /\ e \in Nat /\ f \in Nat
  BY DEF TypeOK
<1>2. PICK x, y, u, v : /\ x = Waiting(i, 0) /\ y = Waiting(i, 1)
                        /\ u = Waiting(i, 0)' /\ v = Waiting(i, 1)'
                        /\ x \in {0, 1} /\ y \in {0, 1} /\ u \in {0, 1} /\ v \in {0, 1}
  BY WaitingType DEF Waiting
<1>3. PostsLimit(n, a, b, x, y, e)
  BY <1>1, <1>2 DEF PostsLimited
<1>4. \/ jobs' = jobs /\ f = e
      \/ jobs' = jobs \cup {[id |-> k, stalls |-> 0]} /\ f = e /\ c = a
      \/ jobs' = jobs \cup {[id |-> k, stalls |-> 0]} /\ f = e + 1
  <2>1. CASE Enqueue(k) /\ UNCHANGED jobFaults /\ c = a
    BY <1>1, <2>1 DEF Enqueue
  <2>2. CASE EnqueueThrows(k) /\ UNCHANGED jobFaults
    BY <1>1, <2>2 DEF EnqueueThrows, JobFault, TypeOK
  <2>3. CASE EnqueueThrows(k) /\ JobFault
    BY <1>1, <2>3 DEF EnqueueThrows, JobFault, TypeOK
  <2> QED BY <2>1, <2>2, <2>3 DEF EnqueueThrows
<1>5. \/ u = x /\ v = y /\ f = e
      \/ (IF k = i THEN u = 1 ELSE u = x) /\ v = y /\ f = e /\ c = a
      \/ (IF k = i THEN u = 1 ELSE u = x) /\ v = y /\ f = e + 1
  <2>1. CASE jobs' = jobs /\ f = e
    BY <1>2, <2>1 DEF Waiting
  <2>2. CASE /\ jobs' = jobs \cup {[id |-> k, stalls |-> 0]}
             /\ (f = e /\ c = a) \/ f = e + 1
    <3>1. (IF k = i THEN u = 1 ELSE u = x) /\ v = y
      BY <1>2, <2>2, WaitingMore
    <3> QED BY <2>2, <3>1
  <2> QED BY <1>4, <2>1, <2>2
<1>6. k = i => n = 0 /\ a = 0 /\ b = 0 /\ x = 0 /\ y = 0
  BY <1>1, <1>2, UntouchedCounts
<1>7. PostsLimit(n, c, d, u, v, f)
  <2>1. CASE k = i
    <3>1. c \in {0, 1} /\ d = 0
      BY <1>6, <2>1
    <3> QED BY <1>1, <1>2, <1>5, <1>6, <2>1, <3>1 DEF PostsLimit
  <2>2. CASE k # i
    BY <1>1, <1>2, <1>3, <1>5, <2>2 DEF PostsLimit
  <2> QED BY <2>1, <2>2
<1> QED BY <1>1, <1>2, <1>7 DEF PostsLimited

\* A job starts: what it was allowed goes over to its call.
LEMMA LimitRunJob ==
    ASSUME TypeOK, NEW i \in Ids, PostsLimited(i), NEW w \in Workers, RunJob(w)
    PROVE  PostsLimited(i)'
<1>1. PICK j \in jobs : /\ jobs' = jobs \ {j} /\ Becomes(w, Started(j.id, j.stalls, FALSE))
                        /\ procs[w].stage = "idle" /\ UNCHANGED <<posts, crashes, jobFaults>>
  BY DEF RunJob, unchangedByProc
<1>2. PICK k, s : k = j.id /\ s = j.stalls /\ s \in {0, 1}
  BY LimitTypes
<1>3. /\ procs'[w] = Started(k, s, FALSE) /\ \A v \in Workers : v # w => procs'[v] = procs[v]
      /\ Started(k, s, FALSE).id = k /\ Started(k, s, FALSE).job = k
      /\ Started(k, s, FALSE).stalls = s /\ Started(k, s, FALSE).stage = "start"
  BY <1>1, <1>2 DEF Becomes, TypeOK, Started, Call
<1>4. /\ w \notin Starting(i) /\ (w \in Starting(i)' <=> k = i)
      /\ w \notin Stallable(i) /\ (w \in Stallable(i)' <=> k = i /\ s = 0)
  BY <1>1, <1>3 DEF Starting, Stallable, Early
<1>5. PICK n, f : n = posts[i] /\ f = crashes + jobFaults /\ n \in Nat /\ f \in Nat
  BY DEF TypeOK
<1>6. PICK a, b, c, d : /\ a = Cardinality(Starting(i)) /\ b = Cardinality(Stallable(i))
                        /\ c = Cardinality(Starting(i)') /\ d = Cardinality(Stallable(i)')
  OBVIOUS
<1>7. /\ a \in Nat /\ b \in Nat /\ c \in Nat /\ d \in Nat
      /\ IF k = i THEN c = a + 1 ELSE c = a
      /\ IF k = i /\ s = 0 THEN d = b + 1 ELSE d = b
  BY <1>3, <1>4, <1>6, CallMoved
<1>8. PICK x, y, u, v : /\ x = Waiting(i, 0) /\ y = Waiting(i, 1)
                        /\ u = Waiting(i, 0)' /\ v = Waiting(i, 1)'
  OBVIOUS
<1>9. /\ x \in {0, 1} /\ y \in {0, 1}
      /\ IF k = i /\ s = 0 THEN x = 1 /\ u = 0 ELSE u = x
      /\ IF k = i /\ s = 1 THEN y = 1 /\ v = 0 ELSE v = y
  BY <1>1, <1>2, <1>8, WaitingType, WaitingLess
<1>10. PostsLimit(n, a, b, x, y, f)
  BY <1>5, <1>6, <1>8 DEF PostsLimited
<1>11. PostsLimit(n, c, d, u, v, f)
  BY <1>2, <1>5, <1>7, <1>9, <1>10 DEF PostsLimit
<1>12. posts'[i] = n /\ crashes' + jobFaults' = f
  BY <1>1, <1>5
<1> QED BY <1>6, <1>8, <1>11, <1>12 DEF PostsLimited

\* A job stalls: its second run is paid for, and its call has had the first.
LEMMA LimitStall ==
    ASSUME TypeOK, NEW i \in Ids, PostsLimited(i), NEW w \in Workers, Stall(w)
    PROVE  PostsLimited(i)'
<1>1. PICK k : k = procs[w].job
  OBVIOUS
<1>2. /\ jobs' = jobs \cup {[id |-> k, stalls |-> 1]} /\ Becomes(w, Disowned(procs[w]))
      /\ procs[w].stage # "idle" /\ procs[w].stalls = 0 /\ UNCHANGED <<posts, crashes>>
      /\ jobFaults' = jobFaults + 1
  BY <1>1 DEF Stall, JobFault
<1>3. PICK p, q : p = procs[w] /\ q = procs'[w]
  OBVIOUS
<1>4. /\ p \in Proc /\ q = Disowned(p) /\ \A v \in Workers : v # w => procs'[v] = procs[v]
  BY <1>2, <1>3 DEF Becomes, TypeOK
<1>5. q.stage = p.stage /\ q.id = p.id /\ q.stalls # 0
  BY <1>4, DisownedType DEF NoJob
<1>6. /\ (w \in Starting(i) <=> w \in Starting(i)')
      /\ (w \in Stallable(i) <=> k = i) /\ w \notin Stallable(i)'
  BY <1>1, <1>2, <1>3, <1>5 DEF Starting, Stallable, Early
<1>7. PICK n, f : n = posts[i] /\ f = crashes + jobFaults /\ n \in Nat /\ f \in Nat
  BY DEF TypeOK
<1>8. PICK a, b, c, d : /\ a = Cardinality(Starting(i)) /\ b = Cardinality(Stallable(i))
                        /\ c = Cardinality(Starting(i)') /\ d = Cardinality(Stallable(i)')
  OBVIOUS
<1>9. /\ a \in Nat /\ b \in Nat /\ c = a /\ d \in Nat
      /\ IF k = i THEN b = d + 1 ELSE d = b
  BY <1>4, <1>6, <1>8, CallMoved
<1>10. PICK x, y, u, v : /\ x = Waiting(i, 0) /\ y = Waiting(i, 1)
                         /\ u = Waiting(i, 0)' /\ v = Waiting(i, 1)'
  OBVIOUS
<1>11. /\ x \in {0, 1} /\ y \in {0, 1} /\ u = x
       /\ IF k = i THEN v = 1 ELSE v = y
  BY <1>2, <1>10, WaitingType, WaitingMore
<1>12. PostsLimit(n, a, b, x, y, f)
  BY <1>7, <1>8, <1>10 DEF PostsLimited
<1>13. PostsLimit(n, c, d, u, v, f + 1)
  BY <1>7, <1>9, <1>11, <1>12 DEF PostsLimit
<1>14. posts'[i] = n /\ crashes' + jobFaults' = f + 1
  BY <1>2, <1>7 DEF TypeOK
<1> QED BY <1>8, <1>10, <1>13, <1>14 DEF PostsLimited

\* A restart: whatever was running is gone, and the jobs of the calls run again.
LEMMA LimitCrash ==
    ASSUME TypeOK, NEW i \in Ids, PostsLimited(i), Crash
    PROVE  PostsLimited(i)'
<1>1. /\ \A w \in Workers : procs'[w].stage = "idle"
      /\ jobs' = jobs \cup {[id |-> procs[w].job, stalls |-> 1] :
                               w \in {v \in Workers : procs[v].stage # "idle" /\ procs[v].stalls = 0}}
      /\ UNCHANGED <<posts, jobFaults>> /\ crashes' = crashes + 1
  BY IdleType DEF Crash
<1>2. Starting(i)' = {} /\ Stallable(i)' = {}
  BY <1>1 DEF Starting, Stallable, Early
<1>3. Cardinality(Starting(i)') = 0 /\ Cardinality(Stallable(i)') = 0
  BY <1>2, FS_EmptySet
<1>4. PICK n, f : n = posts[i] /\ f = crashes + jobFaults /\ n \in Nat /\ f \in Nat
  BY DEF TypeOK
<1>5. PICK S, T : S = Starting(i) /\ T = Stallable(i) /\ S \subseteq Workers /\ T \subseteq Workers
  BY DEF Starting, Stallable
<1>6. PICK a, b : /\ a = Cardinality(S) /\ b = Cardinality(T) /\ a \in Nat /\ b \in Nat
                  /\ T # {} => b # 0
  <2>1. IsFiniteSet(S) /\ Cardinality(S) \in Nat /\ IsFiniteSet(T) /\ Cardinality(T) \in Nat
    BY <1>5, WorkersFinite
  <2>2. Cardinality(T) = 0 => T = {}
    BY <2>1, FS_EmptySet
  <2> QED BY <2>1, <2>2
<1>7. PICK x, y, u, v : /\ x = Waiting(i, 0) /\ y = Waiting(i, 1)
                        /\ u = Waiting(i, 0)' /\ v = Waiting(i, 1)'
  OBVIOUS
<1>8. /\ x \in {0, 1} /\ y \in {0, 1} /\ v \in {0, 1}
  BY <1>7, WaitingType DEF Waiting
<1>9. ASSUME NEW j \in jobs', j \notin jobs, j.id = i PROVE j.stalls = 1 /\ T # {}
  <2>1. PICK w \in Workers : /\ procs[w].stage # "idle" /\ procs[w].stalls = 0
                             /\ j = [id |-> procs[w].job, stalls |-> 1]
    BY <1>1, <1>9
  <2>2. procs[w].job = i /\ j.stalls = 1
    BY <1>9, <2>1
  <2> QED BY <1>5, <2>1, <2>2 DEF Stallable
<1>10. u = x
  <2>1. (\E j \in jobs' : j.id = i /\ j.stalls = 0) <=> (\E j \in jobs : j.id = i /\ j.stalls = 0)
    BY <1>1, <1>9
  <2> QED BY <1>7, <2>1 DEF Waiting
<1>11. v = 1 => y = 1 \/ b # 0
  <2>1. (\E j \in jobs' : j.id = i /\ j.stalls = 1) =>
          (\E j \in jobs : j.id = i /\ j.stalls = 1) \/ T # {}
    BY <1>9
  <2> QED BY <1>6, <1>7, <2>1 DEF Waiting
<1>12. PostsLimit(n, a, b, x, y, f)
  BY <1>4, <1>5, <1>6, <1>7 DEF PostsLimited
<1>13. PostsLimit(n, 0, 0, u, v, f + 1)
  BY <1>4, <1>6, <1>8, <1>10, <1>11, <1>12 DEF PostsLimit
<1>14. posts'[i] = n /\ crashes' + jobFaults' = f + 1
  BY <1>1, <1>4 DEF TypeOK
<1> QED BY <1>3, <1>7, <1>13, <1>14 DEF PostsLimited

\* A call queues the retry it created.
LEMMA LimitQueueRetry ==
    ASSUME TypeOK, TypeOK', NEW i \in Ids, PostsLimited(i), QueuedOnce(i), ~fallback,
           NEW w \in Workers, QueueRetry(w)
    PROVE  PostsLimited(i)'
<1>1. PICK p, q : p = procs[w] /\ q = procs'[w] /\ p \in Proc
  BY LimitTypes
<1>2. /\ p.stage = "retryCreated" /\ UNCHANGED <<posts, crashes>>
      /\ \/ Enqueue(p.child) /\ Becomes(w, Idle) /\ UNCHANGED jobFaults
         \/ EnqueueThrows(p.child) /\ Becomes(w, RetryInPlace(p))
  BY <1>1 DEF QueueRetry, Finish
<1>3. \A v \in Workers : v # w => procs'[v] = procs[v]
  BY <1>2 DEF Becomes, TypeOK
<1>4. PICK k : k = p.child
  OBVIOUS
<1>5. k = i => Untouched(i)
  BY <1>1, <1>2, <1>4 DEF QueuedOnce, Queues
<1>6. PICK a, b, c, d : /\ a = Cardinality(Starting(i)) /\ b = Cardinality(Stallable(i))
                        /\ c = Cardinality(Starting(i)') /\ d = Cardinality(Stallable(i)')
  OBVIOUS
<1>7. w \notin Starting(i)
  BY <1>1, <1>2 DEF Starting, Early
<1>8. CASE Enqueue(k) /\ Becomes(w, Idle) /\ UNCHANGED jobFaults
  <2>1. q.stage = "idle"
    BY <1>1, <1>8, IdleType DEF Becomes, TypeOK
  <2>2. w \notin Starting(i)' /\ w \notin Stallable(i)'
    BY <1>1, <2>1 DEF Starting, Stallable, Early
  <2>3. a \in Nat /\ b \in Nat /\ c \in Nat /\ d \in Nat /\ c = a /\ d <= b
    BY <1>3, <1>6, <1>7, <2>2, CallMoved
  <2> QED BY <1>2, <1>5, <1>6, <1>8, <2>3, LimitQueued
<1>9. CASE EnqueueThrows(k) /\ Becomes(w, RetryInPlace(p))
  <2>1. q = RetryInPlace(p)
    BY <1>1, <1>9 DEF Becomes, TypeOK
  <2>2. q.stage = "start" /\ q.id = k /\ q.job = p.job /\ q.stalls = p.stalls
    BY <1>4, <2>1 DEF RetryInPlace, Call
  <2>3. (w \in Starting(i)' <=> k = i) /\ (w \in Stallable(i)' <=> w \in Stallable(i))
    BY <1>1, <1>2, <2>2 DEF Starting, Stallable, Early
  <2>4. /\ a \in Nat /\ b \in Nat /\ c \in Nat /\ d \in Nat /\ d <= b
        /\ c = a \/ (k = i /\ c = a + 1)
    BY <1>3, <1>6, <1>7, <2>3, CallMoved
  <2> QED BY <1>2, <1>5, <1>6, <1>9, <2>4, LimitQueued
<1> QED BY <1>2, <1>4, <1>8, <1>9

\* A handler queues the row it inserted.
LEMMA LimitQueueDelivery ==
    ASSUME TypeOK, TypeOK', NEW i \in Ids, PostsLimited(i), QueuedOnce(i), ~fallback, QueueDelivery
    PROVE  PostsLimited(i)'
<1>1. PICK k \in toQueue :
        /\ \/ Enqueue(k) /\ UNCHANGED <<procs, jobFaults>>
           \/ /\ EnqueueThrows(k)
              /\ \E w \in Workers : procs[w].stage = "idle" /\ Becomes(w, Started(k, NoJob, FALSE))
        /\ UNCHANGED <<posts, crashes>>
  BY DEF QueueDelivery
<1>2. k = i => Untouched(i)
  BY DEF QueuedOnce
<1>3. PICK a, b, c, d : /\ a = Cardinality(Starting(i)) /\ b = Cardinality(Stallable(i))
                        /\ c = Cardinality(Starting(i)') /\ d = Cardinality(Stallable(i)')
  OBVIOUS
<1>4. CASE Enqueue(k) /\ UNCHANGED <<procs, jobFaults>>
  <2>1. a \in Nat /\ b \in Nat /\ c \in Nat /\ d \in Nat /\ c = a /\ d <= b
    <3>1. Starting(i)' = Starting(i) /\ Stallable(i)' = Stallable(i)
      BY <1>4 DEF Starting, Stallable
    <3>2. Starting(i) \subseteq Workers /\ Stallable(i) \subseteq Workers
      BY DEF Starting, Stallable
    <3>3. a \in Nat /\ b \in Nat
      BY <1>3, <3>2, WorkersFinite
    <3> QED BY <1>3, <3>1, <3>3
  <2> QED BY <1>1, <1>2, <1>3, <1>4, <2>1, LimitQueued
<1>5. ASSUME NEW w \in Workers, procs[w].stage = "idle", Becomes(w, Started(k, NoJob, FALSE)),
             EnqueueThrows(k)
      PROVE  PostsLimited(i)'
  <2>1. PICK q : q = procs'[w]
    OBVIOUS
  <2>2. q = Started(k, NoJob, FALSE) /\ \A v \in Workers : v # w => procs'[v] = procs[v]
    BY <1>5, <2>1 DEF Becomes, TypeOK
  <2>3. q.id = k /\ q.stage = "start" /\ q.stalls # 0
    BY <2>2 DEF Started, Call, NoJob
  <2>4. /\ w \notin Starting(i) /\ (w \in Starting(i)' <=> k = i)
        /\ w \notin Stallable(i) /\ w \notin Stallable(i)'
    BY <1>5, <2>1, <2>3 DEF Starting, Stallable, Early
  <2>5. /\ a \in Nat /\ b \in Nat /\ c \in Nat /\ d \in Nat /\ d <= b
        /\ c = a \/ (k = i /\ c = a + 1)
    BY <1>3, <2>2, <2>4, CallMoved
  <2> QED BY <1>1, <1>2, <1>3, <1>5, <2>5, LimitQueued
<1> QED BY <1>1, <1>4, <1>5

\* A call goes on: it POSTs what it was started for, or ends.
LEMMA LimitOwnStep ==
    ASSUME TypeOK, TypeOK', [Next]_vars, NEW i \in Ids, PostsLimited(i),
           NEW w \in Workers, ProcStep(w), ~QueueRetry(w)
    PROVE  PostsLimited(i)'
<1>1. PICK p, q : p = procs[w] /\ q = procs'[w] /\ p \in Proc
  BY LimitTypes
<1>2. UNCHANGED <<jobs, crashes, jobFaults>> /\ p.stage # "retryCreated"
  BY <1>1 DEF ProcStep, Load, ReadWebhook, Respond, SaveSuccess, SaveFailed, ScheduleRetry,
              CreateRetry, CountSuccess, CountFailure, CheckHealth, Deactivate, unchangedByProc
<1>3. \A v \in Workers : v # w => procs'[v] = procs[v]
  <2>1. \E r : Becomes(w, r)
    <3>1. CASE Load(w) \/ ReadWebhook(w) \/ Respond(w)
      BY <3>1 DEF Load, ReadWebhook, Respond, Finish, Abort, AbortFrom
    <3>2. CASE SaveSuccess(w) \/ SaveFailed(w) \/ ScheduleRetry(w) \/ CreateRetry(w)
      BY <3>2 DEF SaveSuccess, SaveFailed, ScheduleRetry, CreateRetry, Saved, SaveThrows,
                  Throw, Abort, AbortFrom
    <3>3. CASE CountSuccess(w) \/ CountFailure(w) \/ CheckHealth(w) \/ Deactivate(w)
      BY <3>3 DEF CountSuccess, CountFailure, CheckHealth, Deactivate, Finish
    <3> QED BY <3>1, <3>2, <3>3 DEF ProcStep
  <2> QED BY <2>1 DEF Becomes, TypeOK
<1>4. /\ w \in Stallable(i)' => w \in Stallable(i)
      /\ w \in Starting(i)' => w \in Starting(i)
  <2>1. CASE q.stage = "idle"
    BY <1>1, <2>1 DEF Stallable, Starting, Early
  <2>2. CASE q.stage # "idle"
    <3>1. /\ q.job = p.job /\ q.stalls = p.stalls /\ p.stage # "idle"
          /\ q.id = p.id /\ (Early(q) => Early(p))
      BY <1>1, <1>2, <2>2, CallKeeps
    <3> QED BY <1>1, <3>1 DEF Stallable, Starting
  <2> QED BY <2>1, <2>2
<1>5. PICK n, m, f : /\ n = posts[i] /\ m = posts'[i] /\ f = crashes + jobFaults
                     /\ n \in Nat /\ m \in Nat /\ f \in Nat
  BY DEF TypeOK
<1>6. m = n \/ (m = n + 1 /\ w \in Starting(i) /\ w \notin Starting(i)')
  <2>1. CASE posts'[i] # posts[i]
    <3>1. PICK v \in Workers : /\ procs[v].stage = "loaded" /\ procs[v].id = i
                               /\ procs'[v] = At(procs[v], "sending")
                               /\ posts'[i] = posts[i] + 1
      BY <2>1, PostStep
    <3>2. At(procs[v], "sending").stage = "sending"
      BY LimitTypes DEF At, Proc
    <3>3. v = w
      BY <1>3, <3>1, <3>2
    <3>4. procs'[w].stage = "sending"
      BY <3>1, <3>2, <3>3
    <3> QED BY <1>5, <3>1, <3>3, <3>4 DEF Starting, Early
  <2> QED BY <1>5, <2>1
<1>7. PICK a, b, c, d : /\ a = Cardinality(Starting(i)) /\ b = Cardinality(Stallable(i))
                        /\ c = Cardinality(Starting(i)') /\ d = Cardinality(Stallable(i)')
  OBVIOUS
<1>8. /\ a \in Nat /\ b \in Nat /\ c \in Nat /\ d \in Nat /\ c <= a /\ d <= b
      /\ m = n \/ (m = n + 1 /\ a = c + 1)
  BY <1>3, <1>4, <1>6, <1>7, CallMoved
<1>9. PICK x, y : /\ x = Waiting(i, 0) /\ y = Waiting(i, 1)
                  /\ x = Waiting(i, 0)' /\ y = Waiting(i, 1)'
                  /\ x \in {0, 1} /\ y \in {0, 1}
  BY <1>2, WaitingType DEF Waiting
<1>10. PostsLimit(n, a, b, x, y, f)
  BY <1>5, <1>7, <1>9 DEF PostsLimited
<1>11. PostsLimit(m, c, d, x, y, f)
  BY <1>5, <1>8, <1>9, <1>10 DEF PostsLimit
<1>12. crashes' + jobFaults' = f
  BY <1>2, <1>5
<1> QED BY <1>5, <1>7, <1>9, <1>11, <1>12 DEF PostsLimited

LEMMA LimitInductive ==
    ASSUME TypeOK, TypeOK', LimitInv, [Next]_vars, ~fallback, ~fallback', NEW i \in Ids
    PROVE  PostsLimited(i)'
<1>1. PostsLimited(i) /\ QueuedOnce(i)
  BY DEF LimitInv
<1>2. ASSUME UNCHANGED <<jobs, procs, posts, crashes, jobFaults>> PROVE PostsLimited(i)'
  BY <1>1, <1>2 DEF PostsLimited, Starting, Stallable, Waiting
<1>3. CASE \/ FindWebhook \/ FindReplayed \/ CreateDelivery \/ UpdateWebhook \/ DeleteWebhook
           \/ CascadeDelete \/ BreakerCools \/ (\E k \in Ids : LockExpires(k)) \/ UNCHANGED vars
  BY <1>2, <1>3 DEF FindWebhook, FindReplayed, CreateDelivery, UpdateWebhook, DeleteWebhook,
                    CascadeDelete, BreakerCools, LockExpires, unchangedByApi, unchangedByProc,
                    vars, memory
<1>4. ASSUME NEW w \in Workers, ProcStep(w) PROVE PostsLimited(i)'
  BY <1>1, <1>4, LimitOwnStep, LimitQueueRetry
<1>5. ASSUME NEW w \in Workers, RunJob(w) \/ Stall(w) PROVE PostsLimited(i)'
  BY <1>1, <1>5, LimitRunJob, LimitStall
<1>6. ~RedisLost /\ \A w \in Workers : ~RunTimer(w) /\ ~Poll(w)
  BY DEF RedisLost, RunTimer, Poll, LimitInv
<1>7. QueueDelivery \/ Crash => PostsLimited(i)'
  BY <1>1, LimitQueueDelivery, LimitCrash
<1> QED BY <1>3, <1>4, <1>5, <1>6, <1>7 DEF Next

\* A row stays untouched as long as nobody queues it.
LEMMA UntouchedKept ==
    ASSUME TypeOK, [Next]_vars, ~fallback, timers = {}, NEW i \in Ids, Untouched(i),
           i \in toQueue => i \in toQueue',
           \A w \in Workers : Queues(procs[w], i) => ~QueueRetry(w)
    PROVE  Untouched(i)'
<1>1. posts'[i] = 0
  BY PostStep DEF Untouched
<1>2. ASSUME NEW w \in Workers, procs'[w].stage # "idle"
      PROVE  procs'[w].id # i /\ procs'[w].job # i
  <2>1. CASE procs'[w] = procs[w]
    BY <1>2, <2>1 DEF Untouched
  <2>2. CASE Starts(w)
    <3>1. PICK k, stalls : /\ k \in timers \/ (\E j \in jobs : k = j.id) \/ k \in toQueue \ toQueue'
                           /\ procs'[w] = Started(k, stalls, FALSE)
      BY <2>2 DEF Starts
    <3>2. procs'[w].id = k /\ procs'[w].job = k
      BY <3>1 DEF Started, Call
    <3> QED BY <3>1, <3>2 DEF Untouched
  <2>3. CASE ProcStep(w)
    <3>1. PICK p, q : p = procs[w] /\ q = procs'[w]
      OBVIOUS
    <3>2. /\ q.job = p.job /\ p.stage # "idle"
          /\ q.id = p.id \/ (p.stage = "retryCreated" /\ q.id = p.child)
      BY <1>2, <2>3, <3>1, CallKeeps
    <3>3. p.stage = "retryCreated" => QueueRetry(w)
      BY <2>3, <3>1 DEF ProcStep, Load, ReadWebhook, Respond, SaveSuccess, SaveFailed,
          ScheduleRetry, CreateRetry, CountSuccess, CountFailure, CheckHealth, Deactivate
    <3> QED BY <3>1, <3>2, <3>3 DEF Untouched, Queues
  <2>4. CASE procs'[w] = Disowned(procs[w])
    <3>1. /\ procs'[w].stage = procs[w].stage /\ procs'[w].id = procs[w].id
          /\ procs'[w].job = procs[w].job
      BY <2>4, DisownedType DEF TypeOK
    <3> QED BY <1>2, <3>1 DEF Untouched
  <2>5. ~Poll(w) /\ ~Crash
    BY <1>2, IdleType DEF Poll, Crash
  <2> QED BY <2>1, <2>2, <2>3, <2>4, <2>5, ChangedCall
<1>3. ASSUME NEW j \in jobs', j.id = i PROVE FALSE
  <2>1. j \notin jobs
    BY <1>3 DEF Untouched
  <2>a. ASSUME NEW k, Enqueue(k) \/ EnqueueThrows(k) PROVE k = i
    <3>1. PICK job : job = [id |-> k, stalls |-> 0]
      OBVIOUS
    <3>2. job.id = k
      BY <3>1
    <3>3. jobs' = jobs \/ jobs' = jobs \cup {job}
      BY <2>a, <3>1 DEF Enqueue, EnqueueThrows
    <3> QED BY <1>3, <2>1, <3>2, <3>3
  <2>b. ASSUME NEW w \in Workers, procs[w].stage # "idle", j = [id |-> procs[w].job, stalls |-> 1]
        PROVE  FALSE
    <3>1. j.id = procs[w].job
      BY <2>b
    <3> QED BY <1>3, <2>b, <3>1 DEF Untouched
  <2>2. ~QueueDelivery
    <3>1. ASSUME QueueDelivery PROVE FALSE
      <4>1. PICK k \in toQueue : toQueue' = toQueue \ {k} /\ (Enqueue(k) \/ EnqueueThrows(k))
        BY <3>1 DEF QueueDelivery
      <4> QED BY <2>a, <4>1
    <3> QED BY <3>1
  <2>3. ASSUME NEW w \in Workers PROVE ~QueueRetry(w)
    <3>1. ASSUME QueueRetry(w) PROVE FALSE
      <4>1. procs[w].stage = "retryCreated"
            /\ (Enqueue(procs[w].child) \/ EnqueueThrows(procs[w].child))
        BY <3>1 DEF QueueRetry
      <4> QED BY <2>a, <3>1, <4>1 DEF Queues
    <3> QED BY <3>1
  <2>4. ~Crash
    BY <2>1, <2>b DEF Crash
  <2>5. ASSUME NEW w \in Workers PROVE ~Stall(w)
    BY <2>1, <2>b DEF Stall
  <2>6. ASSUME NEW w \in Workers,
               \/ RunTimer(w) \/ RunJob(w) \/ Poll(w) \/ Load(w) \/ ReadWebhook(w) \/ Respond(w)
               \/ SaveSuccess(w) \/ SaveFailed(w) \/ ScheduleRetry(w) \/ CreateRetry(w)
               \/ CountSuccess(w) \/ CountFailure(w) \/ CheckHealth(w) \/ Deactivate(w)
        PROVE  jobs' \subseteq jobs
    BY <2>6 DEF RunTimer, RunJob, Poll, Load, ReadWebhook, Respond, SaveSuccess, SaveFailed,
                ScheduleRetry, CreateRetry, CountSuccess, CountFailure, CheckHealth, Deactivate
  <2>7. CASE \/ FindWebhook \/ FindReplayed \/ CreateDelivery \/ UpdateWebhook \/ DeleteWebhook
             \/ CascadeDelete \/ BreakerCools \/ RedisLost \/ (\E k \in Ids : LockExpires(k))
             \/ UNCHANGED vars
    BY <2>1, <2>7 DEF FindWebhook, FindReplayed, CreateDelivery, UpdateWebhook, DeleteWebhook,
                CascadeDelete, BreakerCools, RedisLost, LockExpires, unchangedByApi, vars
  <2> QED BY <2>1, <2>2, <2>3, <2>4, <2>5, <2>6, <2>7 DEF Next, ProcStep
<1> QED BY <1>1, <1>2, <1>3 DEF Untouched

LEMMA OnceInductive ==
    ASSUME TypeOK, KnownIds, NewRowsUnposted, LimitInv, [Next]_vars, ~fallback, ~fallback',
           NEW i \in Ids
    PROVE  QueuedOnce(i)'
<1>1. QueuedOnce(i) /\ timers = {}
  BY DEF LimitInv
<1>2. i \in toQueue' => i \in toQueue \/ (i = nextId /\ CreateDelivery)
  <2>1. CASE CreateDelivery
    BY <2>1 DEF CreateDelivery
  <2>2. ASSUME NEW w \in Workers, RunTimer(w) \/ RunJob(w) \/ Poll(w) \/ ProcStep(w) \/ Stall(w)
        PROVE  UNCHANGED toQueue
    BY <2>2 DEF Stall, RunTimer, RunJob, Poll, ProcStep, Load, ReadWebhook, Respond, SaveSuccess,
                SaveFailed, ScheduleRetry, CreateRetry, QueueRetry, CountSuccess, CountFailure,
                CheckHealth, Deactivate, unchangedByProc
  <2>3. CASE \/ FindWebhook \/ FindReplayed \/ QueueDelivery \/ UpdateWebhook \/ DeleteWebhook
             \/ CascadeDelete \/ BreakerCools \/ RedisLost \/ Crash
             \/ (\E k \in Ids : LockExpires(k)) \/ UNCHANGED vars
    BY <2>3 DEF FindWebhook, FindReplayed, QueueDelivery, UpdateWebhook, DeleteWebhook,
                CascadeDelete, BreakerCools, RedisLost, Crash, LockExpires, unchangedByProc,
                vars, memory
  <2> QED BY <2>1, <2>2, <2>3 DEF Next
<1>3. ASSUME NEW w \in Workers, Queues(procs'[w], i)
      PROVE  \/ Queues(procs[w], i) /\ ~QueueRetry(w)
             \/ i = nextId /\ CreateRetry(w)
  <2>1. PICK p, q : p = procs[w] /\ q = procs'[w] /\ p \in Proc
    BY LimitTypes DEF TypeOK
  <2>2. ~QueueRetry(w)
    <3>1. QueueRetry(w) => q = Idle \/ q = RetryInPlace(p)
      BY <2>1 DEF QueueRetry, Finish, Becomes, TypeOK
    <3> QED BY <1>3, <2>1, <3>1, NextStages, IdleType DEF Queues
  <2>3. CASE q = p \/ q = Disowned(p)
    BY <1>3, <2>1, <2>2, <2>3, DisownedType DEF Queues
  <2>4. CASE ProcStep(w)
    <3>1. /\ \A row, answer : /\ Holding(p, row).stage # "retryCreated"
                              /\ Answered(p, answer).stage # "retryCreated"
          /\ Caught(p).stage # "retryCreated" /\ Idle.stage # "retryCreated"
          /\ \A stage : Settled(p, stage).stage = stage /\ At(p, stage).stage = stage
          /\ RetryInPlace(p).stage # "retryCreated"
      BY <2>1, NextStages
    <3>2. CreateRetry(w)
      BY <1>3, <2>1, <2>4, <3>1, NextCall DEF Queues
    <3>3. q.child = nextId
      BY <1>3, <2>1, <2>4, CallKeeps DEF Queues
    <3> QED BY <1>3, <2>1, <3>2, <3>3 DEF Queues
  <2>5. ~Starts(w) /\ ~Poll(w) /\ ~Crash
    <3>1. ASSUME NEW k, NEW stalls, NEW polled, q = Started(k, stalls, polled) PROVE FALSE
      BY <1>3, <2>1, <3>1 DEF Queues, Started, Call
    <3>2. Crash => q = Idle
      BY <2>1 DEF Crash
    <3>3. q # Idle
      BY <1>3, <2>1, IdleType DEF Queues
    <3>4. Poll(w) => \E k : q = Started(k, NoJob, TRUE)
      BY <2>1 DEF Poll, Becomes, TypeOK
    <3> QED BY <2>1, <3>1, <3>2, <3>3, <3>4 DEF Starts
  <2> QED BY <2>1, <2>3, <2>4, <2>5, ChangedCall
<1>4. i = nextId => /\ i \notin toQueue /\ Untouched(i)
                    /\ \A w \in Workers : ~Queues(procs[w], i)
  BY NextIsUnknown
<1>5. ASSUME i \in toQueue'
      PROVE  Untouched(i)' /\ \A w \in Workers : ~Queues(procs'[w], i)
  <2>1. Untouched(i) /\ \A w \in Workers : ~Queues(procs[w], i)
    BY <1>1, <1>2, <1>4, <1>5 DEF QueuedOnce
  <2>2. Untouched(i)'
    BY <1>1, <1>5, <2>1, UntouchedKept
  <2>3. CASE i \in toQueue
    BY <1>3, <1>4, <2>1, <2>2, <2>3
  <2>4. CASE CreateDelivery
    <3>1. UNCHANGED procs
      BY <2>4 DEF CreateDelivery, unchangedByApi
    <3> QED BY <2>1, <2>2, <3>1
  <2> QED BY <1>2, <1>5, <2>2, <2>3, <2>4
<1>6. ASSUME NEW w \in Workers, Queues(procs'[w], i)
      PROVE  /\ Untouched(i)' /\ i \notin toQueue'
             /\ \A v \in Workers : Queues(procs'[v], i) => v = w
  <2>1. CASE i # nextId
    <3>1. Queues(procs[w], i) /\ ~QueueRetry(w)
      BY <1>3, <1>6, <2>1
    <3>2. /\ Untouched(i) /\ i \notin toQueue
          /\ \A v \in Workers : Queues(procs[v], i) => v = w
      BY <1>1, <3>1 DEF QueuedOnce
    <3>3. Untouched(i)'
      BY <1>1, <3>1, <3>2, UntouchedKept
    <3> QED BY <1>2, <1>3, <2>1, <3>2, <3>3
  <2>2. CASE i = nextId
    <3>1. CreateRetry(w) /\ Untouched(i) /\ i \notin toQueue
          /\ \A v \in Workers : ~Queues(procs[v], i)
      BY <1>3, <1>4, <1>6, <2>2
    <3>2. UNCHANGED toQueue
      BY <3>1 DEF CreateRetry, unchangedByProc
    <3>3. \A v \in Workers : v # w => procs'[v] = procs[v]
      BY <3>1 DEF CreateRetry, Throw, Abort, AbortFrom, Becomes, TypeOK
    <3>4. Untouched(i)'
      BY <1>1, <3>1, UntouchedKept
    <3> QED BY <3>1, <3>2, <3>3, <3>4
  <2> QED BY <2>1, <2>2
<1> QED BY <1>5, <1>6 DEF QueuedOnce

LEMMA NoTimers ==
    ASSUME TypeOK, timers = {}, [Next]_vars, ~fallback
    PROVE  timers' = {}
<1>1. CASE QueueDelivery
  BY <1>1 DEF QueueDelivery, Enqueue, EnqueueThrows
<1>2. ASSUME NEW w \in Workers, QueueRetry(w) PROVE timers' = {}
  BY <1>2 DEF QueueRetry, Enqueue, EnqueueThrows
<1>3. ASSUME NEW w \in Workers,
             \/ RunTimer(w) \/ RunJob(w) \/ Poll(w) \/ Load(w) \/ ReadWebhook(w) \/ Respond(w)
             \/ SaveSuccess(w) \/ SaveFailed(w) \/ ScheduleRetry(w) \/ CreateRetry(w)
             \/ CountSuccess(w) \/ CountFailure(w) \/ CheckHealth(w) \/ Deactivate(w) \/ Stall(w)
      PROVE  timers' = {}
  BY <1>3 DEF Stall, RunTimer, RunJob, Poll, Load, ReadWebhook, Respond, SaveSuccess, SaveFailed,
              ScheduleRetry, CreateRetry, CountSuccess, CountFailure, CheckHealth, Deactivate
<1>4. CASE \/ FindWebhook \/ FindReplayed \/ CreateDelivery \/ UpdateWebhook \/ DeleteWebhook
           \/ CascadeDelete \/ BreakerCools \/ RedisLost \/ Crash
           \/ (\E k \in Ids : LockExpires(k)) \/ UNCHANGED vars
  BY <1>4 DEF FindWebhook, FindReplayed, CreateDelivery, UpdateWebhook, DeleteWebhook,
              CascadeDelete, BreakerCools, RedisLost, Crash, LockExpires, unchangedByApi,
              vars, memory
<1> QED BY <1>1, <1>2, <1>3, <1>4 DEF Next, ProcStep

\* While Redis is up, a delivery is POSTed once, once more at most for each restart, each
\* stall of a job and each reply to an add that is lost, and never more than three times,
\* however often these happen: a row is queued once, BullMQ runs a stalled job again only
\* once, and the handler that lost the reply processes the row itself (initializeQueue,
\* queueDelivery, scheduleRetry).
THEOREM OnePostPerFault ==
    Spec /\ []~fallback
    => [](\A i \in Ids : posts[i] <= 1 + crashes + jobFaults /\ posts[i] <= 3)
<1>1. Init => NewRowsUnposted /\ LimitInv
  <2> SUFFICES ASSUME Init PROVE NewRowsUnposted /\ LimitInv
    OBVIOUS
  <2>1. NewRowsUnposted /\ timers = {} /\ crashes + jobFaults = 0 /\ TypeOK
    BY TypeInitial DEF Init, NewRowsUnposted
  <2>2. ASSUME NEW i \in Ids PROVE PostsLimited(i) /\ QueuedOnce(i)
    <3>1. Untouched(i) /\ i \notin toQueue /\ \A w \in Workers : ~Queues(procs[w], i)
      BY IdleType DEF Init, Untouched, Queues
    <3>2. PostsLimit(0, 0, 0, 0, 0, 0)
      BY DEF PostsLimit
    <3> QED BY <2>1, <3>1, <3>2, UntouchedCounts DEF PostsLimited, QueuedOnce
  <2> QED BY <2>1, <2>2 DEF LimitInv
<1>2. TypeOK /\ KnownIds /\ NewRowsUnposted /\ LimitInv /\ [Next]_vars /\ ~fallback /\ ~fallback'
      => NewRowsUnposted' /\ LimitInv'
  BY TypeInductive, UnpostedInductive, LimitInductive, OnceInductive, NoTimers DEF LimitInv
<1>3. TypeOK /\ LimitInv => \A i \in Ids : posts[i] <= 1 + crashes + jobFaults /\ posts[i] <= 3
  <2> SUFFICES ASSUME TypeOK, LimitInv, NEW i \in Ids
               PROVE  posts[i] <= 1 + crashes + jobFaults /\ posts[i] <= 3
    OBVIOUS
  <2>1. PICK a, b : a = Cardinality(Starting(i)) /\ b = Cardinality(Stallable(i)) /\ a \in Nat /\ b \in Nat
    BY WorkersFinite DEF Starting, Stallable
  <2>2. PICK x, y : x = Waiting(i, 0) /\ y = Waiting(i, 1) /\ x \in {0, 1} /\ y \in {0, 1}
    BY WaitingType
  <2>3. PostsLimit(posts[i], a, b, x, y, crashes + jobFaults)
    BY <2>1, <2>2 DEF LimitInv, PostsLimited
  <2>4. posts[i] \in Nat /\ crashes \in Nat /\ jobFaults \in Nat
    BY LimitTypes
  <2> QED BY <2>1, <2>2, <2>3, <2>4 DEF PostsLimit
<1> QED BY <1>1, <1>2, <1>3, TypeCorrect, PTL DEF Spec
=============================================================================
