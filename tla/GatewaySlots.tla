---------------------------- MODULE GatewaySlots ----------------------------
(***************************************************************************)
(* The gateway's processing slots (priority-queue.service.ts, called by    *)
(* PriorityQueueMiddleware for every gateway request).  A request waits for *)
(* a slot of the Redis set gateway:active_slots, in queue mode also for its *)
(* turn in the sorted set gateway:priority_queue, and after 30 s goes on    *)
(* without one.  Every server process works on the same two keys.           *)
(*                                                                         *)
(* Each Redis command is a step of its own: the requests of all processes  *)
(* interleave at every await.  CacheService swallows a failing command and *)
(* answers 0 or []; nothing in these methods ever throws.  A crash of a    *)
(* process is the Crash of each of its requests.                           *)
(*                                                                         *)
(* Requests is a pool of names: a name is used again once neither key      *)
(* holds it.  Not modelled: the middleware's refusal of requests when the  *)
(* queue is over capacity, and the statistics, which only read.            *)
(***************************************************************************)
EXTENDS Integers, FiniteSets

CONSTANTS
  Requests,     \* names of requests
  Priorities,   \* PriorityLevel, or any number of the header
  Times,        \* createdAt, as the clock of a request's process says
  Factor,       \* 1000000000000, the weight of a priority in the score
  Limit,        \* maxConcurrent
  QueueMode,    \* GATEWAY_QUEUE_MODE === 'true'
  MaxFaults,    \* bound: Redis commands that fail
  MaxAborts,    \* bound: clients that disconnect before the response is sent
  MaxCrashes    \* bound: requests whose process dies

\* The score's weight exceeds every difference of timestamps (10^12 ms are 31 years)
ASSUME SlotsAssumption ==
  /\ Priorities \subseteq Int
  /\ Times \subseteq Int
  /\ Factor \in Nat
  /\ \A t, u \in Times : t - u < Factor
  /\ Limit \in Nat \ {0}
  /\ QueueMode \in BOOLEAN
  /\ MaxFaults \in Nat /\ MaxAborts \in Nat /\ MaxCrashes \in Nat

VARIABLES
  queue,     \* gateway:priority_queue, the members of the sorted set
  slots,     \* gateway:active_slots
  ttl,       \* the key gateway:active_slots has an expiry
  calls,     \* the request and what acquireSlot knows of it
  older,     \* history: the requests that have polled since before this one arrived
  strays,    \* history: requests whose command was lost, or that ended without releasing
  faults, aborts, crashes    \* how much of the bounds is used

vars == <<queue, slots, ttl, calls, older, strays, faults, aborts, crashes>>

\* The await a request is at: zadd, zrange, scard, zrem after winning a turn or
\* after the timeout, sadd, expire, the request itself with or without a slot, srem
Stages == {"idle", "adding", "asking", "counting", "leaving", "quitting",
           "entering", "renewing", "holding", "bypassing", "releasing"}

Polling == {"asking", "counting"}

Call ==
  [ stage     : Stages,
    priority  : Priorities,
    createdAt : Times,
    front     : BOOLEAN,      \* isAtFront
    late      : BOOLEAN ]     \* Date.now() - startWait > maxWaitMs

Init ==
  /\ queue = {}
  /\ slots = {}
  /\ ttl = FALSE
  /\ \E p \in Priorities, t \in Times :
       calls = [r \in Requests |-> [stage |-> "idle", priority |-> p, createdAt |-> t,
                                    front |-> FALSE, late |-> FALSE]]
  /\ older = [r \in Requests |-> {}]
  /\ strays = {}
  /\ faults = 0 /\ aborts = 0 /\ crashes = 0

-----------------------------------------------------------------------------
(* The sorted set *)

\* A plausible bug, for the mutants: the priority is added without its weight
ScoreUnweighted(r) == calls[r].createdAt + calls[r].priority

\* priorityScore of enqueueRequest
Score(r) == calls[r].priority * Factor + calls[r].createdAt

\* The members zrange(queueKey, 0, 0) can answer; members with the same score
\* are in an order of their own that does not matter here
Fronts == { r \in queue : \A s \in queue : Score(r) <= Score(s) }

-----------------------------------------------------------------------------
(* Steps of a request *)

\* A request moves on.  Whoever stops polling is no longer waiting before anyone.
Becomes(r, call) ==
  /\ calls' = [calls EXCEPT ![r] = call]
  /\ older' = IF call.stage \in Polling THEN older
              ELSE [s \in Requests |->
                      IF s = r /\ call.stage \notin {"leaving", "entering"} THEN {}
                      ELSE older[s] \ {r}]

\* A plausible bug, for the mutants: isAtFront is kept from an earlier round
AtStale(r, stage) == [calls[r] EXCEPT !.stage = stage]

\* The loop's locals do not outlive it, and isAtFront is read anew in every round
At(r, stage) ==
  [calls[r] EXCEPT !.stage = stage, !.front = FALSE,
                   !.late = calls[r].late /\ stage \in Polling]

\* The command reaches Redis, or fails and CacheService swallows the error
Command(ok) ==
  /\ ok \/ faults < MaxFaults
  /\ faults' = IF ok THEN faults ELSE faults + 1

\* A failing command leaves its request a stray
Marked(r, ok) == IF ok THEN strays ELSE strays \cup {r}

\* PriorityQueueMiddleware calls acquireSlot.  A request is its member of the two keys: two
\* that send the same x-request-id within a millisecond would share one, which is left out
Arrive(r, priority, time) ==
  /\ calls[r].stage = "idle"
  /\ r \notin queue \cup slots
  /\ calls' = [calls EXCEPT ![r] =
                 [stage |-> IF QueueMode THEN "adding" ELSE "counting",
                  priority |-> priority, createdAt |-> time,
                  front |-> FALSE, late |-> FALSE]]
  /\ older' = [older EXCEPT ![r] = { s \in Requests : calls[s].stage \in Polling }]
  /\ strays' = strays \ {r}
  /\ UNCHANGED <<queue, slots, ttl, faults, aborts, crashes>>

\* enqueueRequest: zadd
Enqueue(r, ok) ==
  /\ calls[r].stage = "adding"
  /\ Command(ok)
  /\ queue' = IF ok THEN queue \cup {r} ELSE queue
  /\ strays' = Marked(r, ok)
  /\ Becomes(r, At(r, "asking"))
  /\ UNCHANGED <<slots, ttl, aborts, crashes>>

\* zrange: is this request at the front of the queue?
AskFront(r, front, ok) ==
  /\ calls[r].stage = "asking"
  /\ Command(ok)
  /\ \/ front /\ ok /\ r \in Fronts
     \/ ~front /\ ~ok
     \/ ~front /\ Fronts # {r}
  /\ Becomes(r, [At(r, "counting") EXCEPT !.front = front])
  /\ UNCHANGED <<queue, slots, ttl, strays, aborts, crashes>>

\* Plausible bugs, for the mutants: the timeout is forgotten; a request that
\* gives up does not leave the queue
DecisionNeverLate(r, count) ==
  IF (QueueMode => calls[r].front) /\ count < Limit
    THEN IF QueueMode THEN "leaving" ELSE "entering"
    ELSE IF QueueMode THEN "asking" ELSE "counting"
DecisionStayQueued(r, count) ==
  IF (QueueMode => calls[r].front) /\ count < Limit
    THEN IF QueueMode THEN "leaving" ELSE "entering"
  ELSE IF calls[r].late
    THEN "bypassing"
    ELSE IF QueueMode THEN "asking" ELSE "counting"

\* What a request does when scard has answered count
Decision(r, count) ==
  IF (QueueMode => calls[r].front) /\ count < Limit
    THEN IF QueueMode THEN "leaving" ELSE "entering"
  ELSE IF calls[r].late
    THEN IF QueueMode THEN "quitting" ELSE "bypassing"
    ELSE IF QueueMode THEN "asking" ELSE "counting"

\* scard, and the decision of the loop
CountSlots(r, ok) ==
  /\ calls[r].stage = "counting"
  /\ Command(ok)
  /\ Becomes(r, At(r, Decision(r, IF ok THEN Cardinality(slots) ELSE 0)))
  /\ UNCHANGED <<queue, slots, ttl, strays, aborts, crashes>>

\* maxWaitMs have passed since the request began to wait
WaitOver(r) ==
  /\ calls[r].stage \in Polling
  /\ ~calls[r].late
  /\ Becomes(r, [calls[r] EXCEPT !.late = TRUE])
  /\ UNCHANGED <<queue, slots, ttl, strays, faults, aborts, crashes>>

\* zrem, with a slot in view or after the timeout
Leave(r, ok) ==
  /\ calls[r].stage \in {"leaving", "quitting"}
  /\ Command(ok)
  /\ queue' = IF ok THEN queue \ {r} ELSE queue
  /\ strays' = Marked(r, ok)
  /\ Becomes(r, At(r, IF calls[r].stage = "leaving" THEN "entering" ELSE "bypassing"))
  /\ UNCHANGED <<slots, ttl, aborts, crashes>>

\* sadd
Enter(r, ok) ==
  /\ calls[r].stage = "entering"
  /\ Command(ok)
  /\ slots' = IF ok THEN slots \cup {r} ELSE slots
  /\ strays' = Marked(r, ok)
  /\ Becomes(r, At(r, "renewing"))
  /\ UNCHANGED <<queue, ttl, aborts, crashes>>

\* A plausible bug, for the mutants: the expiry is only set with the first slot
RenewsFirst(ok) == ok /\ Cardinality(slots) = 1

\* expire has an effect: the command succeeds and the key exists
Renews(ok) == ok /\ slots # {}

\* expire, and the listener on 'finish'
Renew(r, ok) ==
  /\ calls[r].stage = "renewing"
  /\ Command(ok)
  /\ ttl' = (ttl \/ Renews(ok))
  /\ strays' = Marked(r, ok)
  /\ Becomes(r, At(r, "holding"))
  /\ UNCHANGED <<queue, slots, aborts, crashes>>

\* The response is sent ('finish')
Finish(r) ==
  /\ calls[r].stage \in {"holding", "bypassing"}
  /\ Becomes(r, At(r, IF calls[r].stage = "holding" THEN "releasing" ELSE "idle"))
  /\ UNCHANGED <<queue, slots, ttl, strays, faults, aborts, crashes>>

\* releaseSlot: srem; Redis deletes a set that becomes empty, with its expiry
Release(r, ok) ==
  /\ calls[r].stage = "releasing"
  /\ Command(ok)
  /\ slots' = IF ok THEN slots \ {r} ELSE slots
  /\ ttl' = (ttl /\ slots' # {})
  /\ strays' = Marked(r, ok)
  /\ Becomes(r, At(r, "idle"))
  /\ UNCHANGED <<queue, aborts, crashes>>

\* The client disconnects: 'finish' is never emitted
Abort(r) ==
  /\ calls[r].stage = "holding"
  /\ aborts < MaxAborts
  /\ aborts' = aborts + 1
  /\ strays' = strays \cup {r}
  /\ Becomes(r, At(r, "idle"))
  /\ UNCHANGED <<queue, slots, ttl, faults, crashes>>

\* The process of the request dies
Crash(r) ==
  /\ calls[r].stage # "idle"
  /\ crashes < MaxCrashes
  /\ crashes' = crashes + 1
  /\ strays' = strays \cup {r}
  /\ Becomes(r, At(r, "idle"))
  /\ UNCHANGED <<queue, slots, ttl, faults, aborts>>

\* Redis drops the key: an hour has passed since the last expire
Expire ==
  /\ ttl
  /\ slots' = {}
  /\ ttl' = FALSE
  /\ UNCHANGED <<queue, calls, older, strays, faults, aborts, crashes>>

CommandStep(r, ok) ==
  \/ Enqueue(r, ok)
  \/ \E front \in BOOLEAN : AskFront(r, front, ok)
  \/ CountSlots(r, ok)
  \/ Leave(r, ok)
  \/ Enter(r, ok)
  \/ Renew(r, ok)
  \/ Release(r, ok)

Next ==
  \/ \E r \in Requests, p \in Priorities, t \in Times : Arrive(r, p, t)
  \/ \E r \in Requests, ok \in BOOLEAN : CommandStep(r, ok)
  \/ \E r \in Requests : WaitOver(r) \/ Finish(r) \/ Abort(r) \/ Crash(r)
  \/ Expire

\* A process that lives executes the commands of its requests, its clock runs,
\* its responses end, and Redis expires keys.  Nobody has to send a request.
Fairness ==
  /\ \A r \in Requests : /\ WF_vars(\E ok \in BOOLEAN : CommandStep(r, ok))
                         /\ WF_vars(WaitOver(r))
                         /\ WF_vars(Finish(r))
  /\ WF_vars(Expire)

Spec == Init /\ [][Next]_vars /\ Fairness

-----------------------------------------------------------------------------
(* Properties *)

\* Every variable has its type; the answer of zrange is only known until the
\* decision it was asked for, and only requests that poll are waiting before others.
TypeOK ==
  /\ queue \subseteq Requests
  /\ slots \subseteq Requests
  /\ ttl \in BOOLEAN
  /\ calls \in [Requests -> Call]
  /\ older \in [Requests -> SUBSET Requests]
  /\ strays \subseteq Requests
  /\ \A r \in Requests : calls[r].front => calls[r].stage = "counting"
  /\ \A r, s \in Requests : s \in older[r] => calls[s].stage \in Polling
  /\ faults \in 0..MaxFaults
  /\ aborts \in 0..MaxAborts
  /\ crashes \in 0..MaxCrashes

\* Nothing leaks without a fault: an entry of the queue belongs to a request that
\* still polls or is about to remove it, and a slot to a request that will
\* release it, unless the request lost a command, its client or its process.
EntriesAccounted ==
  /\ \A r \in queue : calls[r].stage \in Polling \cup {"leaving", "quitting"} \/ r \in strays
  /\ \A r \in slots : calls[r].stage \in {"renewing", "holding", "releasing"} \/ r \in strays

\* sadd and expire are two commands, and any process may empty the set between
\* them: while the key has no expiry, every slot in it is about to get one,
\* or is a stray's.
ExpiryArmed ==
  ~ttl => \A r \in slots : calls[r].stage = "renewing" \/ r \in strays

\* knowledge-base/gateway/README.md:27, "Higher-priority requests are processed
\* first when capacity is limited": no request takes a turn while a request of a
\* higher priority, that polled before it arrived, still polls.
HigherPriorityFirst ==
  \A r \in Requests : calls[r].stage \in {"leaving", "entering"} =>
    \A s \in older[r] : s \in strays \/ calls[r].priority <= calls[s].priority

\* The comment of acquireSlot (priority-queue.service.ts:323): it "blocks until a
\* slot is available (concurrency limit)", so no more than Limit slots are taken.
ConcurrencyLimit == Cardinality(slots) <= Limit

\* Every request goes on within its timeout, whatever leaked slots and queue
\* entries of crashed requests are in its way.
EveryRequestProceeds ==
  \A r \in Requests :
    calls[r].stage \in Polling ~> calls[r].stage \in {"holding", "bypassing", "idle"}

\* Slots leaked by disconnected clients do not fill the gateway for good.
SlotsRecover == []<>(Cardinality(slots) < Limit)
=============================================================================
