------------------------- MODULE GatewaySlotsProofs -------------------------
(* Type correctness, the accounting of slots and queue entries, the expiry  *)
(* of the slots, in queue mode the order of priorities, and by how much the  *)
(* limit is overrun, for any number of requests, faults, aborts and crashes. *)
EXTENDS GatewaySlots, FiniteSetTheorems, TLAPS

\* What a step of one request does to the calls and to the waiting order.
LEMMA BecomesFacts ==
  ASSUME TypeOK, NEW r \in Requests, NEW call \in Call, Becomes(r, call)
  PROVE  /\ calls' \in [Requests -> Call]
         /\ calls'[r] = call
         /\ \A s \in Requests \ {r} : calls'[s] = calls[s]
         /\ older' \in [Requests -> SUBSET Requests]
         /\ \A s \in Requests : older'[s] \subseteq older[s]
         /\ call.stage \notin Polling => \A s \in Requests : r \notin older'[s]
  BY SMT DEF TypeOK, Becomes

\* At keeps the request and forgets the loop's locals.
LEMMA AtFacts ==
  ASSUME TypeOK, NEW r \in Requests, NEW stage \in Stages
  PROVE  /\ At(r, stage) \in Call
         /\ At(r, stage).stage = stage
         /\ At(r, stage).priority = calls[r].priority
         /\ At(r, stage).createdAt = calls[r].createdAt
         /\ ~At(r, stage).front
<1>1. calls[r] \in Call
  BY DEF TypeOK
<1>2. (calls[r].late /\ stage \in Polling) \in BOOLEAN
  BY Zenon
<1>3. \A f \in BOOLEAN, l \in BOOLEAN :
        [calls[r] EXCEPT !.stage = stage, !.front = f, !.late = l] \in Call
  <2>1. [calls[r] EXCEPT !.stage = stage] \in Call
    BY <1>1, SMT DEF Call
  <2>2. \A c \in Call, f \in BOOLEAN : [c EXCEPT !.front = f] \in Call
    BY SMT DEF Call
  <2>3. \A c \in Call, l \in BOOLEAN : [c EXCEPT !.late = l] \in Call
    BY SMT DEF Call
  <2> QED
    BY <2>1, <2>2, <2>3, Zenon
<1>4. \A f, l :
        /\ [calls[r] EXCEPT !.stage = stage, !.front = f, !.late = l].stage = stage
        /\ [calls[r] EXCEPT !.stage = stage, !.front = f, !.late = l].priority = calls[r].priority
        /\ [calls[r] EXCEPT !.stage = stage, !.front = f, !.late = l].createdAt = calls[r].createdAt
  BY <1>1, SMT DEF Call
<1>5. \A l : [calls[r] EXCEPT !.stage = stage, !.front = FALSE, !.late = l].front = FALSE
  BY <1>1, Zenon DEF Call
<1> QED
  BY <1>2, <1>3, <1>4, <1>5, Zenon DEF At

\* What the steps that move one request on with At do to the calls.
LEMMA MoveFacts ==
  ASSUME TypeOK, NEW r \in Requests, NEW stage \in Stages, Becomes(r, At(r, stage))
  PROVE  /\ calls' \in [Requests -> Call]
         /\ calls'[r].stage = stage
         /\ \A s \in Requests : /\ calls'[s].priority = calls[s].priority
                                /\ calls'[s].createdAt = calls[s].createdAt
         /\ ~calls'[r].front
         /\ \A s \in Requests \ {r} : calls'[s] = calls[s]
         /\ older' \in [Requests -> SUBSET Requests]
         /\ \A s \in Requests : older'[s] \subseteq older[s]
         /\ stage \notin Polling => \A s \in Requests : r \notin older'[s]
<1>1. At(r, stage) \in Call /\ At(r, stage).stage = stage
  BY AtFacts, Zenon
<1>2. /\ calls' \in [Requests -> Call]
      /\ calls'[r] = At(r, stage)
      /\ \A s \in Requests \ {r} : calls'[s] = calls[s]
      /\ older' \in [Requests -> SUBSET Requests]
      /\ \A s \in Requests : older'[s] \subseteq older[s]
      /\ At(r, stage).stage \notin Polling => \A s \in Requests : r \notin older'[s]
  BY <1>1, BecomesFacts, Zenon
<1>3. At(r, stage).priority = calls[r].priority /\ At(r, stage).createdAt = calls[r].createdAt
  BY AtFacts, Zenon
<1>4. ~At(r, stage).front
  BY AtFacts, Zenon
<1>5. \A s \in Requests : /\ calls'[s].priority = calls[s].priority
                          /\ calls'[s].createdAt = calls[s].createdAt
  BY <1>2, <1>3, Zenon
<1> QED
  BY <1>1, <1>2, <1>4, <1>5, Zenon

\* What the decision of the loop may be.
LEMMA DecisionFacts ==
  ASSUME TypeOK, NEW r \in Requests, NEW n
  PROVE  /\ Decision(r, n) \in Stages
         /\ QueueMode => Decision(r, n) \in {"leaving", "quitting", "asking"}
         /\ ~QueueMode => Decision(r, n) \in {"entering", "bypassing", "counting"}
         /\ QueueMode /\ Decision(r, n) = "leaving" => calls[r].front
  BY Zenon DEF Decision, Stages

\* A command uses at most one fault.
LEMMA CommandFacts ==
  ASSUME TypeOK, NEW ok \in BOOLEAN, Command(ok)
  PROVE  faults' \in 0..MaxFaults
  BY SlotsAssumption, SMT DEF TypeOK, Command

\* The history set of strays keeps its type.
LEMMA MarkedFacts ==
  ASSUME TypeOK, NEW r \in Requests, NEW ok \in BOOLEAN
  PROVE  /\ Marked(r, ok) \subseteq Requests
         /\ strays \subseteq Marked(r, ok)
         /\ ~ok => r \in Marked(r, ok)
  BY SMT DEF TypeOK, Marked

\* The conjuncts of TypeOK about the calls and the waiting order.
CallsOK ==
  /\ calls \in [Requests -> Call]
  /\ older \in [Requests -> SUBSET Requests]
  /\ \A r \in Requests : calls[r].front => calls[r].stage = "counting"
  /\ \A r, s \in Requests : s \in older[r] => calls[s].stage \in Polling

\* Moving on with At keeps them.
LEMMA MoveKeepsCalls ==
  ASSUME TypeOK, NEW r \in Requests, NEW stage \in Stages, Becomes(r, At(r, stage))
  PROVE  CallsOK'
<1>1. calls' \in [Requests -> Call] /\ older' \in [Requests -> SUBSET Requests]
  BY MoveFacts, Zenon
<1>2. ASSUME NEW q \in Requests, calls'[q].front
      PROVE  calls'[q].stage = "counting"
  <2>1. q # r
    BY <1>2, MoveFacts, Zenon
  <2>2. calls'[q] = calls[q]
    BY <2>1, MoveFacts, Zenon
  <2> QED
    BY <1>2, <2>2, Zenon DEF TypeOK
<1>3. ASSUME NEW q \in Requests, NEW s \in Requests, s \in older'[q]
      PROVE  calls'[s].stage \in Polling
  <2>1. calls[s].stage \in Polling
    BY <1>3, MoveFacts, Zenon DEF TypeOK
  <2>2. CASE s = r
    <3>1. stage \in Polling
      BY <1>3, <2>2, MoveFacts, Zenon
    <3> QED
      BY <2>2, <3>1, MoveFacts, Zenon
  <2>3. CASE s # r
    BY <2>1, <2>3, MoveFacts, Zenon
  <2> QED
    BY <2>2, <2>3, Zenon
<1> QED
  BY <1>1, <1>2, <1>3, Zenon DEF CallsOK

\* So does learning the answer of zrange, which leads to the decision.
LEMMA AskKeepsCalls ==
  ASSUME TypeOK, NEW r \in Requests, NEW f \in BOOLEAN,
         calls[r].stage = "asking",
         Becomes(r, [At(r, "counting") EXCEPT !.front = f])
  PROVE  /\ CallsOK'
         /\ calls'[r].stage = "counting"
         /\ calls'[r].front = f
         /\ \A s \in Requests : /\ calls'[s].priority = calls[s].priority
                                /\ calls'[s].createdAt = calls[s].createdAt
         /\ \A s \in Requests \ {r} : calls'[s] = calls[s]
         /\ older' = older
<1> DEFINE c == [At(r, "counting") EXCEPT !.front = f]
<1>1. "counting" \in Stages
  BY Zenon DEF Stages
<1>2. At(r, "counting") \in Call /\ At(r, "counting").stage = "counting"
  BY <1>1, AtFacts, Zenon
<1>3. At(r, "counting").priority = calls[r].priority /\ At(r, "counting").createdAt = calls[r].createdAt
  BY <1>1, AtFacts, Zenon
<1>4. \A g \in BOOLEAN : [At(r, "counting") EXCEPT !.front = g] \in Call
  BY <1>2, SMT DEF Call
<1>5. c \in Call
  BY <1>4, Zenon
<1>6. c.stage = "counting" /\ c.priority = calls[r].priority /\ c.createdAt = calls[r].createdAt
  BY <1>2, <1>3, SMT DEF Call
<1>7. c.front = f
  BY <1>2, Zenon DEF Call
<1>8. /\ calls' \in [Requests -> Call]
      /\ calls'[r] = c
      /\ \A s \in Requests \ {r} : calls'[s] = calls[s]
      /\ older' \in [Requests -> SUBSET Requests]
  BY <1>5, BecomesFacts, Zenon
<1>9. older' = older
  BY <1>6, Zenon DEF Becomes, Polling
<1>10. \A q \in Requests : calls'[q].front => calls'[q].stage = "counting"
  <2> SUFFICES ASSUME NEW q \in Requests, calls'[q].front PROVE calls'[q].stage = "counting"
    BY Zenon
  <2>1. CASE q = r
    BY <2>1, <1>6, <1>8, Zenon
  <2>2. CASE q # r
    BY <2>2, <1>8, Zenon DEF TypeOK
  <2> QED
    BY <2>1, <2>2, Zenon
<1>11. \A q, s \in Requests : s \in older'[q] => calls'[s].stage \in Polling
  <2> SUFFICES ASSUME NEW q \in Requests, NEW s \in Requests, s \in older[q]
               PROVE  calls'[s].stage \in Polling
    BY <1>9, Zenon
  <2>1. CASE s = r
    BY <2>1, <1>6, <1>8, Zenon DEF Polling
  <2>2. CASE s # r
    BY <2>2, <1>8, Zenon DEF TypeOK
  <2> QED
    BY <2>1, <2>2, Zenon
<1> HIDE DEF c
<1>12. \A s \in Requests : /\ calls'[s].priority = calls[s].priority
                           /\ calls'[s].createdAt = calls[s].createdAt
  BY <1>6, <1>8, Zenon
<1> QED
  BY <1>6, <1>7, <1>8, <1>9, <1>10, <1>11, <1>12, Zenon DEF CallsOK

\* And so does the passing of the timeout.
LEMMA WaitKeepsCalls ==
  ASSUME TypeOK, NEW r \in Requests, WaitOver(r)
  PROVE  /\ CallsOK'
         /\ \A s \in Requests : /\ calls'[s].stage = calls[s].stage
                                /\ calls'[s].priority = calls[s].priority
                                /\ calls'[s].createdAt = calls[s].createdAt
                                /\ calls'[s].front = calls[s].front
         /\ older' = older
<1> DEFINE c == [calls[r] EXCEPT !.late = TRUE]
<1>1. calls[r] \in Call
  BY Zenon DEF TypeOK
<1>2. \A l \in BOOLEAN : [calls[r] EXCEPT !.late = l] \in Call
  BY <1>1, SMT DEF Call
<1>3. c \in Call
  BY <1>2, Zenon
<1>4. c.stage = calls[r].stage /\ c.priority = calls[r].priority /\ c.createdAt = calls[r].createdAt
  BY <1>1, SMT DEF Call
<1>5. c.front = calls[r].front
  BY <1>1, Zenon DEF Call
<1>6. /\ calls' \in [Requests -> Call]
      /\ calls'[r] = c
      /\ \A s \in Requests \ {r} : calls'[s] = calls[s]
      /\ older' \in [Requests -> SUBSET Requests]
  BY <1>3, BecomesFacts, Zenon DEF WaitOver
<1>7. older' = older
  BY <1>4, Zenon DEF WaitOver, Becomes
<1> HIDE DEF c
<1>8. \A s \in Requests : /\ calls'[s].stage = calls[s].stage
                          /\ calls'[s].priority = calls[s].priority
                          /\ calls'[s].createdAt = calls[s].createdAt
                          /\ calls'[s].front = calls[s].front
  BY <1>4, <1>5, <1>6, Zenon
<1> QED
  BY <1>6, <1>7, <1>8, Zenon DEF CallsOK, TypeOK

\* An arriving request waits after the requests that poll.
LEMMA ArriveKeepsCalls ==
  ASSUME TypeOK, NEW r \in Requests, NEW p \in Priorities, NEW t \in Times, Arrive(r, p, t)
  PROVE  /\ CallsOK'
         /\ calls'[r].stage \in {"adding", "counting"}
         /\ calls'[r].stage = "adding" <=> QueueMode
         /\ ~calls'[r].front
         /\ \A s \in Requests \ {r} : calls'[s] = calls[s] /\ older'[s] = older[s]
<1> DEFINE st == IF QueueMode THEN "adding" ELSE "counting"
           c == [stage |-> st, priority |-> p, createdAt |-> t, front |-> FALSE, late |-> FALSE]
<1>1. st \in Stages /\ st \in {"adding", "counting"} /\ (st = "adding" <=> QueueMode)
  BY SlotsAssumption, Zenon DEF Stages
<1> HIDE DEF st
<1>2. \A f \in BOOLEAN, l \in BOOLEAN :
        [stage |-> st, priority |-> p, createdAt |-> t, front |-> f, late |-> l] \in Call
  BY <1>1, SMT DEF Call
<1>3. c \in Call /\ c.stage = st /\ c.front = FALSE
  BY <1>2, Zenon
<1>4. calls' = [calls EXCEPT ![r] = c]
  BY Zenon DEF Arrive, st
<1> HIDE DEF c
<1>5. calls' \in [Requests -> Call] /\ calls'[r] = c /\ \A s \in Requests \ {r} : calls'[s] = calls[s]
  BY <1>3, <1>4, SMT DEF TypeOK
<1>6. /\ older' \in [Requests -> SUBSET Requests]
      /\ older'[r] = { s \in Requests : calls[s].stage \in Polling }
      /\ \A s \in Requests \ {r} : older'[s] = older[s]
  BY SMT DEF Arrive, TypeOK
<1>7. calls[r].stage = "idle" /\ calls[r].stage \notin Polling
  BY Zenon DEF Arrive, Polling
<1>8. \A q \in Requests : calls'[q].front => calls'[q].stage = "counting"
  BY <1>3, <1>5, Zenon DEF TypeOK
<1>9. \A q, s \in Requests : s \in older'[q] => calls'[s].stage \in Polling
  <2> SUFFICES ASSUME NEW q \in Requests, NEW s \in Requests, s \in older'[q]
               PROVE  calls'[s].stage \in Polling
    BY Zenon
  <2>1. calls[s].stage \in Polling
    BY <1>6, SMT DEF TypeOK
  <2> QED
    BY <2>1, <1>5, <1>7, Zenon
<1> QED
  BY <1>1, <1>3, <1>5, <1>6, <1>8, <1>9, Zenon DEF CallsOK

-----------------------------------------------------------------------------
(* Type correctness *)

\* Every step keeps the types.
LEMMA TypeStep ==
  ASSUME TypeOK, [Next]_vars
  PROVE  TypeOK'
<1> DEFINE Sets == /\ queue' \subseteq Requests
                   /\ slots' \subseteq Requests
                   /\ strays' \subseteq Requests
           Counters == /\ ttl' \in BOOLEAN
                       /\ faults' \in 0..MaxFaults
                       /\ aborts' \in 0..MaxAborts
                       /\ crashes' \in 0..MaxCrashes
<1>1. ASSUME Sets, Counters, CallsOK' PROVE TypeOK'
  BY <1>1, Zenon DEF TypeOK, CallsOK
<1>2. CallsOK
  BY Zenon DEF TypeOK, CallsOK
<1>3. ASSUME NEW r \in Requests, NEW p \in Priorities, NEW t \in Times, Arrive(r, p, t)
      PROVE  TypeOK'
  <2>1. CallsOK'
    BY <1>3, ArriveKeepsCalls, Zenon
  <2>2. Sets /\ Counters
    BY <1>3, SMT DEF Arrive, TypeOK
  <2> QED
    BY <1>1, <2>1, <2>2, Zenon
<1>4. ASSUME NEW r \in Requests, NEW ok \in BOOLEAN, CommandStep(r, ok)
      PROVE  TypeOK'
  <2>1. CASE Enqueue(r, ok)
    <3>1. CallsOK'
      BY <2>1, MoveKeepsCalls, Zenon DEF Enqueue, Stages
    <3>2. Sets /\ Counters
      BY <2>1, CommandFacts, MarkedFacts, SMT DEF Enqueue, TypeOK
    <3> QED
      BY <1>1, <3>1, <3>2, Zenon
  <2>2. ASSUME NEW front \in BOOLEAN, AskFront(r, front, ok)
        PROVE  TypeOK'
    <3>1. CallsOK'
      BY <2>2, AskKeepsCalls, Zenon DEF AskFront
    <3>2. Sets /\ Counters
      BY <2>2, CommandFacts, SMT DEF AskFront, TypeOK
    <3> QED
      BY <1>1, <3>1, <3>2, Zenon
  <2>3. CASE CountSlots(r, ok)
    <3>1. CallsOK'
      BY <2>3, MoveKeepsCalls, DecisionFacts, Zenon DEF CountSlots
    <3>2. Sets /\ Counters
      BY <2>3, CommandFacts, SMT DEF CountSlots, TypeOK
    <3> QED
      BY <1>1, <3>1, <3>2, Zenon
  <2>4. CASE Leave(r, ok)
    <3>1. CallsOK'
      BY <2>4, MoveKeepsCalls, Zenon DEF Leave, Stages
    <3>2. Sets /\ Counters
      BY <2>4, CommandFacts, MarkedFacts, SMT DEF Leave, TypeOK
    <3> QED
      BY <1>1, <3>1, <3>2, Zenon
  <2>5. CASE Enter(r, ok)
    <3>1. CallsOK'
      BY <2>5, MoveKeepsCalls, Zenon DEF Enter, Stages
    <3>2. Sets /\ Counters
      BY <2>5, CommandFacts, MarkedFacts, SMT DEF Enter, TypeOK
    <3> QED
      BY <1>1, <3>1, <3>2, Zenon
  <2>6. CASE Renew(r, ok)
    <3>1. CallsOK'
      BY <2>6, MoveKeepsCalls, Zenon DEF Renew, Stages
    <3>2. faults' \in 0..MaxFaults /\ Marked(r, ok) \subseteq Requests
      BY <2>6, CommandFacts, MarkedFacts, Zenon DEF Renew
    <3>3. (ttl \/ Renews(ok)) \in BOOLEAN
      BY Zenon
    <3>4. Sets /\ Counters
      BY <2>6, <3>2, <3>3, Zenon DEF Renew, TypeOK
    <3> QED
      BY <1>1, <3>1, <3>4, Zenon
  <2>7. CASE Release(r, ok)
    <3>1. CallsOK'
      BY <2>7, MoveKeepsCalls, Zenon DEF Release, Stages
    <3>2. faults' \in 0..MaxFaults /\ Marked(r, ok) \subseteq Requests
      BY <2>7, CommandFacts, MarkedFacts, Zenon DEF Release
    <3>3. (ttl /\ slots' # {}) \in BOOLEAN
      BY Zenon
    <3>4. slots' \subseteq slots
      BY <2>7, SMT DEF Release
    <3>5. Sets /\ Counters
      BY <2>7, <3>2, <3>3, <3>4, Zenon DEF Release, TypeOK
    <3> QED
      BY <1>1, <3>1, <3>5, Zenon
  <2> QED
    BY <1>4, <2>1, <2>2, <2>3, <2>4, <2>5, <2>6, <2>7, Zenon DEF CommandStep
<1>5. ASSUME NEW r \in Requests, WaitOver(r)
      PROVE  TypeOK'
  <2>1. CallsOK'
    BY <1>5, WaitKeepsCalls, Zenon
  <2>2. Sets /\ Counters
    BY <1>5, Zenon DEF WaitOver, TypeOK
  <2> QED
    BY <1>1, <2>1, <2>2, Zenon
<1>6. ASSUME NEW r \in Requests, Finish(r)
      PROVE  TypeOK'
  <2>1. CallsOK'
    BY <1>6, MoveKeepsCalls, Zenon DEF Finish, Stages
  <2>2. Sets /\ Counters
    BY <1>6, Zenon DEF Finish, TypeOK
  <2> QED
    BY <1>1, <2>1, <2>2, Zenon
<1>7. ASSUME NEW r \in Requests, Abort(r)
      PROVE  TypeOK'
  <2>1. CallsOK'
    BY <1>7, MoveKeepsCalls, Zenon DEF Abort, Stages
  <2>2. Sets /\ Counters
    BY <1>7, SlotsAssumption, SMT DEF Abort, TypeOK
  <2> QED
    BY <1>1, <2>1, <2>2, Zenon
<1>8. ASSUME NEW r \in Requests, Crash(r)
      PROVE  TypeOK'
  <2>1. CallsOK'
    BY <1>8, MoveKeepsCalls, Zenon DEF Crash, Stages
  <2>2. Sets /\ Counters
    BY <1>8, SlotsAssumption, SMT DEF Crash, TypeOK
  <2> QED
    BY <1>1, <2>1, <2>2, Zenon
<1>9. CASE Expire
  <2>1. CallsOK'
    BY <1>2, <1>9, Zenon DEF Expire, CallsOK
  <2>2. Sets
    BY <1>9, SMT DEF Expire, TypeOK
  <2>3. Counters
    BY <1>9, Zenon DEF Expire, TypeOK
  <2> QED
    BY <1>1, <2>1, <2>2, <2>3, Zenon
<1>10. CASE UNCHANGED vars
  BY <1>10, Zenon DEF vars, TypeOK
<1> QED
  BY <1>3, <1>4, <1>5, <1>6, <1>7, <1>8, <1>9, <1>10, Zenon DEF Next

\* The initial state has the types.
LEMMA TypeInit ==
  ASSUME Init
  PROVE  TypeOK
<1>1. PICK p \in Priorities, t \in Times :
        calls = [r \in Requests |-> [stage |-> "idle", priority |-> p, createdAt |-> t,
                                     front |-> FALSE, late |-> FALSE]]
  BY Zenon DEF Init
<1>2. \A f \in BOOLEAN, l \in BOOLEAN :
        [stage |-> "idle", priority |-> p, createdAt |-> t, front |-> f, late |-> l] \in Call
  BY SMT DEF Call, Stages
<1>3. calls \in [Requests -> Call] /\ \A r \in Requests : ~calls[r].front
  BY <1>1, <1>2, Zenon
<1>4. older \in [Requests -> SUBSET Requests] /\ \A r \in Requests : older[r] = {}
  BY SMT DEF Init
<1>5. faults \in 0..MaxFaults /\ aborts \in 0..MaxAborts /\ crashes \in 0..MaxCrashes
  BY SlotsAssumption, SMT DEF Init
<1>6. queue \subseteq Requests /\ slots \subseteq Requests /\ strays \subseteq Requests
  BY SMT DEF Init
<1>7. ttl \in BOOLEAN
  BY Zenon DEF Init
<1> QED
  BY <1>3, <1>4, <1>5, <1>6, <1>7, SMT DEF TypeOK

\* Every variable always has its type.
THEOREM TypeCorrect == Spec => []TypeOK
<1>1. Init => TypeOK
  BY TypeInit
<1>2. TypeOK /\ [Next]_vars => TypeOK'
  BY TypeStep
<1> QED
  BY <1>1, <1>2, PTL DEF Spec

-----------------------------------------------------------------------------
(* Slots and queue entries *)

\* Outside queue mode the queue is empty and nobody is on the way to it.
ModeInv ==
  /\ ~QueueMode => queue = {}
  /\ \A r \in Requests : calls[r].stage \in {"adding", "asking"} => QueueMode

AccountInv == ModeInv /\ EntriesAccounted /\ ExpiryArmed

\* Every step keeps the books of the queue and of the slots.
LEMMA AccountStep ==
  ASSUME TypeOK, AccountInv, [Next]_vars
  PROVE  AccountInv'
<1> USE DEF AccountInv
<1>1. ASSUME NEW r \in Requests, NEW p \in Priorities, NEW t \in Times, Arrive(r, p, t)
      PROVE  AccountInv'
  <2>1. /\ calls'[r].stage \in {"adding", "counting"}
        /\ calls'[r].stage = "adding" <=> QueueMode
        /\ \A s \in Requests \ {r} : calls'[s] = calls[s]
    BY <1>1, ArriveKeepsCalls, Zenon
  <2>2. /\ r \notin queue /\ r \notin slots
        /\ queue' = queue /\ slots' = slots /\ ttl' = ttl /\ strays' = strays \ {r}
    BY <1>1, SMT DEF Arrive
  <2>3. queue \subseteq Requests /\ slots \subseteq Requests
    BY Zenon DEF TypeOK
  <2>4. ModeInv'
    BY <2>1, <2>2, SMT DEF ModeInv
  <2>5. EntriesAccounted'
    BY <2>1, <2>2, <2>3, SMT DEF EntriesAccounted, Polling
  <2>6. ExpiryArmed'
    BY <2>1, <2>2, <2>3, SMT DEF ExpiryArmed
  <2> QED
    BY <2>4, <2>5, <2>6
<1>2. ASSUME NEW r \in Requests, NEW ok \in BOOLEAN, CommandStep(r, ok)
      PROVE  AccountInv'
  <2>1. CASE Enqueue(r, ok)
    <3>1. /\ calls'[r].stage = "asking"
          /\ \A s \in Requests \ {r} : calls'[s] = calls[s]
      BY <2>1, MoveFacts, Zenon DEF Enqueue, Stages
    <3>2. queue \subseteq Requests /\ slots \subseteq Requests
      BY Zenon DEF TypeOK
    <3>3. ModeInv'
      BY <2>1, <3>1, SMT DEF ModeInv, Enqueue
    <3>4. EntriesAccounted'
      BY <2>1, <3>1, <3>2, MarkedFacts, SMT DEF ModeInv, EntriesAccounted, Enqueue, Polling
    <3>5. ExpiryArmed'
      BY <2>1, <3>1, <3>2, MarkedFacts, SMT DEF ExpiryArmed, Enqueue
    <3> QED
      BY <3>3, <3>4, <3>5
  <2>2. ASSUME NEW front \in BOOLEAN, AskFront(r, front, ok)
        PROVE  AccountInv'
    <3>1. /\ calls'[r].stage = "counting"
          /\ \A s \in Requests \ {r} : calls'[s] = calls[s]
      BY <2>2, AskKeepsCalls, Zenon DEF AskFront
    <3>2. /\ queue' = queue /\ slots' = slots /\ ttl' = ttl /\ strays' = strays
          /\ calls[r].stage = "asking"
      BY <2>2, Zenon DEF AskFront
    <3>3. queue \subseteq Requests /\ slots \subseteq Requests
      BY Zenon DEF TypeOK
    <3>4. ModeInv'
      BY <3>1, <3>2, SMT DEF ModeInv
    <3>5. EntriesAccounted'
      BY <3>1, <3>2, <3>3, SMT DEF EntriesAccounted, Polling
    <3>6. ExpiryArmed'
      BY <3>1, <3>2, <3>3, SMT DEF ExpiryArmed
    <3> QED
      BY <3>4, <3>5, <3>6
  <2>3. CASE CountSlots(r, ok)
    <3>1. /\ calls'[r].stage = (Decision(r, IF ok THEN Cardinality(slots) ELSE 0))
          /\ \A s \in Requests \ {r} : calls'[s] = calls[s]
      BY <2>3, MoveFacts, DecisionFacts, Zenon DEF CountSlots, Stages
    <3>2. queue \subseteq Requests /\ slots \subseteq Requests
      BY Zenon DEF TypeOK
    <3>3. ModeInv'
      BY <2>3, <3>1, DecisionFacts, SMT DEF ModeInv, CountSlots
    <3>4. EntriesAccounted'
      BY <2>3, <3>1, <3>2, DecisionFacts, SMT DEF ModeInv, EntriesAccounted, CountSlots, Polling
    <3>5. ExpiryArmed'
      BY <2>3, <3>1, <3>2, DecisionFacts, SMT DEF ExpiryArmed, CountSlots
    <3> QED
      BY <3>3, <3>4, <3>5
  <2>4. CASE Leave(r, ok)
    <3>1. /\ calls'[r].stage = (IF calls[r].stage = "leaving" THEN "entering" ELSE "bypassing")
          /\ \A s \in Requests \ {r} : calls'[s] = calls[s]
      BY <2>4, MoveFacts, Zenon DEF Leave, Stages
    <3>2. queue \subseteq Requests /\ slots \subseteq Requests
      BY Zenon DEF TypeOK
    <3>3. ModeInv'
      BY <2>4, <3>1, SMT DEF ModeInv, Leave
    <3>4. EntriesAccounted'
      BY <2>4, <3>1, <3>2, MarkedFacts, SMT DEF ModeInv, EntriesAccounted, Leave, Polling
    <3>5. ExpiryArmed'
      BY <2>4, <3>1, <3>2, MarkedFacts, SMT DEF ExpiryArmed, Leave
    <3> QED
      BY <3>3, <3>4, <3>5
  <2>5. CASE Enter(r, ok)
    <3>1. /\ calls'[r].stage = "renewing"
          /\ \A s \in Requests \ {r} : calls'[s] = calls[s]
      BY <2>5, MoveFacts, Zenon DEF Enter, Stages
    <3>2. queue \subseteq Requests /\ slots \subseteq Requests
      BY Zenon DEF TypeOK
    <3>3. ModeInv'
      BY <2>5, <3>1, SMT DEF ModeInv, Enter
    <3>4. EntriesAccounted'
      BY <2>5, <3>1, <3>2, MarkedFacts, SMT DEF ModeInv, EntriesAccounted, Enter, Polling
    <3>5. ExpiryArmed'
      BY <2>5, <3>1, <3>2, MarkedFacts, SMT DEF ExpiryArmed, Enter
    <3> QED
      BY <3>3, <3>4, <3>5
  <2>6. CASE Renew(r, ok)
    <3>1. /\ calls'[r].stage = "holding"
          /\ \A s \in Requests \ {r} : calls'[s] = calls[s]
      BY <2>6, MoveFacts, Zenon DEF Renew, Stages
    <3>2. queue \subseteq Requests /\ slots \subseteq Requests
      BY Zenon DEF TypeOK
    <3>3. ModeInv'
      BY <2>6, <3>1, SMT DEF ModeInv, Renew
    <3>4. EntriesAccounted'
      BY <2>6, <3>1, <3>2, MarkedFacts, SMT DEF ModeInv, EntriesAccounted, Renew, Polling
    <3>5. ExpiryArmed'
      <4> SUFFICES ASSUME ~ttl', NEW q \in slots'
                   PROVE  calls'[q].stage = "renewing" \/ q \in strays'
        BY Zenon DEF ExpiryArmed
      <4>1. /\ ~ttl /\ ~Renews(ok)
            /\ slots' = slots /\ strays' = Marked(r, ok)
        BY <2>6, Zenon DEF Renew
      <4>2. q \in slots /\ q \in Requests /\ ~ok
        BY <3>2, <4>1, Zenon DEF Renews
      <4>3. strays \subseteq strays' /\ r \in strays'
        BY <4>1, <4>2, MarkedFacts, Zenon
      <4>4. calls[q].stage = "renewing" \/ q \in strays
        BY <4>1, <4>2, Zenon DEF ExpiryArmed
      <4> QED
        BY <3>1, <4>2, <4>3, <4>4, Zenon
    <3> QED
      BY <3>3, <3>4, <3>5
  <2>7. CASE Release(r, ok)
    <3>1. /\ calls'[r].stage = "idle"
          /\ \A s \in Requests \ {r} : calls'[s] = calls[s]
      BY <2>7, MoveFacts, Zenon DEF Release, Stages
    <3>2. queue \subseteq Requests /\ slots \subseteq Requests
      BY Zenon DEF TypeOK
    <3>3. ModeInv'
      BY <2>7, <3>1, SMT DEF ModeInv, Release
    <3>4. EntriesAccounted'
      BY <2>7, <3>1, <3>2, MarkedFacts, SMT DEF ModeInv, EntriesAccounted, Release, Polling
    <3>5. ExpiryArmed'
      <4> SUFFICES ASSUME ~ttl', NEW q \in slots'
                   PROVE  calls'[q].stage = "renewing" \/ q \in strays'
        BY Zenon DEF ExpiryArmed
      <4>1. ~ttl
        BY <2>7, Zenon DEF Release
      <4>2. q \in slots /\ q \in Requests /\ (q = r => ~ok)
        BY <2>7, <3>2, SMT DEF Release
      <4>3. strays \subseteq strays' /\ (~ok => r \in strays')
        BY <2>7, MarkedFacts, Zenon DEF Release
      <4>4. calls[q].stage = "renewing" \/ q \in strays
        BY <4>1, <4>2, Zenon DEF ExpiryArmed
      <4> QED
        BY <3>1, <4>2, <4>3, <4>4, Zenon
    <3> QED
      BY <3>3, <3>4, <3>5
  <2> QED
    BY <1>2, <2>1, <2>2, <2>3, <2>4, <2>5, <2>6, <2>7, Zenon DEF CommandStep
<1>3. ASSUME NEW r \in Requests, WaitOver(r)
      PROVE  AccountInv'
  <2>1. /\ \A s \in Requests : calls'[s].stage = calls[s].stage
        /\ queue' = queue /\ slots' = slots /\ ttl' = ttl /\ strays' = strays
    BY <1>3, WaitKeepsCalls, Zenon DEF WaitOver
  <2>2. queue \subseteq Requests /\ slots \subseteq Requests
    BY Zenon DEF TypeOK
  <2> QED
    BY <2>1, <2>2, SMT DEF ModeInv, EntriesAccounted, ExpiryArmed
<1>4. ASSUME NEW r \in Requests, Finish(r)
      PROVE  AccountInv'
  <2>1. /\ calls'[r].stage = (IF calls[r].stage = "holding" THEN "releasing" ELSE "idle")
        /\ \A s \in Requests \ {r} : calls'[s] = calls[s]
    BY <1>4, MoveFacts, Zenon DEF Finish, Stages
  <2>2. queue \subseteq Requests /\ slots \subseteq Requests
    BY Zenon DEF TypeOK
  <2>3. ModeInv'
    BY <1>4, <2>1, SMT DEF ModeInv, Finish
  <2>4. EntriesAccounted'
    BY <1>4, <2>1, <2>2, SMT DEF ModeInv, EntriesAccounted, Finish, Polling
  <2>5. ExpiryArmed'
    BY <1>4, <2>1, <2>2, SMT DEF ExpiryArmed, Finish
  <2> QED
    BY <2>3, <2>4, <2>5
<1>5. ASSUME NEW r \in Requests, Abort(r)
      PROVE  AccountInv'
  <2>1. /\ calls'[r].stage = "idle"
        /\ \A s \in Requests \ {r} : calls'[s] = calls[s]
    BY <1>5, MoveFacts, Zenon DEF Abort, Stages
  <2>2. queue \subseteq Requests /\ slots \subseteq Requests
    BY Zenon DEF TypeOK
  <2>3. ModeInv'
    BY <1>5, <2>1, SMT DEF ModeInv, Abort
  <2>4. EntriesAccounted'
    BY <1>5, <2>1, <2>2, SMT DEF ModeInv, EntriesAccounted, Abort, Polling
  <2>5. ExpiryArmed'
    BY <1>5, <2>1, <2>2, SMT DEF ExpiryArmed, Abort
  <2> QED
    BY <2>3, <2>4, <2>5
<1>6. ASSUME NEW r \in Requests, Crash(r)
      PROVE  AccountInv'
  <2>1. /\ calls'[r].stage = "idle"
        /\ \A s \in Requests \ {r} : calls'[s] = calls[s]
    BY <1>6, MoveFacts, Zenon DEF Crash, Stages
  <2>2. queue \subseteq Requests /\ slots \subseteq Requests
    BY Zenon DEF TypeOK
  <2>3. ModeInv'
    BY <1>6, <2>1, SMT DEF ModeInv, Crash
  <2>4. EntriesAccounted'
    BY <1>6, <2>1, <2>2, SMT DEF ModeInv, EntriesAccounted, Crash, Polling
  <2>5. ExpiryArmed'
    BY <1>6, <2>1, <2>2, SMT DEF ExpiryArmed, Crash
  <2> QED
    BY <2>3, <2>4, <2>5
<1>7. CASE Expire
  <2>1. queue' = queue /\ slots' = {} /\ calls' = calls /\ strays' = strays
    BY <1>7, Zenon DEF Expire
  <2> QED
    BY <2>1, SMT DEF ModeInv, EntriesAccounted, ExpiryArmed
<1>8. CASE UNCHANGED vars
  BY <1>8, Zenon DEF vars, ModeInv, EntriesAccounted, ExpiryArmed
<1> QED
  BY <1>1, <1>2, <1>3, <1>4, <1>5, <1>6, <1>7, <1>8, Zenon DEF Next

\* The books are right at first.
LEMMA AccountInit ==
  ASSUME Init
  PROVE  AccountInv
<1>1. \A r \in Requests : calls[r].stage = "idle"
  BY SMT DEF Init
<1> QED
  BY <1>1, SMT DEF Init, AccountInv, ModeInv, EntriesAccounted, ExpiryArmed

\* No queue entry and no slot leaks without a fault.
THEOREM EverythingAccounted == Spec => []EntriesAccounted
<1>1. Init => TypeOK /\ AccountInv
  BY TypeInit, AccountInit
<1>2. TypeOK /\ AccountInv /\ [Next]_vars => (TypeOK /\ AccountInv)'
  BY TypeStep, AccountStep
<1>3. AccountInv => EntriesAccounted
  BY DEF AccountInv
<1> QED
  BY <1>1, <1>2, <1>3, PTL DEF Spec

\* While the slots have no expiry, everyone who holds one is about to set it.
THEOREM ExpiryAlwaysArmed == Spec => []ExpiryArmed
<1>1. Init => TypeOK /\ AccountInv
  BY TypeInit, AccountInit
<1>2. TypeOK /\ AccountInv /\ [Next]_vars => (TypeOK /\ AccountInv)'
  BY TypeStep, AccountStep
<1>3. AccountInv => ExpiryArmed
  BY DEF AccountInv
<1> QED
  BY <1>1, <1>2, <1>3, PTL DEF Spec

-----------------------------------------------------------------------------
(* The order of priorities in queue mode *)

\* The weight of a priority exceeds every difference of timestamps, so that the
\* scores order the priorities.
LEMMA ScoreOrder ==
  ASSUME NEW p \in Int, NEW q \in Int, NEW t \in Times, NEW u \in Times,
         p * Factor + t <= q * Factor + u
  PROVE  p <= q
<1>1. t \in Int /\ u \in Int /\ u - t < Factor /\ Factor \in Nat
  BY SlotsAssumption
<1>2. ASSUME p > q PROVE FALSE
  <2>1. p - q - 1 \in Nat
    BY <1>2
  <2>2. (p - q - 1) * Factor >= 0
    BY <1>1, <2>1
  <2>3. p * Factor >= q * Factor + Factor
    BY <1>1, <2>2
  <2>4. p * Factor \in Int /\ q * Factor \in Int
    BY <1>1
  <2> QED
    BY <1>1, <2>3, <2>4
<1> QED
  BY <1>2

\* No entry of the queue has a higher priority than the front.
LEMMA FrontFirst ==
  ASSUME TypeOK, NEW r \in Fronts, NEW s \in queue
  PROVE  calls[r].priority <= calls[s].priority
<1>1. r \in Requests /\ s \in Requests /\ Score(r) <= Score(s)
  BY DEF Fronts, TypeOK
<1>2. \A c \in Call : c.priority \in Priorities /\ c.createdAt \in Times
  BY SMT DEF Call
<1>3. calls[r] \in Call /\ calls[s] \in Call
  BY <1>1, Zenon DEF TypeOK
<1>4. /\ calls[r].priority \in Priorities /\ calls[s].priority \in Priorities
      /\ calls[r].createdAt \in Times /\ calls[s].createdAt \in Times
  BY <1>2, <1>3, Zenon
<1>5. calls[r].priority \in Int /\ calls[s].priority \in Int
  BY <1>4, SlotsAssumption, Zenon
<1> QED
  BY <1>1, <1>4, <1>5, ScoreOrder, Zenon DEF Score

\* Whoever polls is in the queue, and whoever won a turn, or is about to, came
\* before nobody of a higher priority that still polls.
OrderInv ==
  /\ \A r \in Requests : calls[r].stage \in Polling => r \in queue \/ r \in strays
  /\ \A r \in Requests : (calls[r].front \/ calls[r].stage \in {"leaving", "entering"}) =>
       \A s \in older[r] : s \in strays \/ calls[r].priority <= calls[s].priority

\* A request that moves on keeps the order, when it does not move into a turn.
LEMMA MoveKeepsOrder ==
  ASSUME TypeOK, OrderInv, NEW r \in Requests, NEW stage \in Stages,
         Becomes(r, At(r, stage)),
         strays \subseteq strays',
         stage \in Polling => r \in queue' \/ r \in strays',
         \A s \in Requests \ {r} : s \in queue => s \in queue',
         stage \in {"leaving", "entering"} =>
           calls[r].front \/ calls[r].stage \in {"leaving", "entering"}
  PROVE  OrderInv'
<1>1. ASSUME NEW q \in Requests, calls'[q].stage \in Polling
      PROVE  q \in queue' \/ q \in strays'
  <2>1. CASE q = r
    BY <1>1, <2>1, MoveFacts, Zenon
  <2>2. CASE q # r
    <3>1. calls'[q] = calls[q]
      BY <2>2, MoveFacts, Zenon
    <3>2. q \in queue \/ q \in strays
      BY <1>1, <3>1, Zenon DEF OrderInv
    <3> QED
      BY <2>2, <3>2, Zenon
  <2> QED
    BY <2>1, <2>2, Zenon
<1>2. ASSUME NEW q \in Requests,
             calls'[q].front \/ calls'[q].stage \in {"leaving", "entering"},
             NEW s \in older'[q]
      PROVE  s \in strays' \/ calls'[q].priority <= calls'[s].priority
  <2>1. s \in older[q] /\ s \in Requests
    BY MoveFacts, Zenon DEF TypeOK
  <2>2. calls[q].front \/ calls[q].stage \in {"leaving", "entering"}
    <3>1. CASE q = r
      BY <1>2, <3>1, MoveFacts, Zenon
    <3>2. CASE q # r
      BY <1>2, <3>2, MoveFacts, Zenon
    <3> QED
      BY <3>1, <3>2, Zenon
  <2>3. s \in strays \/ calls[q].priority <= calls[s].priority
    BY <2>1, <2>2, Zenon DEF OrderInv
  <2>4. calls'[q].priority = calls[q].priority /\ calls'[s].priority = calls[s].priority
    BY <2>1, MoveFacts, Zenon
  <2> QED
    BY <2>3, <2>4, Zenon
<1> QED
  BY <1>1, <1>2, Zenon DEF OrderInv

\* Every step keeps the order in queue mode.
LEMMA OrderStep ==
  ASSUME QueueMode, TypeOK, OrderInv, [Next]_vars
  PROVE  OrderInv'
<1>1. ASSUME NEW r \in Requests, NEW p \in Priorities, NEW t \in Times, Arrive(r, p, t)
      PROVE  OrderInv'
  <2>1. /\ calls'[r].stage = "adding" /\ ~calls'[r].front
        /\ \A s \in Requests \ {r} : calls'[s] = calls[s] /\ older'[s] = older[s]
    BY <1>1, ArriveKeepsCalls, Zenon
  <2>2. queue' = queue /\ strays' = strays \ {r} /\ calls[r].stage = "idle"
    BY <1>1, Zenon DEF Arrive
  <2>3. ASSUME NEW q \in Requests, calls'[q].stage \in Polling
        PROVE  q \in queue' \/ q \in strays'
    <3>1. q # r
      BY <2>1, <2>3, Zenon DEF Polling
    <3>2. q \in queue \/ q \in strays
      BY <2>1, <2>3, <3>1, Zenon DEF OrderInv
    <3> QED
      BY <2>2, <3>1, <3>2, SMT
  <2>4. ASSUME NEW q \in Requests,
               calls'[q].front \/ calls'[q].stage \in {"leaving", "entering"},
               NEW s \in older'[q]
        PROVE  s \in strays' \/ calls'[q].priority <= calls'[s].priority
    <3>1. q # r
      BY <2>1, <2>4, Zenon
    <3>2. /\ calls[q].front \/ calls[q].stage \in {"leaving", "entering"}
          /\ s \in older[q] /\ s \in Requests
      BY <2>1, <2>4, <3>1, Zenon DEF TypeOK
    <3>3. calls[s].stage \in Polling
      BY <3>2, Zenon DEF TypeOK
    <3>4. s # r
      BY <2>2, <3>3, Zenon DEF Polling
    <3>5. s \in strays \/ calls[q].priority <= calls[s].priority
      BY <3>2, Zenon DEF OrderInv
    <3>6. s \in strays => s \in strays'
      BY <2>2, <3>4, SMT
    <3>7. calls'[q] = calls[q] /\ calls'[s] = calls[s]
      BY <2>1, <3>1, <3>2, <3>4, Zenon
    <3> QED
      BY <3>5, <3>6, <3>7, Zenon
  <2> QED
    BY <2>3, <2>4, Zenon DEF OrderInv
<1>2. ASSUME NEW r \in Requests, NEW ok \in BOOLEAN, CommandStep(r, ok)
      PROVE  OrderInv'
  <2>0. strays \subseteq Marked(r, ok) /\ (~ok => r \in Marked(r, ok))
    BY MarkedFacts, Zenon
  <2>1. CASE Enqueue(r, ok)
    <3>1. /\ "asking" \in Stages /\ Becomes(r, At(r, "asking"))
          /\ strays' = Marked(r, ok)
          /\ queue' = IF ok THEN queue \cup {r} ELSE queue
      BY <2>1, Zenon DEF Enqueue, Stages
    <3>2. /\ r \in queue' \/ r \in strays'
          /\ queue \subseteq queue'
      BY <2>0, <3>1, SMT
    <3> QED
      BY <2>0, <3>1, <3>2, MoveKeepsOrder, Zenon
  <2>2. ASSUME NEW front \in BOOLEAN, AskFront(r, front, ok)
        PROVE  OrderInv'
    <3>1. /\ calls'[r].stage = "counting" /\ calls'[r].front = front
          /\ \A s \in Requests : calls'[s].priority = calls[s].priority
          /\ \A s \in Requests \ {r} : calls'[s] = calls[s]
          /\ older' = older
      BY <2>2, AskKeepsCalls, Zenon DEF AskFront
    <3>2. queue' = queue /\ strays' = strays /\ calls[r].stage = "asking"
      BY <2>2, Zenon DEF AskFront
    <3>3. front => r \in Fronts
      BY <2>2, Zenon DEF AskFront
    <3>4. ASSUME NEW q \in Requests, calls'[q].stage \in Polling
          PROVE  q \in queue' \/ q \in strays'
      <4>1. calls[q].stage \in Polling
        BY <3>1, <3>2, <3>4, Zenon DEF Polling
      <4> QED
        BY <3>2, <4>1, Zenon DEF OrderInv
    <3>5. ASSUME NEW q \in Requests,
                 calls'[q].front \/ calls'[q].stage \in {"leaving", "entering"},
                 NEW s \in older'[q]
          PROVE  s \in strays' \/ calls'[q].priority <= calls'[s].priority
      <4>1. s \in older[q] /\ s \in Requests
        BY <3>1, Zenon DEF TypeOK
      <4>2. CASE q = r
        <5>1. r \in Fronts
          BY <3>1, <3>3, <3>5, <4>2, Zenon
        <5>2. calls[s].stage \in Polling
          BY <4>1, Zenon DEF TypeOK
        <5>3. s \in queue \/ s \in strays
          BY <4>1, <5>2, Zenon DEF OrderInv
        <5>4. s \in queue => calls[r].priority <= calls[s].priority
          BY <5>1, FrontFirst, Zenon
        <5> QED
          BY <3>1, <3>2, <4>1, <4>2, <5>3, <5>4, Zenon
      <4>3. CASE q # r
        <5>1. calls[q].front \/ calls[q].stage \in {"leaving", "entering"}
          BY <3>1, <3>5, <4>3, Zenon
        <5>2. s \in strays \/ calls[q].priority <= calls[s].priority
          BY <4>1, <5>1, Zenon DEF OrderInv
        <5> QED
          BY <3>1, <3>2, <4>1, <5>2, Zenon
      <4> QED
        BY <4>2, <4>3, Zenon
    <3> QED
      BY <3>4, <3>5, Zenon DEF OrderInv
  <2>3. CASE CountSlots(r, ok)
    <3>1. PICK n : /\ calls[r].stage = "counting"
                   /\ Becomes(r, At(r, Decision(r, n)))
                   /\ queue' = queue /\ strays' = strays
      BY <2>3, Zenon DEF CountSlots
    <3>2. /\ Decision(r, n) \in Stages
          /\ Decision(r, n) \in {"leaving", "quitting", "asking"}
          /\ Decision(r, n) = "leaving" => calls[r].front
      BY DecisionFacts, Zenon
    <3>3. r \in queue' \/ r \in strays'
      BY <3>1, Zenon DEF OrderInv, Polling
    <3> QED
      BY <3>1, <3>2, <3>3, MoveKeepsOrder, Zenon
  <2>4. CASE Leave(r, ok)
    <3> DEFINE st == IF calls[r].stage = "leaving" THEN "entering" ELSE "bypassing"
    <3>1. /\ st \in Stages /\ Becomes(r, At(r, st)) /\ st \notin Polling
          /\ st \in {"leaving", "entering"} => calls[r].stage = "leaving"
          /\ strays' = Marked(r, ok)
      BY <2>4, Zenon DEF Leave, Stages, Polling
    <3>2. \A s \in Requests \ {r} : s \in queue => s \in queue'
      BY <2>4, SMT DEF Leave
    <3> HIDE DEF st
    <3> QED
      BY <2>0, <3>1, <3>2, MoveKeepsOrder, Zenon
  <2>5. CASE Enter(r, ok)
    <3>1. /\ "renewing" \in Stages /\ Becomes(r, At(r, "renewing")) /\ "renewing" \notin Polling
          /\ "renewing" \notin {"leaving", "entering"}
          /\ strays' = Marked(r, ok) /\ queue' = queue
      BY <2>5, Zenon DEF Enter, Stages, Polling
    <3> QED
      BY <2>0, <3>1, MoveKeepsOrder, Zenon
  <2>6. CASE Renew(r, ok)
    <3>1. /\ "holding" \in Stages /\ Becomes(r, At(r, "holding")) /\ "holding" \notin Polling
          /\ "holding" \notin {"leaving", "entering"}
          /\ strays' = Marked(r, ok) /\ queue' = queue
      BY <2>6, Zenon DEF Renew, Stages, Polling
    <3> QED
      BY <2>0, <3>1, MoveKeepsOrder, Zenon
  <2>7. CASE Release(r, ok)
    <3>1. /\ "idle" \in Stages /\ Becomes(r, At(r, "idle")) /\ "idle" \notin Polling
          /\ "idle" \notin {"leaving", "entering"}
          /\ strays' = Marked(r, ok) /\ queue' = queue
      BY <2>7, Zenon DEF Release, Stages, Polling
    <3> QED
      BY <2>0, <3>1, MoveKeepsOrder, Zenon
  <2> QED
    BY <1>2, <2>1, <2>2, <2>3, <2>4, <2>5, <2>6, <2>7, Zenon DEF CommandStep
<1>3. ASSUME NEW r \in Requests, WaitOver(r)
      PROVE  OrderInv'
  <2>1. /\ \A s \in Requests : /\ calls'[s].stage = calls[s].stage
                               /\ calls'[s].priority = calls[s].priority
                               /\ calls'[s].front = calls[s].front
        /\ older' = older /\ queue' = queue /\ strays' = strays
    BY <1>3, WaitKeepsCalls, Zenon DEF WaitOver
  <2>2. \A q \in Requests : \A s \in older[q] : s \in Requests
    BY Zenon DEF TypeOK
  <2> QED
    BY <2>1, <2>2, Zenon DEF OrderInv
<1>4. ASSUME NEW r \in Requests, Finish(r)
      PROVE  OrderInv'
  <2> DEFINE st == IF calls[r].stage = "holding" THEN "releasing" ELSE "idle"
  <2>1. /\ st \in Stages /\ Becomes(r, At(r, st)) /\ st \notin Polling
        /\ st \notin {"leaving", "entering"}
        /\ strays' = strays /\ queue' = queue
    BY <1>4, Zenon DEF Finish, Stages, Polling
  <2> HIDE DEF st
  <2> QED
    BY <2>1, MoveKeepsOrder, Zenon
<1>5. ASSUME NEW r \in Requests, Abort(r) \/ Crash(r)
      PROVE  OrderInv'
  <2>1. /\ "idle" \in Stages /\ Becomes(r, At(r, "idle")) /\ "idle" \notin Polling
        /\ "idle" \notin {"leaving", "entering"}
        /\ strays \subseteq strays' /\ queue' = queue
    BY <1>5, Zenon DEF Abort, Crash, Stages, Polling
  <2> QED
    BY <2>1, MoveKeepsOrder, Zenon
<1>6. CASE Expire
  BY <1>6, Zenon DEF Expire, OrderInv
<1>7. CASE UNCHANGED vars
  BY <1>7, Zenon DEF vars, OrderInv
<1> QED
  BY <1>1, <1>2, <1>3, <1>4, <1>5, <1>6, <1>7, Zenon DEF Next

\* In queue mode no request takes a turn before a request of a higher priority
\* that was polling when it arrived.
THEOREM PriorityRespected ==
  ASSUME QueueMode
  PROVE  Spec => []HigherPriorityFirst
<1>1. Init => TypeOK /\ OrderInv
  <2> SUFFICES ASSUME Init PROVE TypeOK /\ OrderInv
    OBVIOUS
  <2>1. \A r \in Requests : calls[r].stage = "idle" /\ older[r] = {}
    BY SMT DEF Init
  <2>2. OrderInv
    BY <2>1, SMT DEF OrderInv, TypeOK, Polling
  <2> QED
    BY <2>2, TypeInit
<1>2. /\ TypeOK /\ OrderInv /\ [Next]_vars
      => (TypeOK /\ OrderInv)'
  BY TypeStep, OrderStep
<1>3. OrderInv => HigherPriorityFirst
  BY Zenon DEF OrderInv, HigherPriorityFirst
<1> QED
  BY <1>1, <1>2, <1>3, PTL DEF Spec
-----------------------------------------------------------------------------
(* By how much the limit is overrun *)

\* The requests that have found a free slot and have not taken it yet.
OnWay == { r \in Requests : calls[r].stage \in {"leaving", "entering"} }

\* Slots taken and slots about to be taken, while no more than K are about to be.
OverrunInv(K) ==
  /\ IsFiniteSet(slots)
  /\ IsFiniteSet(OnWay)
  /\ Cardinality(slots) + Cardinality(OnWay) <= Limit - 1 + K

\* A request that moves on joins or leaves those on their way.
LEMMA OnWayMoves ==
  ASSUME TypeOK, NEW r \in Requests, NEW stage \in Stages, Becomes(r, At(r, stage))
  PROVE  OnWay' = IF stage \in {"leaving", "entering"} THEN OnWay \cup {r} ELSE OnWay \ {r}
<1>1. calls'[r].stage = stage /\ \A s \in Requests \ {r} : calls'[s] = calls[s]
  BY MoveFacts, Zenon
<1> QED
  BY <1>1, SMT DEF OnWay

\* A request that stops being on its way, or was not, makes room and takes none.
LEMMA MoveKeepsOverrun ==
  ASSUME NEW K \in Nat, TypeOK, OverrunInv(K), NEW r \in Requests,
         NEW stage \in Stages \ {"leaving", "entering"},
         Becomes(r, At(r, stage)), slots' \subseteq slots
  PROVE  OverrunInv(K)'
<1>1. OnWay' \subseteq OnWay
  BY OnWayMoves, SMT
<1>2. /\ IsFiniteSet(slots') /\ Cardinality(slots') <= Cardinality(slots)
      /\ IsFiniteSet(OnWay') /\ Cardinality(OnWay') <= Cardinality(OnWay)
  BY <1>1, FS_Subset, Zenon DEF OverrunInv
<1>3. /\ Cardinality(slots) \in Nat /\ Cardinality(slots') \in Nat
      /\ Cardinality(OnWay) \in Nat /\ Cardinality(OnWay') \in Nat
  BY <1>2, FS_CardinalityType, Zenon DEF OverrunInv
<1> QED
  BY <1>2, <1>3, SlotsAssumption, SMT DEF OverrunInv

\* So does a step that leaves the stages of all requests alone, or only lets
\* one of them poll, and takes no slot.
LEMMA PollKeepsOverrun ==
  ASSUME NEW K \in Nat, OverrunInv(K), slots' \subseteq slots, OnWay' \subseteq OnWay
  PROVE  OverrunInv(K)'
<1>1. /\ IsFiniteSet(slots') /\ Cardinality(slots') <= Cardinality(slots)
      /\ IsFiniteSet(OnWay') /\ Cardinality(OnWay') <= Cardinality(OnWay)
  BY FS_Subset, Zenon DEF OverrunInv
<1>2. /\ Cardinality(slots) \in Nat /\ Cardinality(slots') \in Nat
      /\ Cardinality(OnWay) \in Nat /\ Cardinality(OnWay') \in Nat
  BY <1>1, FS_CardinalityType, Zenon DEF OverrunInv
<1> QED
  BY <1>1, <1>2, SlotsAssumption, SMT DEF OverrunInv

\* A request that finds a free slot adds itself to at most K - 1 others, and to
\* fewer than Limit slots.
LEMMA CountKeepsOverrun ==
  ASSUME NEW K \in Nat, TypeOK, OverrunInv(K), NEW r \in Requests,
         CountSlots(r, TRUE), Cardinality(OnWay') <= K
  PROVE  OverrunInv(K)'
<1> DEFINE n == Cardinality(slots)
           st == Decision(r, n)
<1>1. n \in Nat /\ Cardinality(OnWay) \in Nat
  BY FS_CardinalityType, Zenon DEF OverrunInv
<1>2. st \in Stages /\ Becomes(r, At(r, st)) /\ slots' = slots
  BY DecisionFacts, Zenon DEF CountSlots
<1>3. CASE st \in {"leaving", "entering"}
  <2>1. n < Limit
    BY <1>3, Zenon DEF Decision
  <2>2. OnWay' = OnWay \cup {r}
    BY <1>2, <1>3, OnWayMoves, Zenon
  <2>3. IsFiniteSet(OnWay')
    BY <2>2, FS_AddElement, Zenon DEF OverrunInv
  <2>4. Cardinality(OnWay') \in Nat
    BY <2>3, FS_CardinalityType, Zenon
  <2>5. Cardinality(slots) + Cardinality(OnWay') <= Limit - 1 + K
    BY <1>1, <2>1, <2>4, SlotsAssumption, SMT
  <2> HIDE DEF n, st
  <2> QED
    BY <1>2, <2>3, <2>5, Zenon DEF OverrunInv
<1>4. CASE st \notin {"leaving", "entering"}
  <2>1. st \in Stages \ {"leaving", "entering"}
    BY <1>2, <1>4, Zenon
  <2> HIDE DEF st
  <2> QED
    BY <1>2, <2>1, MoveKeepsOverrun, Zenon
<1> QED
  BY <1>3, <1>4, Zenon

\* The slot a request takes is one it was on its way to.
LEMMA EnterKeepsOverrun ==
  ASSUME NEW K \in Nat, TypeOK, OverrunInv(K), NEW r \in Requests, NEW ok \in BOOLEAN,
         Enter(r, ok)
  PROVE  OverrunInv(K)'
<1>1. "renewing" \in Stages /\ Becomes(r, At(r, "renewing"))
  BY Zenon DEF Enter, Stages
<1>2. OnWay' = OnWay \ {r}
  BY <1>1, OnWayMoves, Zenon
<1>3. r \in OnWay
  BY Zenon DEF Enter, OnWay
<1>4. /\ IsFiniteSet(OnWay') /\ Cardinality(OnWay') = Cardinality(OnWay) - 1
  BY <1>2, <1>3, FS_RemoveElement, Zenon DEF OverrunInv
<1>5. slots' = slots \cup {r} \/ slots' = slots
  BY Zenon DEF Enter
<1>6. /\ IsFiniteSet(slots')
      /\ Cardinality(slots') = Cardinality(slots) + 1 \/ Cardinality(slots') = Cardinality(slots)
  BY <1>5, FS_AddElement, Zenon DEF OverrunInv
<1>7. Cardinality(slots) \in Nat /\ Cardinality(OnWay) \in Nat
  BY FS_CardinalityType, Zenon DEF OverrunInv
<1> QED
  BY <1>4, <1>6, <1>7, SlotsAssumption, SMT DEF OverrunInv

\* Every step keeps the bound while commands succeed and K bounds the decisions
\* that are under way.
LEMMA OverrunStep ==
  ASSUME NEW K \in Nat, TypeOK, OverrunInv(K), [Next]_vars,
         faults = 0, faults' = 0, Cardinality(OnWay') <= K
  PROVE  OverrunInv(K)'
<1>1. ASSUME NEW r \in Requests, NEW p \in Priorities, NEW t \in Times, Arrive(r, p, t)
      PROVE  OverrunInv(K)'
  <2>1. /\ calls'[r].stage \in {"adding", "counting"}
        /\ \A s \in Requests \ {r} : calls'[s] = calls[s]
    BY <1>1, ArriveKeepsCalls, Zenon
  <2>2. OnWay' \subseteq OnWay
    BY <2>1, SMT DEF OnWay
  <2> QED
    BY <1>1, <2>2, PollKeepsOverrun, Zenon DEF Arrive
<1>2. ASSUME NEW r \in Requests, NEW ok \in BOOLEAN, CommandStep(r, ok)
      PROVE  OverrunInv(K)'
  <2>1. CASE Enqueue(r, ok)
    <3>1. "asking" \in Stages \ {"leaving", "entering"} /\ Becomes(r, At(r, "asking")) /\ slots' = slots
      BY <2>1, Zenon DEF Enqueue, Stages
    <3> QED
      BY <3>1, MoveKeepsOverrun, Zenon
  <2>2. ASSUME NEW front \in BOOLEAN, AskFront(r, front, ok)
        PROVE  OverrunInv(K)'
    <3>1. /\ calls'[r].stage = "counting"
          /\ \A s \in Requests \ {r} : calls'[s] = calls[s]
          /\ slots' = slots
      BY <2>2, AskKeepsCalls, Zenon DEF AskFront
    <3>2. OnWay' \subseteq OnWay
      BY <3>1, SMT DEF OnWay
    <3> QED
      BY <3>1, <3>2, PollKeepsOverrun, Zenon
  <2>3. CASE CountSlots(r, ok)
    <3>1. ok
      BY <2>3, SMT DEF CountSlots, Command
    <3> QED
      BY <2>3, <3>1, CountKeepsOverrun, Zenon
  <2>4. CASE Leave(r, ok)
    <3>1. CASE calls[r].stage = "leaving"
      <4>1. "entering" \in Stages /\ Becomes(r, At(r, "entering")) /\ slots' = slots
        BY <2>4, <3>1, Zenon DEF Leave, Stages
      <4>2. OnWay' = OnWay \cup {r} /\ r \in OnWay
        BY <3>1, <4>1, OnWayMoves, Zenon DEF OnWay
      <4> QED
        BY <4>1, <4>2, PollKeepsOverrun, Zenon
    <3>2. CASE calls[r].stage = "quitting"
      <4>1. "bypassing" \in Stages \ {"leaving", "entering"} /\ Becomes(r, At(r, "bypassing")) /\ slots' = slots
        BY <2>4, <3>2, Zenon DEF Leave, Stages
      <4> QED
        BY <4>1, MoveKeepsOverrun, Zenon
    <3> QED
      BY <2>4, <3>1, <3>2, Zenon DEF Leave
  <2>5. CASE Enter(r, ok)
    BY <2>5, EnterKeepsOverrun, Zenon
  <2>6. CASE Renew(r, ok)
    <3>1. "holding" \in Stages \ {"leaving", "entering"} /\ Becomes(r, At(r, "holding")) /\ slots' = slots
      BY <2>6, Zenon DEF Renew, Stages
    <3> QED
      BY <3>1, MoveKeepsOverrun, Zenon
  <2>7. CASE Release(r, ok)
    <3>1. "idle" \in Stages \ {"leaving", "entering"} /\ Becomes(r, At(r, "idle")) /\ slots' \subseteq slots
      BY <2>7, Zenon DEF Release, Stages
    <3> QED
      BY <3>1, MoveKeepsOverrun, Zenon
  <2> QED
    BY <1>2, <2>1, <2>2, <2>3, <2>4, <2>5, <2>6, <2>7, Zenon DEF CommandStep
<1>3. ASSUME NEW r \in Requests, WaitOver(r)
      PROVE  OverrunInv(K)'
  <2>1. \A s \in Requests : calls'[s].stage = calls[s].stage
    BY <1>3, WaitKeepsCalls, Zenon
  <2>2. OnWay' \subseteq OnWay
    BY <2>1, SMT DEF OnWay
  <2> QED
    BY <1>3, <2>2, PollKeepsOverrun, Zenon DEF WaitOver
<1>4. ASSUME NEW r \in Requests, Finish(r)
      PROVE  OverrunInv(K)'
  <2> DEFINE st == IF calls[r].stage = "holding" THEN "releasing" ELSE "idle"
  <2>1. st \in Stages \ {"leaving", "entering"} /\ Becomes(r, At(r, st)) /\ slots' = slots
    BY <1>4, Zenon DEF Finish, Stages
  <2> HIDE DEF st
  <2> QED
    BY <2>1, MoveKeepsOverrun, Zenon
<1>5. ASSUME NEW r \in Requests, Abort(r) \/ Crash(r)
      PROVE  OverrunInv(K)'
  <2>1. "idle" \in Stages \ {"leaving", "entering"} /\ Becomes(r, At(r, "idle")) /\ slots' = slots
    BY <1>5, Zenon DEF Abort, Crash, Stages
  <2> QED
    BY <2>1, MoveKeepsOverrun, Zenon
<1>6. CASE Expire
  <2>1. OnWay' = OnWay /\ slots' \subseteq slots
    BY <1>6, Zenon DEF Expire, OnWay
  <2> QED
    BY <2>1, PollKeepsOverrun, Zenon
<1>7. CASE UNCHANGED vars
  <2>1. OnWay' = OnWay /\ slots' = slots
    BY <1>7, Zenon DEF vars, OnWay
  <2> QED
    BY <2>1, PollKeepsOverrun, Zenon
<1> QED
  BY <1>1, <1>2, <1>3, <1>4, <1>5, <1>6, <1>7, Zenon DEF Next

\* The bound holds initially and every step allowed by the hypotheses keeps it.
LEMMA OverrunInductive ==
  ASSUME NEW K \in Nat
  PROVE  /\ Init => TypeOK /\ OverrunInv(K)
         /\ /\ TypeOK /\ OverrunInv(K) /\ [Next]_vars
            /\ faults = 0 /\ (faults = 0)' /\ (Cardinality(OnWay) <= K)'
            => (TypeOK /\ OverrunInv(K))'
         /\ OverrunInv(K) => Cardinality(slots) <= Limit - 1 + K
<1>1. Init => TypeOK /\ OverrunInv(K)
  <2> SUFFICES ASSUME Init PROVE TypeOK /\ OverrunInv(K)
    OBVIOUS
  <2>1. TypeOK
    BY TypeInit
  <2>2. \A r \in Requests : calls[r].stage = "idle"
    BY SMT DEF Init
  <2>3. OnWay = {} /\ slots = {}
    BY <2>2, SMT DEF OnWay, Init
  <2>4. IsFiniteSet({}) /\ Cardinality({}) = 0
    BY FS_EmptySet, Zenon
  <2>5. 0 + 0 <= Limit - 1 + K
    BY SlotsAssumption, SMT
  <2> QED
    BY <2>1, <2>3, <2>4, <2>5, Zenon DEF OverrunInv
<1>2. /\ TypeOK /\ OverrunInv(K) /\ [Next]_vars
      /\ faults = 0 /\ (faults = 0)' /\ (Cardinality(OnWay) <= K)'
      => (TypeOK /\ OverrunInv(K))'
  <2>1. (faults = 0)' => faults' = 0
    OBVIOUS
  <2>2. (Cardinality(OnWay) <= K)' => Cardinality(OnWay') <= K
    OBVIOUS
  <2> QED
    BY <2>1, <2>2, TypeStep, OverrunStep, Zenon
<1>3. OverrunInv(K) => Cardinality(slots) <= Limit - 1 + K
  <2> SUFFICES ASSUME OverrunInv(K) PROVE Cardinality(slots) <= Limit - 1 + K
    OBVIOUS
  <2>1. Cardinality(slots) \in Nat /\ Cardinality(OnWay) \in Nat
    BY FS_CardinalityType, Zenon DEF OverrunInv
  <2> QED
    BY <2>1, SlotsAssumption, SMT DEF OverrunInv
<1> QED
  BY <1>1, <1>2, <1>3, Zenon

\* scard and sadd are two commands (priority-queue.service.ts:422): while no
\* command fails, and never more than K requests of all processes are between
\* the two, the limit is overrun by at most K - 1.
THEOREM OverrunBounded ==
  ASSUME NEW K \in Nat
  PROVE  Spec /\ [](faults = 0) /\ [](Cardinality(OnWay) <= K)
         => [](Cardinality(slots) <= Limit - 1 + K)
<1>1. Init => TypeOK /\ OverrunInv(K)
  BY OverrunInductive
<1>2. /\ TypeOK /\ OverrunInv(K) /\ [Next]_vars
      /\ faults = 0 /\ (faults = 0)' /\ (Cardinality(OnWay) <= K)'
      => (TypeOK /\ OverrunInv(K))'
  BY OverrunInductive
<1>3. OverrunInv(K) => Cardinality(slots) <= Limit - 1 + K
  BY OverrunInductive
<1> QED
  BY <1>1, <1>2, <1>3, PTL DEF Spec

\* What acquireSlot promises (priority-queue.service.ts:323), a limit, it keeps
\* while commands succeed and no two requests of any process decide at once.
THEOREM LimitKeptOneByOne ==
  Spec /\ [](faults = 0) /\ [](Cardinality(OnWay) <= 1) => []ConcurrencyLimit
<1>0. 1 \in Nat
  OBVIOUS
<1>1. Init => TypeOK /\ OverrunInv(1)
  BY <1>0, OverrunInductive
<1>2. /\ TypeOK /\ OverrunInv(1) /\ [Next]_vars
      /\ faults = 0 /\ (faults = 0)' /\ (Cardinality(OnWay) <= 1)'
      => (TypeOK /\ OverrunInv(1))'
  BY <1>0, OverrunInductive
<1>3. OverrunInv(1) => ConcurrencyLimit
  <2>1. OverrunInv(1) => Cardinality(slots) <= Limit - 1 + 1
    BY <1>0, OverrunInductive
  <2>2. Limit - 1 + 1 = Limit
    BY SlotsAssumption, SMT
  <2> QED
    BY <2>1, <2>2, Zenon DEF ConcurrencyLimit
<1> QED
  BY <1>1, <1>2, <1>3, PTL DEF Spec
=============================================================================
