---------------------------- MODULE VectorWrites ----------------------------
(***************************************************************************)
(* The write queue in front of the vector indices (vector-write-queue.     *)
(* service.ts), composed with VectorIndex.  Items wait in a queue that a   *)
(* full batch, a timer or a setImmediate starts to process; a batch is     *)
(* written user by user; the items of a group that fails come back to the  *)
(* queue after a pause, until they have been tried MaxRetries times.       *)
(* isProcessing is: the batch is not empty.                                *)
(***************************************************************************)
EXTENDS VectorIndex, Sequences, Functions

CONSTANTS
    BatchSize,
    MaxRetries

ASSUME WritesAssumption ==
    /\ IndexAssumption
    /\ BatchSize \in Nat \ {0}
    /\ MaxRetries \in Nat \ {0}

VARIABLES
    queue,      \* the items that wait
    batch,      \* the items being processed; those of the writer's user are the current group
    backoff,    \* failed items whose timeout will put them back
    tries,      \* retryCount
    timer,      \* the batch timer runs
    immediate,  \* a setImmediate will call processBatch
    accepted,   \* history: the items that were enqueued
    written, givenUp,  \* history: how items ended
    forgotten   \* history: items that waited when the server stopped

queueVars == <<queue, batch, backoff, tries, timer, immediate>>
itemVars == <<accepted, written, givenUp, forgotten>>
vars == <<indexVars, queueVars, itemVars>>

TypeOK ==
    /\ IndexTypeOK
    /\ queue \in Seq(Docs)
    /\ batch \in SUBSET Docs /\ backoff \in SUBSET Docs
    /\ tries \in [Docs -> Nat]
    /\ timer \in BOOLEAN /\ immediate \in BOOLEAN
    /\ accepted \in SUBSET Docs
    /\ written \in SUBSET Docs /\ givenUp \in SUBSET Docs /\ forgotten \in SUBSET Docs
    /\ batch = {} <=> calls[Writer].stage = "idle"

Init ==
    /\ IndexInit
    /\ queue = <<>> /\ batch = {} /\ backoff = {}
    /\ tries = [d \in Docs |-> 0]
    /\ timer = FALSE /\ immediate = FALSE
    /\ accepted = {} /\ written = {} /\ givenUp = {} /\ forgotten = {}

-----------------------------------------------------------------------------
(* processBatch *)

\* The items of a batch are written user by user.
Group == {d \in batch : Owner[d] = calls[Writer].user}

Writes(items) ==
    \E d \in items :
        LET call == Getting(Owner[d]) IN
        /\ calls' = [calls EXCEPT ![Writer] = call]
        /\ shared' = (call.stage = "adding")

\* processBatch is called when the queue is q: it returns if a batch is being
\* processed, or nothing waits.
ProcessBatch(q) ==
    IF batch # {} \/ q = <<>>
    THEN queue' = q /\ UNCHANGED <<batch, calls, shared>>
    ELSE LET n == IF Len(q) < BatchSize THEN Len(q) ELSE BatchSize IN
         /\ batch' = Range(SubSeq(q, 1, n))
         /\ queue' = SubSeq(q, n + 1, Len(q))
         /\ Writes(batch')

IndexKept == UNCHANGED <<disk, cache, stale, saves, faults, misses>>

\* (Mutant: only a full batch is looked after.)
EnqueueUntimed(d) ==
    LET q == Append(queue, d) IN
    /\ d \notin accepted
    /\ \A e \in Docs \ accepted : d <= e
    /\ accepted' = accepted \cup {d}
    /\ IF Len(q) >= BatchSize
       THEN ProcessBatch(q)
       ELSE queue' = q /\ UNCHANGED <<batch, calls, shared>>
    /\ IndexKept
    /\ UNCHANGED <<backoff, tries, timer, immediate, written, givenUp, forgotten>>
Enqueue(d) ==
    LET q == Append(queue, d) IN
    /\ d \notin accepted
    /\ \A e \in Docs \ accepted : d <= e
    /\ accepted' = accepted \cup {d}
    /\ IF Len(q) >= BatchSize
       THEN timer' = FALSE /\ ProcessBatch(q)
       ELSE timer' = TRUE /\ queue' = q /\ UNCHANGED <<batch, calls, shared>>
    /\ IndexKept
    /\ UNCHANGED <<backoff, tries, immediate, written, givenUp, forgotten>>

TimerFires ==
    /\ timer
    /\ timer' = FALSE
    /\ ProcessBatch(queue)
    /\ IndexKept
    /\ UNCHANGED <<backoff, tries, immediate, itemVars>>

ImmediateRuns ==
    /\ immediate
    /\ immediate' = FALSE
    /\ ProcessBatch(queue)
    /\ IndexKept
    /\ UNCHANGED <<backoff, tries, timer, itemVars>>

\* The timeout of retryFailedItems: no batch timer is set for what comes back.
Return(d) ==
    LET q == Append(queue, d) IN
    /\ d \in backoff
    /\ backoff' = backoff \ {d}
    /\ IF Len(q) >= BatchSize THEN ProcessBatch(q)
       ELSE queue' = q /\ UNCHANGED <<batch, calls, shared>>
    /\ IndexKept
    /\ UNCHANGED <<tries, timer, immediate, itemVars>>

\* The finally of processBatch.  (Mutant: it looks at full batches only.)
FinishFullOnly ==
    /\ immediate' = (immediate \/ Len(queue) >= BatchSize)
    /\ UNCHANGED timer
Finish ==
    /\ immediate' = (immediate \/ Len(queue) >= BatchSize)
    /\ timer' = (timer \/ (queue # <<>> /\ Len(queue) < BatchSize))

\* The current group is over: the next one follows, or the batch ends.
GoOn ==
    /\ batch' = batch \ Group
    /\ IF batch' # {}
       THEN Writes(batch') /\ UNCHANGED <<timer, immediate>>
       ELSE /\ calls' = [calls EXCEPT ![Writer] = Idle]
            /\ shared' = FALSE
            /\ Finish
    /\ UNCHANGED <<queue, accepted, forgotten>>

AddGroup ==
    /\ Insert(Group)
    /\ UNCHANGED <<queueVars, itemVars>>

GroupWritten ==
    /\ SaveWritten
    /\ written' = written \cup Group
    /\ GoOn
    /\ UNCHANGED <<backoff, tries, givenUp>>

\* retryFailedItems.  (Mutant: an item's last failure is not seen.)
RetriesForever(d) == TRUE
Retries(d) == tries[d] + 1 < MaxRetries

GroupFails ==
    /\ WriteThrows
    /\ tries' = [d \in Docs |-> IF d \in Group THEN tries[d] + 1 ELSE tries[d]]
    /\ backoff' = backoff \cup {d \in Group : Retries(d)}
    /\ givenUp' = givenUp \cup {d \in Group : ~Retries(d)}
    /\ GoOn
    /\ UNCHANGED written

-----------------------------------------------------------------------------
\* The queue, its timers and its pauses are in memory only.
Waiting == Range(queue) \cup batch \cup backoff

Restart ==
    /\ Stop
    /\ forgotten' = forgotten \cup Waiting
    /\ queue' = <<>> /\ batch' = {} /\ backoff' = {}
    /\ timer' = FALSE /\ immediate' = FALSE
    /\ UNCHANGED <<tries, accepted, written, givenUp>>

DisposalEnds == \E save \in saves : SaveDisposed(save)
Gets(c) == Read(c) \/ Load(c) \/ Create(c) \/ Recover(c)

Unchanging == UNCHANGED <<queueVars, itemVars>>
Aside == Unchanging /\ Records

Next ==
    \/ \E d \in Docs : Enqueue(d) /\ Records
    \/ \E d \in Docs : Return(d) /\ Records
    \/ TimerFires /\ Records
    \/ ImmediateRuns /\ Records
    \/ AddGroup /\ Records
    \/ GroupWritten /\ Records
    \/ GroupFails /\ Records
    \/ Restart /\ Records
    \/ \E s \in Searches : Search(s) /\ Aside
    \/ \E s \in Searches : SearchFails(s) /\ Aside
    \/ \E c \in Callers : Read(c) /\ Aside
    \/ \E c \in Callers : Load(c) /\ Aside
    \/ \E c \in Callers : Create(c) /\ Aside
    \/ \E c \in Callers : Recover(c) /\ Aside
    \/ Expire /\ Aside
    \/ DisposalEnds /\ Aside

Spec == Init /\ [][Next]_vars

\* Timers and immediates run; the writer's embeddings, loads and saves end or throw.
FairSpec ==
    /\ Spec
    /\ WF_vars((TimerFires \/ ImmediateRuns) /\ Records)
    /\ WF_vars((AddGroup \/ GroupWritten \/ (Gets(Writer) /\ Unchanging)) /\ Records)

-----------------------------------------------------------------------------
(* Properties *)

\* Whatever batches, failures and pauses do to it, an accepted item is at one place:
\* waiting once, written, given up after MaxRetries failures, or forgotten by a restart
\* (enqueue, processBatch, retryFailedItems).
ItemsAccounted ==
    /\ IsInjective(queue)
    /\ LET places == <<Range(queue), batch, backoff, written, givenUp, forgotten>>
       IN  \A i, j \in 1..6 : i # j => places[i] \cap places[j] = {}
    /\ accepted = Waiting \cup written \cup givenUp \cup forgotten
    /\ \A d \in accepted : tries[d] >= MaxRetries <=> d \in givenUp

\* An item that has not failed yet never waits without a timer, an immediate or a running
\* batch that will look at the queue; only items that came back after a failure may wait
\* for the next enqueue (enqueue, processBatch's finally, retryFailedItems).
QueueMinded ==
    queue # <<>> /\ batch = {} /\ ~timer /\ ~immediate =>
        Len(queue) < BatchSize /\ \A d \in Range(queue) : tries[d] > 0

\* "Save index before removing from cache" (faiss-vector.service.ts:156) and the saves of
\* the writer: through failed writes, evictions, expiries and restarts, a written document
\* stays in the saved index and in the cached one, unless two of its user's loads, writes
\* and background saves have overlapped or a load has failed (getUserIndex, dispose).
WrittenKept ==
    \A d \in written : Owner[d] \notin overlapped =>
        /\ d \in disk[Owner[d]]
        /\ cache[Owner[d]] # NoIndex => d \in cache[Owner[d]]

\* "Implements single-writer pattern to prevent corruption" (vector-write-queue.service.ts:
\* 3): without a failure a written document stays somewhere, on disk, in the cache or in an
\* instance that is being saved.
WrittenSomewhere ==
    faults = 0 => \A d \in written :
        \/ d \in disk[Owner[d]] \cup cache[Owner[d]]
        \/ \E save \in saves : save.user = Owner[d] /\ d \in save.docs

\* An item does not wait for its first try for ever: a full batch, a timer or an immediate
\* starts one, and no overlapping load or failing group keeps a batch from ending.
FirstTriesEnd == []<>(\A d \in Range(queue) \cup batch : tries[d] > 0)
=============================================================================
