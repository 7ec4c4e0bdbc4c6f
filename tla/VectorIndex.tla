---------------------------- MODULE VectorIndex ----------------------------
(***************************************************************************)
(* The vector indices of users (faiss-vector.service.ts): one directory    *)
(* per user on disk, and a cache of loaded instances with a capacity and a *)
(* time to live.  Searches and the one writer of the write queue get an    *)
(* instance through the same getUserIndex, which looks into the cache, and *)
(* loads or creates, across awaits, what it did not find.  Whatever leaves *)
(* the cache is saved in the background.  An instance is the set of the    *)
(* documents it holds; the actions of the writer that depend on its queue  *)
(* are in VectorWrites, which composes both services.                      *)
(***************************************************************************)
EXTENDS Naturals, FiniteSets

CONSTANTS
    Users,
    Docs,        \* the documents, one per item of the write queue, numbered as they come
    Owner,       \* the user of each document
    Searches,    \* bound: searches running at once
    Writer,      \* the batch that the write queue processes
    None,
    MaxLoaded,   \* maxLoadedIndices, the capacity of the cache
    MaxFaults,   \* bound: loads, embeddings and saves that throw, and restarts
    MaxMisses    \* bound: searches that miss the cache, and expiries

VARIABLES
    disk,        \* the index saved for each user
    cache,       \* userIndices
    stale,       \* the cached indices that are past their time to live
    shared,      \* the cached instance of the writer's user is the writer's
    saves,       \* instances that left the cache, being saved
    calls,       \* the callers of getUserIndex, and what the writer does next
    faults, misses,
    overlapped   \* history: users whose loads, writes or saves have overlapped

indexVars == <<disk, cache, stale, shared, saves, calls, faults, misses, overlapped>>

Callers == Searches \cup {Writer}
Index == SUBSET Docs
NoIndex == {None}
Stages == {"idle", "loading", "loaded", "creating", "recovering", "adding", "saving"}
Call == [stage : Stages, user : Users \cup {None}, docs : Index]
Idle == [stage |-> "idle", user |-> None, docs |-> {}]

IndexAssumption ==
    /\ Docs \subseteq Nat
    /\ Owner \in [Docs -> Users]
    /\ None \notin Users \cup Docs
    /\ Writer \notin Searches
    /\ MaxLoaded \in Nat \ {0}
    /\ MaxFaults \in Nat
    /\ MaxMisses \in Nat

IndexTypeOK ==
    /\ disk \in [Users -> Index \cup {NoIndex}]
    /\ cache \in [Users -> Index \cup {NoIndex}]
    /\ stale \in SUBSET Users
    /\ shared \in BOOLEAN
    /\ saves \in SUBSET [user : Users, docs : Index]
    /\ calls \in [Callers -> Call]
    /\ \A c \in Callers : calls[c].stage # "idle" => calls[c].user \in Users
    /\ faults \in Nat /\ misses \in Nat
    /\ overlapped \in SUBSET Users

IndexInit ==
    /\ disk = [u \in Users |-> NoIndex]
    /\ cache = [u \in Users |-> NoIndex]
    /\ stale = {}
    /\ shared = FALSE
    /\ saves = {}
    /\ calls = [c \in Callers |-> Idle]
    /\ faults = 0 /\ misses = 0
    /\ overlapped = {}

-----------------------------------------------------------------------------
(* getUserIndex, up to the return of the instance *)

Fault == faults < MaxFaults /\ faults' = faults + 1
Miss == misses < MaxMisses /\ misses' = misses + 1

\* (Mutant: userIndices.get without has.)
HitsUnchecked(u) == u \notin stale
Hits(u) == cache[u] # NoIndex /\ u \notin stale

\* What runs before the first await: the instance is in the cache, or it is decided
\* whether to load it or to create it.  (Mutant: it is created whatever is on disk.)
GettingNew(u) ==
    IF Hits(u) THEN [stage |-> "adding", user |-> u, docs |-> cache[u]]
    ELSE [stage |-> "creating", user |-> u, docs |-> {}]
Getting(u) ==
    IF Hits(u) THEN [stage |-> "adding", user |-> u, docs |-> cache[u]]
    ELSE [stage |-> IF disk[u] = NoIndex THEN "creating" ELSE "loading", user |-> u, docs |-> {}]

\* With the instance, a search goes on without touching the indices.
Got(c, u, docs) ==
    calls' = [calls EXCEPT ![c] = IF c = Writer
                THEN [stage |-> "adding", user |-> u, docs |-> docs] ELSE Idle]

\* userIndices.set: the instance it replaces, or the one evicted to make room, is
\* saved in the background (dispose).
Cached(c, u, docs) ==
    LET others == {v \in Users \ {u} : cache[v] # NoIndex} IN
    \E out \in SUBSET others :
        /\ IF cache[u] = NoIndex /\ Cardinality(others) >= MaxLoaded
           THEN \E v \in others : out = {v} ELSE out = {}
        /\ cache' = [v \in Users |-> IF v = u THEN docs ELSE IF v \in out THEN NoIndex ELSE cache[v]]
        /\ stale' = stale \ (out \cup {u})
        /\ saves' = saves \cup {[user |-> v, docs |-> cache[v]] :
                                 v \in {w \in out \cup {u} : cache[w] # NoIndex}}
        /\ shared' = (c = Writer \/ (shared /\ calls[Writer].user \notin out \cup {u}))
        /\ Got(c, u, docs)

Search(s) ==
    /\ calls[s].stage = "idle"
    /\ Miss
    /\ \E u \in Users : ~Hits(u) /\ calls' = [calls EXCEPT ![s] = Getting(u)]
    /\ UNCHANGED <<disk, cache, stale, shared, saves, faults>>

Fails(c) ==
    /\ Fault
    /\ calls' = [calls EXCEPT ![c].stage = "recovering"]
    /\ UNCHANGED <<disk, cache, stale, shared, saves, misses>>

\* FaissStore.load has read the files; its caller goes on later.
Read(c) ==
    /\ calls[c].stage = "loading"
    /\ \/ /\ calls' = [calls EXCEPT ![c].stage = "loaded", ![c].docs = disk[calls[c].user]]
          /\ UNCHANGED <<disk, cache, stale, shared, saves, faults, misses>>
       \/ Fails(c)

Load(c) ==
    /\ calls[c].stage = "loaded"
    /\ Cached(c, calls[c].user, calls[c].docs)
    /\ UNCHANGED <<disk, faults, misses>>

\* createNewIndex and saveUserIndex.
Create(c) ==
    /\ calls[c].stage = "creating"
    /\ \/ /\ disk' = [disk EXCEPT ![calls[c].user] = {}]
          /\ Cached(c, calls[c].user, {})
          /\ UNCHANGED <<faults, misses>>
       \/ Fails(c)

\* The catch of getUserIndex: an empty instance, whatever the disk holds.
Recover(c) ==
    /\ calls[c].stage = "recovering"
    /\ Cached(c, calls[c].user, {})
    /\ UNCHANGED <<disk, faults, misses>>

SearchFails(s) ==
    /\ calls[s].stage = "recovering"
    /\ Fault
    /\ calls' = [calls EXCEPT ![s] = Idle]
    /\ UNCHANGED <<disk, cache, stale, shared, saves, misses>>

-----------------------------------------------------------------------------
(* Writing *)

\* addDocuments inserts what it has embedded into the writer's instance.
Insert(new) ==
    LET call == calls[Writer] IN
    /\ call.stage = "adding"
    /\ calls' = [calls EXCEPT ![Writer].stage = "saving", ![Writer].docs = @ \cup new]
    /\ cache' = IF shared THEN [cache EXCEPT ![call.user] = call.docs \cup new] ELSE cache
    /\ UNCHANGED <<disk, stale, shared, saves, faults, misses>>

\* saveUserIndex moves the old index away and the saved copy, whose name has the
\* millisecond in it, into place; between the two renames nothing is awaited.
SaveWritten ==
    /\ calls[Writer].stage = "saving"
    /\ disk' = [disk EXCEPT ![calls[Writer].user] = calls[Writer].docs]
    /\ UNCHANGED <<cache, stale, saves, faults, misses>>

\* createNewIndex, addDocuments or saveUserIndex throws into the write queue.
WriteThrows ==
    /\ calls[Writer].stage \in {"recovering", "adding", "saving"}
    /\ Fault
    /\ UNCHANGED <<disk, cache, stale, saves, misses>>

-----------------------------------------------------------------------------
(* The cache *)

Expire ==
    /\ Miss
    /\ \E u \in Users : Hits(u) /\ stale' = stale \cup {u}
    /\ UNCHANGED <<disk, cache, shared, saves, calls, faults>>

\* The save of an instance that left the cache ends; errors are only logged.
SaveDisposed(save) ==
    /\ \/ /\ disk' = [disk EXCEPT ![save.user] = save.docs]
          /\ UNCHANGED faults
       \/ Fault /\ UNCHANGED disk
    /\ saves' = saves \ {save}
    /\ UNCHANGED <<cache, stale, shared, calls, misses>>

\* The process ends; a shutdown saves what is cached, as far as it gets (what is past
\* its time to live is only disposed of).
Stop ==
    /\ Fault
    /\ \E saved \in SUBSET {u \in Users : cache[u] # NoIndex} :
          disk' = [u \in Users |-> IF u \in saved THEN cache[u] ELSE disk[u]]
    /\ cache' = [u \in Users |-> NoIndex]
    /\ stale' = {}
    /\ shared' = FALSE
    /\ saves' = {}
    /\ calls' = [c \in Callers |-> Idle]
    /\ UNCHANGED misses

-----------------------------------------------------------------------------
\* Two of a user's loads, writes and background saves are under way at once, or
\* a load has failed.
Crowded(u) ==
    \/ \E c, d \in Callers : c # d /\ calls[c].user = u /\ calls[d].user = u
    \/ \E c \in Callers, s \in saves : calls[c].user = u /\ s.user = u
    \/ \E s, t \in saves : s # t /\ s.user = u /\ t.user = u
    \/ \E c \in Callers : calls[c].user = u /\ calls[c].stage = "recovering"

Records == overlapped' = overlapped \cup {u \in Users : Crowded(u)'}
=============================================================================
