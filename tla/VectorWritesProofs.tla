------------------------- MODULE VectorWritesProofs -------------------------
(***************************************************************************)
(* What the write queue and the index cache keep for any number of users,  *)
(* documents and searches, any batch size, capacity and number of retries. *)
(***************************************************************************)
EXTENDS VectorWrites, TLAPS

-----------------------------------------------------------------------------
(* Sequences *)

\* An appended item joins the others (queue.push).
LEMMA Appended ==
    ASSUME NEW S, NEW q \in Seq(S), NEW d \in S
    PROVE  /\ Append(q, d) \in Seq(S)
           /\ Append(q, d) # <<>>
           /\ Len(Append(q, d)) = Len(q) + 1
           /\ Range(Append(q, d)) = Range(q) \cup {d}
           /\ IsInjective(q) /\ d \notin Range(q) => IsInjective(Append(q, d))
<1> DEFINE r == Append(q, d)
<1>1. /\ r \in Seq(S) /\ Len(r) = Len(q) + 1 /\ r # <<>>
      /\ \A i \in 1..Len(q) : r[i] = q[i]
      /\ r[Len(q) + 1] = d
      /\ DOMAIN r = 1..Len(q) + 1 /\ DOMAIN q = 1..Len(q)
      /\ Len(q) \in Nat
  OBVIOUS
<1> HIDE DEF r
<1>2. Range(r) = Range(q) \cup {d}
  BY <1>1 DEF Range
<1>3. IsInjective(q) /\ d \notin Range(q) => IsInjective(r)
  BY <1>1 DEF Range, IsInjective
<1> QED BY <1>1, <1>2, <1>3 DEF r

\* A spliced queue: what is taken and what stays (queue.splice).
LEMMA Spliced ==
    ASSUME NEW S, NEW q \in Seq(S), NEW n \in 1..Len(q)
    PROVE  LET taken == SubSeq(q, 1, n)
               left == SubSeq(q, n + 1, Len(q)) IN
           /\ left \in Seq(S)
           /\ Range(taken) \in SUBSET S
           /\ Range(taken) # {}
           /\ Range(taken) \cup Range(left) = Range(q)
           /\ IsInjective(q) => IsInjective(left) /\ Range(taken) \cap Range(left) = {}
<1> DEFINE taken == SubSeq(q, 1, n)
           left == SubSeq(q, n + 1, Len(q))
           m == Len(q)
<1>1. /\ m \in Nat /\ n \in Nat /\ n >= 1 /\ n <= m
      /\ DOMAIN q = 1..m /\ \A i \in 1..m : q[i] \in S
  OBVIOUS
<1>2. DOMAIN taken = 1..n /\ \A i \in 1..n : taken[i] = q[i]
  OBVIOUS
<1>3. DOMAIN left = 1..(m - n) /\ \A i \in 1..(m - n) : left[i] = q[n + i]
  OBVIOUS
<1>4. left \in Seq(S)
  OBVIOUS
<1> HIDE DEF taken, left, m
<1>5. Range(taken) \in SUBSET S /\ Range(taken) # {}
  <2>1. q[1] \in Range(taken)
    BY <1>1, <1>2 DEF Range
  <2> QED BY <2>1, <1>1, <1>2 DEF Range
<1>6. Range(taken) \cup Range(left) = Range(q)
  <2>1. Range(taken) \subseteq Range(q)
    BY <1>1, <1>2 DEF Range
  <2>2. Range(left) \subseteq Range(q)
    BY <1>1, <1>3 DEF Range
  <2>3. ASSUME NEW i \in 1..m PROVE q[i] \in Range(taken) \cup Range(left)
    <3>1. CASE i <= n
      BY <3>1, <1>1, <1>2 DEF Range
    <3>2. CASE i > n
      <4>1. i - n \in 1..(m - n) /\ n + (i - n) = i
        BY <3>2, <1>1
      <4> QED BY <4>1, <1>3 DEF Range
    <3> QED BY <3>1, <3>2, <1>1
  <2> QED BY <2>1, <2>2, <2>3, <1>1 DEF Range
<1>7. ASSUME IsInjective(q)
      PROVE  IsInjective(left) /\ Range(taken) \cap Range(left) = {}
  <2>1. IsInjective(left)
    <3> SUFFICES ASSUME NEW i \in 1..(m - n), NEW j \in 1..(m - n), left[i] = left[j]
                 PROVE  i = j
      BY <1>3 DEF IsInjective
    <3>1. n + i \in 1..m /\ n + j \in 1..m /\ q[n + i] = q[n + j]
      BY <1>1, <1>3
    <3>2. n + i = n + j
      BY <3>1, <1>1, <1>7 DEF IsInjective
    <3> QED BY <3>2, <1>1
  <2>2. ASSUME NEW i \in 1..n, NEW j \in 1..(m - n), taken[i] = left[j] PROVE FALSE
    <3>1. i \in 1..m /\ n + j \in 1..m /\ q[i] = q[n + j]
      BY <2>2, <1>1, <1>2, <1>3
    <3>2. i = n + j
      BY <3>1, <1>1, <1>7 DEF IsInjective
    <3> QED BY <3>2, <1>1
  <2> QED BY <2>1, <2>2, <1>2, <1>3 DEF Range
<1> QED BY <1>4, <1>5, <1>6, <1>7 DEF taken, left, m

-----------------------------------------------------------------------------
(* processBatch *)

\* What processBatch does to the queue and the batch, and that it either leaves the
\* writer alone or starts it on a new batch.
LEMMA Processed ==
    ASSUME WritesAssumption, NEW q \in Seq(Docs), batch \in SUBSET Docs, ProcessBatch(q)
    PROVE  /\ queue' \in Seq(Docs) /\ batch' \in SUBSET Docs
           /\ Range(queue') \cup batch' = Range(q) \cup batch
           /\ IsInjective(q) /\ Range(q) \cap batch = {} =>
                 IsInjective(queue') /\ Range(queue') \cap batch' = {}
           /\ \/ /\ batch' = batch /\ queue' = q /\ calls' = calls /\ shared' = shared
                 /\ batch # {} \/ q = <<>>
              \/ batch = {} /\ batch' # {} /\ Writes(batch')
<1>1. CASE batch # {} \/ q = <<>>
  BY <1>1 DEF ProcessBatch
<1>2. CASE ~(batch # {} \/ q = <<>>)
  <2> DEFINE n == IF Len(q) < BatchSize THEN Len(q) ELSE BatchSize
  <2>1. n \in 1..Len(q)
    BY <1>2 DEF WritesAssumption
  <2>2. /\ batch' = Range(SubSeq(q, 1, n))
        /\ queue' = SubSeq(q, n + 1, Len(q))
        /\ Writes(batch')
    BY <1>2 DEF ProcessBatch
  <2> HIDE DEF n
  <2> QED BY <1>2, <2>1, <2>2, Spliced
<1> QED BY <1>1, <1>2

-----------------------------------------------------------------------------
(* Types *)

\* A caller is at an index exactly when it is not idle; searches do not write; what is
\* being loaded is on disk.
Fits(c, call) ==
    /\ call \in Call
    /\ call.stage = "idle" <=> call.user = None
    /\ c \in Searches => call.stage \notin {"adding", "saving"}
    /\ call.stage = "loading" => disk[call.user] # NoIndex

Shape == \A c \in Callers : Fits(c, calls[c])

TypeInv == TypeOK /\ Shape

\* No save removes an index from the disk.
Grows == \A u \in Users : disk[u] # NoIndex => disk'[u] # NoIndex

LEMMA Constants ==
    ASSUME WritesAssumption
    PROVE  /\ None \notin Users /\ None \notin Docs
           /\ Owner \in [Docs -> Users]
           /\ Writer \in Callers /\ Writer \notin Searches
           /\ Searches \subseteq Callers
           /\ \A docs \in Index : docs # NoIndex
           /\ {} \in Index
           /\ Idle \in Call /\ Idle.stage = "idle" /\ Idle.user = None
BY DEF WritesAssumption, IndexAssumption, Callers, Index, NoIndex, Idle, Call, Stages

\* getUserIndex starts with a hit, or with loading what exists, or with creating what
\* does not.
LEMMA GettingFits ==
    ASSUME WritesAssumption, IndexTypeOK, NEW u \in Users
    PROVE  /\ Fits(Writer, Getting(u))
           /\ ~Hits(u) => \A c \in Callers : Fits(c, Getting(u))
           /\ Getting(u).user = u
           /\ Getting(u).stage \in {"adding", "loading", "creating"}
           /\ Getting(u).stage = "adding" <=> Hits(u)
           /\ Getting(u).stage = "adding" => Getting(u).docs = cache[u]
           /\ Getting(u).stage = "creating" => disk[u] = NoIndex
<1>1. CASE Hits(u)
  <2>1. Getting(u) = [stage |-> "adding", user |-> u, docs |-> cache[u]]
    BY <1>1 DEF Getting
  <2>2. cache[u] \in Index /\ u # None
    BY <1>1, Constants DEF Hits, IndexTypeOK
  <2>3. Getting(u) \in Call
    BY <2>1, <2>2 DEF Call, Stages
  <2> QED BY <1>1, <2>1, <2>2, <2>3, Constants DEF Fits
<1>2. CASE ~Hits(u)
  <2> DEFINE st == IF disk[u] = NoIndex THEN "creating" ELSE "loading"
  <2>1. Getting(u) = [stage |-> st, user |-> u, docs |-> {}]
    BY <1>2 DEF Getting
  <2>2. st \in {"loading", "creating"} /\ u # None /\ {} \in Index
        /\ (st = "creating" => disk[u] = NoIndex) /\ (st = "loading" => disk[u] # NoIndex)
    BY Constants
  <2> HIDE DEF st
  <2>3. Getting(u) \in Call
    BY <2>1, <2>2 DEF Call, Stages
  <2> QED BY <1>2, <2>1, <2>2, <2>3 DEF Fits
<1> QED BY <1>1, <1>2

\* One caller's record changes.
LEMMA CallFits ==
    ASSUME WritesAssumption, TypeInv, Grows, NEW c \in Callers, NEW call, Fits(c, call),
           calls' = [calls EXCEPT ![c] = call]
    PROVE  /\ Shape'
           /\ calls' \in [Callers -> Call]
           /\ \A d \in Callers : calls'[d].stage # "idle" => calls'[d].user \in Users
<1>1. calls \in [Callers -> Call] /\ call \in Call
  BY DEF TypeInv, TypeOK, IndexTypeOK, Fits
<1>2. calls'[c] = call /\ \A d \in Callers : d # c => calls'[d] = calls[d]
  BY <1>1
<1>3. calls' \in [Callers -> Call]
  BY <1>1
<1>4. ASSUME NEW d \in Callers PROVE Fits(d, calls'[d])
  BY <1>2 DEF TypeInv, Shape
<1>5. ASSUME NEW d \in Callers PROVE Fits(d, calls[d])'
  <2> DEFINE new == calls'[d]
  <2>1. Fits(d, new) /\ new \in Call
    BY <1>4 DEF Fits
  <2>2. new.stage = "loading" => new.user \in Users
    BY <2>1 DEF Fits, Call
  <2> HIDE DEF new
  <2>3. new.stage = "loading" => disk'[new.user] # NoIndex
    BY <2>1, <2>2 DEF Fits, Grows
  <2> QED BY <2>1, <2>3 DEF Fits, new, Call, Stages, Index, NoIndex
<1>6. \A d \in Callers : calls'[d].stage # "idle" => calls'[d].user \in Users
  BY <1>3, <1>4 DEF Fits, Call
<1> QED BY <1>3, <1>5, <1>6 DEF Shape

\* Nothing but the disk changes for the callers.
LEMMA CallsFit ==
    ASSUME WritesAssumption, TypeInv, Grows, calls' = calls
    PROVE  /\ Shape'
           /\ calls' \in [Callers -> Call]
           /\ \A d \in Callers : calls'[d].stage # "idle" => calls'[d].user \in Users
<1>1. Writer \in Callers /\ calls \in [Callers -> Call]
  BY Constants DEF TypeInv, TypeOK, IndexTypeOK
<1>2. calls' = [calls EXCEPT ![Writer] = calls[Writer]]
  BY <1>1
<1>3. Fits(Writer, calls[Writer])
  BY <1>1 DEF TypeInv, Shape
<1> QED BY <1>1, <1>2, <1>3, CallFits
\* The writer starts on the items of some user.
LEMMA WriterStarts ==
    ASSUME WritesAssumption, TypeInv, Grows, NEW items \in SUBSET Docs, Writes(items)
    PROVE  /\ Shape'
           /\ calls' \in [Callers -> Call]
           /\ \A d \in Callers : calls'[d].stage # "idle" => calls'[d].user \in Users
           /\ shared' \in BOOLEAN
           /\ calls'[Writer].stage # "idle"
<1>1. PICK d \in items : /\ calls' = [calls EXCEPT ![Writer] = Getting(Owner[d])]
                         /\ shared' = (Getting(Owner[d]).stage = "adding")
  BY DEF Writes
<1>2. Owner[d] \in Users /\ Writer \in Callers
  BY Constants
<1> DEFINE call == Getting(Owner[d])
<1>3. Fits(Writer, call) /\ call.stage \in {"adding", "loading", "creating"}
  BY <1>2, GettingFits DEF TypeInv, TypeOK
<1> HIDE DEF call
<1>4. calls' = [calls EXCEPT ![Writer] = call] /\ shared' = (call.stage = "adding")
  BY <1>1 DEF call
<1>5. /\ Shape'
      /\ calls' \in [Callers -> Call]
      /\ \A e \in Callers : calls'[e].stage # "idle" => calls'[e].user \in Users
  BY <1>2, <1>3, <1>4, CallFits
<1>6. calls'[Writer] = call
  BY <1>2, <1>4 DEF TypeInv, TypeOK, IndexTypeOK
<1> QED BY <1>3, <1>4, <1>5, <1>6

\* The instance a caller has got is cached, and what it replaces or evicts is saved.
LEMMA CachedFits ==
    ASSUME WritesAssumption, TypeInv, Grows, NEW c \in Callers, NEW u \in Users,
           NEW docs \in Index, calls[c].user = u, Cached(c, u, docs)
    PROVE  /\ cache' \in [Users -> Index \cup {NoIndex}]
           /\ stale' \in SUBSET Users
           /\ shared' \in BOOLEAN
           /\ saves' \in SUBSET [user : Users, docs : Index]
           /\ calls' \in [Callers -> Call]
           /\ \A d \in Callers : calls'[d].stage # "idle" => calls'[d].user \in Users
           /\ Shape'
           /\ calls'[Writer].stage = "idle" <=> calls[Writer].stage = "idle"
<1> USE DEF TypeInv, TypeOK, IndexTypeOK
<1> DEFINE others == {v \in Users \ {u} : cache[v] # NoIndex}
<1>1. PICK out \in SUBSET others :
        /\ cache' = [v \in Users |-> IF v = u THEN docs ELSE IF v \in out THEN NoIndex ELSE cache[v]]
        /\ stale' = stale \ (out \cup {u})
        /\ saves' = saves \cup {[user |-> v, docs |-> cache[v]] :
                                 v \in {w \in out \cup {u} : cache[w] # NoIndex}}
        /\ shared' = (c = Writer \/ (shared /\ calls[Writer].user \notin out \cup {u}))
        /\ Got(c, u, docs)
  BY DEF Cached
<1>2. cache' \in [Users -> Index \cup {NoIndex}]
  BY <1>1
<1>3. stale' \in SUBSET Users /\ shared' \in BOOLEAN
  BY <1>1
<1>4. ASSUME NEW v \in Users, cache[v] # NoIndex
      PROVE  [user |-> v, docs |-> cache[v]] \in [user : Users, docs : Index]
  BY <1>4
<1>5. saves' \in SUBSET [user : Users, docs : Index]
  BY <1>1, <1>4
<1> DEFINE call == IF c = Writer THEN [stage |-> "adding", user |-> u, docs |-> docs] ELSE Idle
<1>6. Fits(c, call)
  <2>1. CASE c = Writer
    <3>1. call = [stage |-> "adding", user |-> u, docs |-> docs]
      BY <2>1
    <3>2. call \in Call
      BY <3>1 DEF Call, Stages
    <3> QED BY <2>1, <3>1, <3>2, Constants DEF Fits
  <2>2. CASE c # Writer
    <3>1. call = Idle
      BY <2>2
    <3> QED BY <3>1, Constants DEF Fits
  <2> QED BY <2>1, <2>2
<1>7. calls' = [calls EXCEPT ![c] = call]
  BY <1>1 DEF Got
<1>8. calls'[Writer].stage = "idle" <=> calls[Writer].stage = "idle"
  <2>1. CASE c = Writer
    <3>1. calls[Writer].stage # "idle"
      BY <2>1, Constants DEF Shape, Fits
    <3>2. calls'[Writer] = [stage |-> "adding", user |-> u, docs |-> docs]
      BY <2>1, <1>7
    <3> QED BY <3>1, <3>2
  <2>2. CASE c # Writer
    BY <2>2, <1>7, Constants
  <2> QED BY <2>1, <2>2
<1> HIDE DEF call
<1>9. /\ Shape'
      /\ calls' \in [Callers -> Call]
      /\ \A d \in Callers : calls'[d].stage # "idle" => calls'[d].user \in Users
  BY <1>6, <1>7, CallFits
<1> QED BY <1>2, <1>3, <1>5, <1>8, <1>9

\* The steps that the two services take.
QueueStep ==
    \/ \E d \in Docs : Enqueue(d) \/ Return(d)
    \/ TimerFires \/ ImmediateRuns
    \/ AddGroup \/ GroupWritten \/ GroupFails
    \/ Restart

IndexStep ==
    /\ \/ \E s \in Searches : Search(s) \/ SearchFails(s)
       \/ \E c \in Callers : Gets(c)
       \/ Expire
       \/ DisposalEnds
    /\ Unchanging

LEMMA NextParts == Next => (QueueStep \/ IndexStep) /\ Records
BY DEF Next, QueueStep, IndexStep, Gets, Aside

\* The variables of the index service, and how they go with the batch.
IndexFits ==
    /\ IndexTypeOK
    /\ Shape
    /\ batch = {} <=> calls[Writer].stage = "idle"

\* The variables of the queue service.
QueueTypeOK ==
    /\ queue \in Seq(Docs)
    /\ batch \in SUBSET Docs /\ backoff \in SUBSET Docs
    /\ tries \in [Docs -> Nat]
    /\ timer \in BOOLEAN /\ immediate \in BOOLEAN
    /\ accepted \in SUBSET Docs
    /\ written \in SUBSET Docs /\ givenUp \in SUBSET Docs /\ forgotten \in SUBSET Docs

LEMMA TypeInvParts == TypeInv <=> IndexFits /\ QueueTypeOK
BY DEF TypeInv, TypeOK, IndexFits, QueueTypeOK

LEMMA FaultCounts ==
    ASSUME TypeInv
    PROVE  /\ Fault => faults' \in Nat
           /\ Miss => misses' \in Nat
           /\ Records => overlapped' \in SUBSET Users
BY DEF TypeInv, TypeOK, IndexTypeOK, Fault, Miss, Records

\* When disk and cache are left alone, processBatch keeps the types.
LEMMA ProcessFits ==
    ASSUME WritesAssumption, TypeInv, Records, IndexKept, NEW q \in Seq(Docs),
           \/ ProcessBatch(q)
           \/ queue' = q /\ UNCHANGED <<batch, calls, shared>>
    PROVE  IndexFits' /\ queue' \in Seq(Docs) /\ batch' \in SUBSET Docs
<1> USE DEF TypeInv, TypeOK, IndexTypeOK, IndexFits
<1>1. Grows
  BY DEF Grows, IndexKept
<1>2. /\ disk' = disk /\ cache' = cache /\ stale' = stale /\ saves' = saves
      /\ faults' = faults /\ misses' = misses /\ overlapped' \in SUBSET Users
  BY FaultCounts DEF IndexKept
<1>3. CASE /\ batch' = batch /\ calls' = calls /\ shared' = shared
           /\ queue' \in Seq(Docs)
  BY <1>1, <1>2, <1>3, CallsFit
<1>4. CASE /\ batch = {} /\ batch' # {} /\ Writes(batch')
           /\ queue' \in Seq(Docs) /\ batch' \in SUBSET Docs
  <2>1. /\ Shape'
        /\ calls' \in [Callers -> Call]
        /\ \A d \in Callers : calls'[d].stage # "idle" => calls'[d].user \in Users
        /\ shared' \in BOOLEAN
        /\ calls'[Writer].stage # "idle"
    BY <1>1, <1>4, WriterStarts
  <2> QED BY <1>2, <1>4, <2>1
<1>5. CASE ProcessBatch(q)
  BY <1>3, <1>4, <1>5, Processed
<1> QED BY <1>3, <1>5

LEMMA EnqueueTyped ==
    ASSUME WritesAssumption, TypeInv, Records, NEW d \in Docs, Enqueue(d)
    PROVE  TypeInv'
<1> DEFINE q == Append(queue, d)
<1>1. q \in Seq(Docs)
  BY Appended DEF TypeInv, TypeOK
<1> HIDE DEF q
<1>2. ProcessBatch(q) \/ (queue' = q /\ UNCHANGED <<batch, calls, shared>>)
  BY DEF Enqueue, q
<1>3. IndexKept
  BY DEF Enqueue
<1>4. IndexFits' /\ queue' \in Seq(Docs) /\ batch' \in SUBSET Docs
  BY <1>1, <1>2, <1>3, ProcessFits
<1>5. timer' \in BOOLEAN
  BY DEF Enqueue
<1>6. QueueTypeOK'
  BY <1>4, <1>5 DEF Enqueue, TypeInv, TypeOK, QueueTypeOK
<1> QED BY <1>4, <1>6, TypeInvParts, PTL

LEMMA ReturnTyped ==
    ASSUME WritesAssumption, TypeInv, Records, NEW d \in Docs, Return(d)
    PROVE  TypeInv'
<1> DEFINE q == Append(queue, d)
<1>1. q \in Seq(Docs)
  BY Appended DEF TypeInv, TypeOK
<1> HIDE DEF q
<1>2. ProcessBatch(q) \/ (queue' = q /\ UNCHANGED <<batch, calls, shared>>)
  BY DEF Return, q
<1>3. IndexKept
  BY DEF Return
<1>4. IndexFits' /\ queue' \in Seq(Docs) /\ batch' \in SUBSET Docs
  BY <1>1, <1>2, <1>3, ProcessFits
<1>5. QueueTypeOK'
  BY <1>4 DEF Return, TypeInv, TypeOK, QueueTypeOK, itemVars
<1> QED BY <1>4, <1>5, TypeInvParts, PTL

LEMMA TimersTyped ==
    ASSUME WritesAssumption, TypeInv, Records, TimerFires \/ ImmediateRuns
    PROVE  TypeInv'
<1>1. IndexKept /\ ProcessBatch(queue)
  BY DEF TimerFires, ImmediateRuns
<1>2. queue \in Seq(Docs)
  BY DEF TypeInv, TypeOK
<1>3. IndexFits' /\ queue' \in Seq(Docs) /\ batch' \in SUBSET Docs
  BY <1>1, <1>2, ProcessFits
<1>4. timer' \in BOOLEAN /\ immediate' \in BOOLEAN
  BY DEF TimerFires, ImmediateRuns, TypeInv, TypeOK
<1>5. QueueTypeOK'
  BY <1>3, <1>4 DEF TimerFires, ImmediateRuns, TypeInv, TypeOK, QueueTypeOK, itemVars
<1> QED BY <1>3, <1>5, TypeInvParts, PTL
\* When a group is over, the writer has the next one or is idle.
LEMMA GoOnFits ==
    ASSUME WritesAssumption, TypeInv, Grows, GoOn
    PROVE  /\ Shape'
           /\ calls' \in [Callers -> Call]
           /\ \A d \in Callers : calls'[d].stage # "idle" => calls'[d].user \in Users
           /\ shared' \in BOOLEAN /\ timer' \in BOOLEAN /\ immediate' \in BOOLEAN
           /\ batch' \in SUBSET Docs
           /\ batch' = {} <=> calls'[Writer].stage = "idle"
<1>1. batch' = batch \ Group /\ batch' \in SUBSET Docs
  BY DEF GoOn, TypeInv, TypeOK
<1>2. CASE batch' # {}
  <2>1. Writes(batch') /\ UNCHANGED <<timer, immediate>>
    BY <1>2 DEF GoOn
  <2> QED BY <1>1, <1>2, <2>1, WriterStarts DEF TypeInv, TypeOK
<1>3. CASE batch' = {}
  <2>1. /\ calls' = [calls EXCEPT ![Writer] = Idle]
        /\ shared' = FALSE
        /\ Finish
    BY <1>3 DEF GoOn
  <2>2. Fits(Writer, Idle)
    BY Constants DEF Fits, Idle
  <2>3. /\ Shape'
        /\ calls' \in [Callers -> Call]
        /\ \A d \in Callers : calls'[d].stage # "idle" => calls'[d].user \in Users
    BY <2>1, <2>2, Constants, CallFits
  <2>4. calls'[Writer].stage = "idle"
    BY <2>1, Constants DEF TypeInv, TypeOK, IndexTypeOK
  <2>5. timer' \in BOOLEAN /\ immediate' \in BOOLEAN
    BY <2>1 DEF Finish, TypeInv, TypeOK
  <2> QED BY <1>1, <1>3, <2>1, <2>3, <2>4, <2>5
<1> QED BY <1>2, <1>3

LEMMA AddGroupTyped ==
    ASSUME WritesAssumption, TypeInv, Records, AddGroup
    PROVE  TypeInv'
<1> DEFINE old == calls[Writer]
           call == [old EXCEPT !.stage = "saving", !.docs = @ \cup Group]
<1>1. /\ old.stage = "adding" /\ old \in Call /\ Writer \in Callers
      /\ Group \in SUBSET Docs /\ old.user \in Users
  BY Constants DEF AddGroup, Insert, Group, TypeInv, TypeOK, IndexTypeOK
<1>2. call \in Call /\ call.stage = "saving" /\ call.user = old.user
      /\ call.docs = old.docs \cup Group
  BY <1>1 DEF Call, Stages, Index
<1>3. calls' = [calls EXCEPT ![Writer] = call]
  BY <1>1 DEF AddGroup, Insert, TypeInv, TypeOK, IndexTypeOK
<1>4. Fits(Writer, call)
  BY <1>1, <1>2, Constants DEF Fits
<1>5. cache' \in [Users -> Index \cup {NoIndex}]
  <2>1. old.docs \cup Group \in Index
    BY <1>2 DEF Call
  <2>2. cache' = IF shared THEN [cache EXCEPT ![old.user] = old.docs \cup Group] ELSE cache
    BY DEF AddGroup, Insert
  <2> HIDE DEF old
  <2> QED BY <2>1, <2>2, <1>1 DEF TypeInv, TypeOK, IndexTypeOK
<1> HIDE DEF call, old
<1>6. Grows
  BY DEF Grows, AddGroup, Insert
<1>7. /\ Shape'
      /\ calls' \in [Callers -> Call]
      /\ \A d \in Callers : calls'[d].stage # "idle" => calls'[d].user \in Users
  BY <1>1, <1>3, <1>4, <1>6, CallFits
<1>8. calls'[Writer].stage = "saving" /\ calls[Writer].stage = "adding"
  BY <1>1, <1>2, <1>3 DEF TypeInv, TypeOK, IndexTypeOK, old
<1>9. overlapped' \in SUBSET Users
  BY FaultCounts
<1>10. IndexFits'
  BY <1>5, <1>7, <1>8, <1>9 DEF AddGroup, Insert, IndexFits, TypeInv, TypeOK, IndexTypeOK, queueVars
<1>11. QueueTypeOK'
  BY DEF AddGroup, TypeInv, TypeOK, QueueTypeOK, queueVars, itemVars
<1> QED BY <1>10, <1>11, TypeInvParts, PTL

LEMMA GroupWrittenTyped ==
    ASSUME WritesAssumption, TypeInv, Records, GroupWritten
    PROVE  TypeInv'
<1>1. /\ calls[Writer].user \in Users /\ calls[Writer].docs \in Index
      /\ disk' = [disk EXCEPT ![calls[Writer].user] = calls[Writer].docs]
  BY Constants DEF GroupWritten, SaveWritten, TypeInv, TypeOK, IndexTypeOK, Call
<1>2. disk' \in [Users -> Index \cup {NoIndex}]
  BY <1>1 DEF TypeInv, TypeOK, IndexTypeOK
<1>3. Grows
  BY <1>1, Constants DEF Grows, TypeInv, TypeOK, IndexTypeOK
<1>4. GoOn
  BY DEF GroupWritten
<1>5. IndexFits'
  BY <1>2, <1>3, <1>4, GoOnFits, FaultCounts
     DEF GroupWritten, SaveWritten, IndexFits, TypeInv, TypeOK, IndexTypeOK
<1>6. Group \in SUBSET Docs
  BY DEF Group, TypeInv, TypeOK
<1>7. QueueTypeOK'
  BY <1>3, <1>4, <1>6, GoOnFits DEF GroupWritten, GoOn, TypeInv, TypeOK, QueueTypeOK
<1> QED BY <1>5, <1>7, TypeInvParts, PTL

LEMMA GroupFailsTyped ==
    ASSUME WritesAssumption, TypeInv, Records, GroupFails
    PROVE  TypeInv'
<1>1. disk' = disk /\ cache' = cache /\ stale' = stale /\ saves' = saves /\ misses' = misses
      /\ faults' \in Nat /\ overlapped' \in SUBSET Users
  BY FaultCounts DEF GroupFails, WriteThrows
<1>2. Grows
  BY <1>1 DEF Grows
<1>3. GoOn
  BY DEF GroupFails
<1>4. IndexFits'
  BY <1>1, <1>2, <1>3, GoOnFits DEF IndexFits, TypeInv, TypeOK, IndexTypeOK
<1>5. Group \in SUBSET Docs
  BY DEF Group, TypeInv, TypeOK
<1>6. tries' \in [Docs -> Nat]
  BY DEF GroupFails, TypeInv, TypeOK
<1>7. QueueTypeOK'
  BY <1>2, <1>3, <1>5, <1>6, GoOnFits DEF GroupFails, GoOn, TypeInv, TypeOK, QueueTypeOK
<1> QED BY <1>4, <1>7, TypeInvParts, PTL

LEMMA RestartTyped ==
    ASSUME WritesAssumption, TypeInv, Records, Restart
    PROVE  TypeInv'
<1>1. disk' \in [Users -> Index \cup {NoIndex}]
  BY DEF Restart, Stop, TypeInv, TypeOK, IndexTypeOK
<1>2. /\ cache' \in [Users -> Index \cup {NoIndex}]
      /\ stale' = {} /\ shared' = FALSE /\ saves' = {} /\ misses' = misses
      /\ calls' = [c \in Callers |-> Idle]
  BY DEF Restart, Stop
<1>3. faults' \in Nat /\ overlapped' \in SUBSET Users
  BY FaultCounts DEF Restart, Stop
<1>4. Shape' /\ calls' \in [Callers -> Call]
  BY <1>2, Constants DEF Shape, Fits, Idle
<1>5. calls'[Writer].stage = "idle" /\ \A d \in Callers : calls'[d].stage = "idle"
  BY <1>2, Constants
<1>6. IndexFits'
  BY <1>1, <1>2, <1>3, <1>4, <1>5 DEF Restart, IndexFits, TypeInv, TypeOK, IndexTypeOK
<1>7. Waiting \in SUBSET Docs
  BY DEF Waiting, Range, TypeInv, TypeOK
<1>8. queue' \in Seq(Docs)
  <2>1. queue' = <<>>
    BY DEF Restart
  <2> QED BY <2>1
<1>9. /\ batch' = {} /\ backoff' = {} /\ timer' = FALSE /\ immediate' = FALSE
      /\ tries' = tries /\ accepted' = accepted /\ written' = written /\ givenUp' = givenUp
      /\ forgotten' \in SUBSET Docs
  BY <1>7 DEF Restart, TypeInv, TypeOK
<1>10. QueueTypeOK'
  BY <1>8, <1>9 DEF TypeInv, TypeOK, QueueTypeOK
<1> QED BY <1>6, <1>10, TypeInvParts, PTL
\* The queue service's variables when the index service takes a step.
LEMMA QueueTypeKept ==
    ASSUME TypeInv, Unchanging
    PROVE  QueueTypeOK' /\ batch' = batch
BY DEF TypeInv, TypeOK, QueueTypeOK, Unchanging, queueVars, itemVars

LEMMA SearchTyped ==
    ASSUME WritesAssumption, TypeInv, Records, Unchanging, NEW s \in Searches, Search(s)
    PROVE  TypeInv'
<1>1. PICK u \in Users : ~Hits(u) /\ calls' = [calls EXCEPT ![s] = Getting(u)]
  BY DEF Search
<1>2. s \in Callers /\ s # Writer
  BY Constants
<1>3. Fits(s, Getting(u))
  BY <1>1, <1>2, GettingFits DEF TypeInv, TypeOK
<1>4. Grows
  BY DEF Search, Grows
<1>5. /\ Shape'
      /\ calls' \in [Callers -> Call]
      /\ \A d \in Callers : calls'[d].stage # "idle" => calls'[d].user \in Users
  BY <1>1, <1>2, <1>3, <1>4, CallFits
<1>6. calls'[Writer] = calls[Writer]
  BY <1>1, <1>2
<1>7. misses' \in Nat /\ overlapped' \in SUBSET Users
  BY FaultCounts DEF Search
<1>8. IndexFits'
  BY <1>5, <1>6, <1>7, QueueTypeKept DEF Search, IndexFits, TypeInv, TypeOK, IndexTypeOK
<1> QED BY <1>8, QueueTypeKept, TypeInvParts, PTL

\* A search that cannot create an index returns without one.
LEMMA SearchFailsTyped ==
    ASSUME WritesAssumption, TypeInv, Records, Unchanging, NEW s \in Searches, SearchFails(s)
    PROVE  TypeInv'
<1>1. calls' = [calls EXCEPT ![s] = Idle]
  BY DEF SearchFails
<1>2. s \in Callers /\ s # Writer
  BY Constants
<1>3. Fits(s, Idle)
  BY Constants DEF Fits, Idle
<1>4. Grows
  BY DEF SearchFails, Grows
<1>5. /\ Shape'
      /\ calls' \in [Callers -> Call]
      /\ \A d \in Callers : calls'[d].stage # "idle" => calls'[d].user \in Users
  BY <1>1, <1>2, <1>3, <1>4, CallFits
<1>6. calls'[Writer] = calls[Writer]
  BY <1>1, <1>2
<1>7. faults' \in Nat /\ overlapped' \in SUBSET Users
  BY FaultCounts DEF SearchFails
<1>8. IndexFits'
  BY <1>5, <1>6, <1>7, QueueTypeKept DEF SearchFails, IndexFits, TypeInv, TypeOK, IndexTypeOK
<1> QED BY <1>8, QueueTypeKept, TypeInvParts, PTL

\* A caller's stage changes and nothing else does.
LEMMA StageTyped ==
    ASSUME WritesAssumption, TypeInv, Records, Unchanging, NEW c \in Callers, NEW call,
           Fits(c, call), calls' = [calls EXCEPT ![c] = call],
           call.stage # "idle", calls[c].stage # "idle",
           UNCHANGED <<disk, cache, stale, shared, saves>>,
           faults' \in Nat, misses' \in Nat
    PROVE  TypeInv'
<1>1. Grows
  BY DEF Grows
<1>2. /\ Shape'
      /\ calls' \in [Callers -> Call]
      /\ \A d \in Callers : calls'[d].stage # "idle" => calls'[d].user \in Users
  BY <1>1, CallFits
<1>3. calls'[Writer].stage = "idle" <=> calls[Writer].stage = "idle"
  BY Constants DEF TypeInv, TypeOK, IndexTypeOK
<1>4. overlapped' \in SUBSET Users
  BY FaultCounts
<1>5. IndexFits'
  BY <1>2, <1>3, <1>4, QueueTypeKept DEF IndexFits, TypeInv, TypeOK, IndexTypeOK
<1> QED BY <1>5, QueueTypeKept, TypeInvParts, PTL

LEMMA FailsTyped ==
    ASSUME WritesAssumption, TypeInv, Records, Unchanging, NEW c \in Callers,
           calls[c].stage \in {"loading", "creating"}, Fails(c)
    PROVE  TypeInv'
<1> DEFINE call == [calls[c] EXCEPT !.stage = "recovering"]
<1>1. calls[c] \in Call /\ Fits(c, calls[c])
  BY DEF TypeInv, TypeOK, IndexTypeOK, Shape
<1>2. call \in Call /\ call.stage = "recovering" /\ call.user = calls[c].user
  BY <1>1 DEF Call, Stages
<1>3. calls' = [calls EXCEPT ![c] = call]
  BY DEF Fails, TypeInv, TypeOK, IndexTypeOK
<1> HIDE DEF call
<1>4. Fits(c, call)
  BY <1>1, <1>2 DEF Fits
<1>5. faults' \in Nat /\ misses' \in Nat
  BY FaultCounts DEF Fails, TypeInv, TypeOK, IndexTypeOK
<1> QED BY <1>2, <1>3, <1>4, <1>5, StageTyped DEF Fails

LEMMA ReadTyped ==
    ASSUME WritesAssumption, TypeInv, Records, Unchanging, NEW c \in Callers, Read(c)
    PROVE  TypeInv'
<1>1. CASE /\ calls[c].stage = "loading"
           /\ calls' = [calls EXCEPT ![c].stage = "loaded", ![c].docs = disk[calls[c].user]]
           /\ UNCHANGED <<disk, cache, stale, shared, saves, faults, misses>>
  <2> DEFINE call == [calls[c] EXCEPT !.stage = "loaded", !.docs = disk[calls[c].user]]
  <2>1. /\ calls[c] \in Call /\ Fits(c, calls[c])
        /\ calls[c].user \in Users
        /\ disk[calls[c].user] \in Index
    BY <1>1 DEF TypeInv, TypeOK, IndexTypeOK, Shape, Fits
  <2>2. call \in Call /\ call.stage = "loaded" /\ call.user = calls[c].user
    BY <2>1 DEF Call, Stages
  <2>3. calls' = [calls EXCEPT ![c] = call]
    BY <1>1 DEF TypeInv, TypeOK, IndexTypeOK
  <2> HIDE DEF call
  <2>4. Fits(c, call)
    BY <1>1, <2>1, <2>2 DEF Fits
  <2>5. faults' \in Nat /\ misses' \in Nat
    BY <1>1 DEF TypeInv, TypeOK, IndexTypeOK
  <2> QED BY <1>1, <2>2, <2>3, <2>4, <2>5, StageTyped
<1>2. CASE calls[c].stage = "loading" /\ Fails(c)
  BY <1>2, FailsTyped
<1> QED BY <1>1, <1>2 DEF Read

\* A step that ends in the cache: it sets the disk and caches the instance.
LEMMA CachingTyped ==
    ASSUME WritesAssumption, TypeInv, Records, Unchanging, NEW c \in Callers,
           calls[c].stage # "idle", NEW docs \in Index, Cached(c, calls[c].user, docs),
           Grows, disk' \in [Users -> Index \cup {NoIndex}], faults' = faults, misses' = misses
    PROVE  TypeInv'
<1>1. calls[c].user \in Users
  BY DEF TypeInv, TypeOK, IndexTypeOK
<1>2. /\ cache' \in [Users -> Index \cup {NoIndex}]
      /\ stale' \in SUBSET Users
      /\ shared' \in BOOLEAN
      /\ saves' \in SUBSET [user : Users, docs : Index]
      /\ calls' \in [Callers -> Call]
      /\ \A d \in Callers : calls'[d].stage # "idle" => calls'[d].user \in Users
      /\ Shape'
      /\ calls'[Writer].stage = "idle" <=> calls[Writer].stage = "idle"
  BY <1>1, CachedFits
<1>3. overlapped' \in SUBSET Users
  BY FaultCounts
<1>4. IndexFits'
  BY <1>2, <1>3, QueueTypeKept DEF IndexFits, TypeInv, TypeOK, IndexTypeOK
<1> QED BY <1>4, QueueTypeKept, TypeInvParts, PTL

LEMMA GetsTyped ==
    ASSUME WritesAssumption, TypeInv, Records, Unchanging, NEW c \in Callers, Gets(c)
    PROVE  TypeInv'
<1>1. calls[c] \in Call /\ disk \in [Users -> Index \cup {NoIndex}] /\ {} \in Index
  BY Constants DEF TypeInv, TypeOK, IndexTypeOK
<1>2. CASE Read(c)
  BY <1>2, ReadTyped
<1>3. CASE Load(c)
  BY <1>1, <1>3, CachingTyped DEF Load, Grows, Call
<1>4. CASE Recover(c)
  BY <1>1, <1>4, CachingTyped DEF Recover, Grows
<1>5. CASE Create(c)
  <2>1. CASE /\ disk' = [disk EXCEPT ![calls[c].user] = {}]
             /\ Cached(c, calls[c].user, {})
             /\ UNCHANGED <<faults, misses>>
    <3>1. disk' \in [Users -> Index \cup {NoIndex}] /\ Grows
      BY <1>1, <2>1, Constants DEF Grows
    <3> QED BY <1>1, <1>5, <2>1, <3>1, CachingTyped DEF Create
  <2>2. CASE Fails(c)
    BY <1>5, <2>2, FailsTyped DEF Create
  <2> QED BY <1>5, <2>1, <2>2 DEF Create
<1> QED BY <1>2, <1>3, <1>4, <1>5 DEF Gets

\* Expiries and the saves of what left the cache do not touch the callers.
LEMMA BackgroundTyped ==
    ASSUME WritesAssumption, TypeInv, Records, Unchanging, Expire \/ DisposalEnds
    PROVE  TypeInv'
<1>1. /\ disk' \in [Users -> Index \cup {NoIndex}]
      /\ Grows
      /\ cache' = cache /\ shared' = shared /\ calls' = calls
  <2>1. CASE Expire
    BY <2>1 DEF Expire, Grows, TypeInv, TypeOK, IndexTypeOK
  <2>2. CASE DisposalEnds
    <3>1. PICK save \in saves : SaveDisposed(save)
      BY <2>2 DEF DisposalEnds
    <3>2. save.user \in Users /\ save.docs \in Index
      BY <3>1 DEF TypeInv, TypeOK, IndexTypeOK
    <3> QED BY <3>1, <3>2, Constants DEF SaveDisposed, Grows, TypeInv, TypeOK, IndexTypeOK
  <2> QED BY <2>1, <2>2
<1>2. /\ stale' \in SUBSET Users
      /\ saves' \in SUBSET [user : Users, docs : Index]
      /\ faults' \in Nat /\ misses' \in Nat
  BY FaultCounts DEF Expire, DisposalEnds, SaveDisposed, TypeInv, TypeOK, IndexTypeOK
<1>3. /\ Shape'
      /\ calls' \in [Callers -> Call]
      /\ \A d \in Callers : calls'[d].stage # "idle" => calls'[d].user \in Users
  BY <1>1, CallsFit
<1>4. overlapped' \in SUBSET Users
  BY FaultCounts
<1>5. IndexFits'
  BY <1>1, <1>2, <1>3, <1>4, QueueTypeKept DEF IndexFits, TypeInv, TypeOK, IndexTypeOK
<1> QED BY <1>5, QueueTypeKept, TypeInvParts, PTL

LEMMA InitTyped ==
    ASSUME WritesAssumption, Init
    PROVE  TypeInv
<1> USE DEF Init, IndexInit
<1>1. IndexTypeOK
  BY Constants DEF IndexTypeOK, Idle, Index
<1>2. Shape
  BY Constants DEF Shape, Fits, Idle
<1>3. batch = {} <=> calls[Writer].stage = "idle"
  BY Constants
<1>4. queue \in Seq(Docs)
  <2>1. queue = <<>>
    OBVIOUS
  <2> QED BY <2>1
<1>5. QueueTypeOK
  BY <1>4 DEF QueueTypeOK
<1> QED BY <1>1, <1>2, <1>3, <1>5, TypeInvParts DEF IndexFits

LEMMA StutterTyped ==
    ASSUME TypeInv, UNCHANGED vars
    PROVE  TypeInv'
BY DEF TypeInv, TypeOK, IndexTypeOK, Shape, Fits, vars, indexVars, queueVars, itemVars

LEMMA NextTyped ==
    ASSUME WritesAssumption, TypeInv, [Next]_vars
    PROVE  TypeInv'
<1>1. CASE QueueStep /\ Records
  BY <1>1, EnqueueTyped, ReturnTyped, TimersTyped, AddGroupTyped, GroupWrittenTyped,
     GroupFailsTyped, RestartTyped DEF QueueStep
<1>2. CASE IndexStep /\ Records
  BY <1>2, SearchTyped, SearchFailsTyped, GetsTyped, BackgroundTyped DEF IndexStep
<1>3. CASE UNCHANGED vars
  BY <1>3, StutterTyped
<1> QED BY <1>1, <1>2, <1>3, NextParts

LEMMA TypeInvariant == Spec => []TypeInv
<1>1. Init => TypeInv
  BY WritesAssumption, InitTyped
<1>2. TypeInv /\ [Next]_vars => TypeInv'
  BY WritesAssumption, NextTyped
<1> QED BY <1>1, <1>2, PTL DEF Spec

\* The values of both services' variables, and: a batch is processed exactly while the
\* writer is at an index (processBatch, getUserIndex).
THEOREM TypeCorrect == Spec => []TypeOK
<1>1. TypeInv => TypeOK
  BY DEF TypeInv
<1> QED BY <1>1, TypeInvariant, PTL
-----------------------------------------------------------------------------
(* Who looks at the queue *)

\* What waits without a timer, an immediate or a batch has failed before, and so has
\* what a pause will bring back.
MindedInv ==
    /\ batch = {} /\ ~timer /\ ~immediate =>
          Len(queue) < BatchSize /\ \A d \in Range(queue) : tries[d] > 0
    /\ \A d \in backoff : tries[d] > 0

\* With nothing in the queue, or with a batch being processed, nothing waits unminded.
LEMMA NothingWaits ==
    ASSUME WritesAssumption, NEW q, q = <<>>
    PROVE  Len(q) < BatchSize /\ Range(q) = {}
BY DEF WritesAssumption, Range

LEMMA EnqueueMinds ==
    ASSUME WritesAssumption, TypeInv, MindedInv, NEW d \in Docs, Enqueue(d)
    PROVE  MindedInv'
<1> DEFINE q == Append(queue, d)
<1>1. q \in Seq(Docs) /\ q # <<>> /\ batch \in SUBSET Docs
  BY Appended DEF TypeInv, TypeOK
<1> HIDE DEF q
<1>2. timer' = TRUE \/ ProcessBatch(q)
  BY DEF Enqueue, q
<1>3. timer' = TRUE \/ batch' # {}
  BY <1>1, <1>2, Processed
<1>4. backoff' = backoff /\ tries' = tries
  BY DEF Enqueue
<1> QED BY <1>3, <1>4 DEF MindedInv

LEMMA ReturnMinds ==
    ASSUME WritesAssumption, TypeInv, MindedInv, NEW d \in Docs, Return(d)
    PROVE  MindedInv'
<1> DEFINE q == Append(queue, d)
<1>1. q \in Seq(Docs) /\ q # <<>> /\ batch \in SUBSET Docs /\ Range(q) = Range(queue) \cup {d}
  BY Appended DEF TypeInv, TypeOK
<1> HIDE DEF q
<1>2. \/ ProcessBatch(q)
      \/ ~(Len(q) >= BatchSize) /\ queue' = q /\ batch' = batch
  BY DEF Return, q
<1>3. /\ backoff' = backoff \ {d} /\ tries' = tries /\ tries[d] > 0
      /\ timer' = timer /\ immediate' = immediate
  BY DEF Return, MindedInv
<1>4. CASE ProcessBatch(q)
  <2>1. batch' # {}
    BY <1>1, <1>4, Processed
  <2> QED BY <1>3, <2>1 DEF MindedInv
<1>5. CASE ~(Len(q) >= BatchSize) /\ queue' = q /\ batch' = batch
  <2>1. Len(q) < BatchSize
    BY <1>1, <1>5 DEF WritesAssumption
  <2>2. ASSUME batch = {}, ~timer, ~immediate
        PROVE  \A e \in Range(q) : tries[e] > 0
    BY <1>1, <1>3, <2>2 DEF MindedInv
  <2> QED BY <1>3, <1>5, <2>1, <2>2 DEF MindedInv
<1> QED BY <1>2, <1>4, <1>5

LEMMA TimersMind ==
    ASSUME WritesAssumption, TypeInv, MindedInv, TimerFires \/ ImmediateRuns
    PROVE  MindedInv'
<1>1. queue \in Seq(Docs) /\ batch \in SUBSET Docs
  BY DEF TypeInv, TypeOK
<1>2. ProcessBatch(queue) /\ backoff' = backoff /\ tries' = tries
  BY DEF TimerFires, ImmediateRuns
<1>3. batch' # {} \/ queue' = <<>>
  BY <1>1, <1>2, Processed
<1> QED BY <1>2, <1>3, NothingWaits DEF MindedInv

\* The finally of processBatch leaves the queue minded or empty.
LEMMA GoOnMinds ==
    ASSUME WritesAssumption, TypeInv, GoOn, batch' = {}, ~timer', ~immediate'
    PROVE  queue' = <<>>
<1>1. Finish /\ queue' = queue
  BY DEF GoOn
<1>2. queue \in Seq(Docs) /\ timer \in BOOLEAN /\ immediate \in BOOLEAN
  BY DEF TypeInv, TypeOK
<1>3. ~(Len(queue) >= BatchSize)
  BY <1>1 DEF Finish
<1>4. Len(queue) < BatchSize
  BY <1>2, <1>3 DEF WritesAssumption
<1> QED BY <1>1, <1>4 DEF Finish

LEMMA WrittenMinds ==
    ASSUME WritesAssumption, TypeInv, MindedInv, GroupWritten
    PROVE  MindedInv'
<1>1. GoOn /\ backoff' = backoff /\ tries' = tries
  BY DEF GroupWritten
<1>2. batch' = {} /\ ~timer' /\ ~immediate' => queue' = <<>>
  BY <1>1, GoOnMinds
<1> QED BY <1>1, <1>2, NothingWaits DEF MindedInv

LEMMA FailsMinds ==
    ASSUME WritesAssumption, TypeInv, MindedInv, GroupFails
    PROVE  MindedInv'
<1>1. GoOn
  BY DEF GroupFails
<1>2. batch' = {} /\ ~timer' /\ ~immediate' => queue' = <<>>
  BY <1>1, GoOnMinds
<1>3. ASSUME NEW d \in backoff' PROVE tries'[d] > 0
  <2>1. d \in backoff \/ d \in Group
    BY <1>3 DEF GroupFails
  <2>2. d \in Docs /\ tries[d] \in Nat
    BY <2>1 DEF Group, TypeInv, TypeOK
  <2>3. tries'[d] = IF d \in Group THEN tries[d] + 1 ELSE tries[d]
    BY <2>2 DEF GroupFails
  <2> QED BY <2>1, <2>2, <2>3 DEF MindedInv
<1> QED BY <1>2, <1>3, NothingWaits DEF MindedInv

LEMMA NextMinds ==
    ASSUME WritesAssumption, TypeInv, MindedInv, [Next]_vars
    PROVE  MindedInv'
<1>1. CASE AddGroup \/ (IndexStep /\ Records) \/ UNCHANGED vars
  BY <1>1 DEF AddGroup, IndexStep, Unchanging, queueVars, vars, MindedInv
<1>2. CASE Restart
  BY <1>2, NothingWaits DEF Restart, MindedInv
<1>3. CASE QueueStep
  BY <1>1, <1>2, <1>3, EnqueueMinds, ReturnMinds, TimersMind, WrittenMinds, FailsMinds
     DEF QueueStep
<1> QED BY <1>1, <1>3, NextParts

\* An item that was not tried yet is looked after (enqueue, processBatch's finally).
THEOREM QueueIsMinded == Spec => []QueueMinded
<1>1. Init => MindedInv
  BY WritesAssumption, NothingWaits DEF Init, MindedInv
<1>2. TypeInv /\ MindedInv /\ [Next]_vars => MindedInv'
  BY WritesAssumption, NextMinds
<1>3. MindedInv => QueueMinded
  BY DEF MindedInv, QueueMinded
<1> QED BY <1>1, <1>2, <1>3, TypeInvariant, PTL DEF Spec

-----------------------------------------------------------------------------
(* Where the items are *)

\* The items that wait for processBatch or are in its hands.
Held == Range(queue) \cup batch

Apart ==
    /\ Held \cap backoff = {} /\ Held \cap written = {}
    /\ Held \cap givenUp = {} /\ Held \cap forgotten = {}
    /\ backoff \cap written = {} /\ backoff \cap givenUp = {} /\ backoff \cap forgotten = {}
    /\ written \cap givenUp = {} /\ written \cap forgotten = {} /\ givenUp \cap forgotten = {}
    /\ accepted = Held \cup backoff \cup written \cup givenUp \cup forgotten

\* No item is held twice.
HeldOnce == IsInjective(queue) /\ Range(queue) \cap batch = {}

Counted ==
    /\ \A d \in Docs \ accepted : tries[d] = 0
    /\ \A d \in accepted : tries[d] >= MaxRetries <=> d \in givenUp

AccountInv == HeldOnce /\ Apart /\ Counted

\* processBatch and the push in front of it hold what was held and what is pushed.
LEMMA ProcessHolds ==
    ASSUME WritesAssumption, TypeInv, HeldOnce, NEW q \in Seq(Docs), NEW new \in SUBSET Docs,
           Range(q) = Range(queue) \cup new, IsInjective(q), new \cap batch = {},
           ProcessBatch(q) \/ (queue' = q /\ UNCHANGED <<batch, calls, shared>>)
    PROVE  HeldOnce' /\ Held' = Held \cup new
<1>1. batch \in SUBSET Docs
  BY DEF TypeInv, TypeOK
<1>2. Range(q) \cap batch = {}
  BY DEF HeldOnce
<1>3. CASE ProcessBatch(q)
  BY <1>1, <1>2, <1>3, Processed DEF HeldOnce, Held
<1>4. CASE queue' = q /\ UNCHANGED <<batch, calls, shared>>
  BY <1>2, <1>4 DEF HeldOnce, Held
<1> QED BY <1>3, <1>4

LEMMA EnqueueAccounts ==
    ASSUME WritesAssumption, TypeInv, AccountInv, NEW d \in Docs, Enqueue(d)
    PROVE  AccountInv'
<1> DEFINE q == Append(queue, d)
<1>1. d \notin accepted /\ d \notin Range(queue) /\ d \notin batch
  BY DEF Enqueue, AccountInv, Apart, Held
<1>2. q \in Seq(Docs) /\ Range(q) = Range(queue) \cup {d} /\ IsInjective(q)
  BY <1>1, Appended DEF TypeInv, TypeOK, AccountInv, HeldOnce
<1> HIDE DEF q
<1>3. ProcessBatch(q) \/ (queue' = q /\ UNCHANGED <<batch, calls, shared>>)
  BY DEF Enqueue, q
<1>4. HeldOnce' /\ Held' = Held \cup {d}
  <2> DEFINE new == {d}
  <2>1. new \in SUBSET Docs /\ new \cap batch = {} /\ Range(q) = Range(queue) \cup new
    BY <1>1, <1>2
  <2>2. HeldOnce
    BY DEF AccountInv
  <2> HIDE DEF new
  <2>3. HeldOnce' /\ Held' = Held \cup new
    BY <1>2, <1>3, <2>1, <2>2, ProcessHolds
  <2> QED BY <2>3 DEF new
<1>5. /\ accepted' = accepted \cup {d} /\ backoff' = backoff /\ tries' = tries
      /\ written' = written /\ givenUp' = givenUp /\ forgotten' = forgotten
  BY DEF Enqueue
<1>6. Apart'
  BY <1>1, <1>4, <1>5 DEF AccountInv, Apart
<1>7. tries[d] = 0 /\ d \notin givenUp
  BY <1>1 DEF AccountInv, Counted, Apart
<1>8. Counted'
  BY <1>5, <1>7 DEF AccountInv, Counted, WritesAssumption
<1> QED BY <1>4, <1>6, <1>8 DEF AccountInv

LEMMA ReturnAccounts ==
    ASSUME WritesAssumption, TypeInv, AccountInv, NEW d \in Docs, Return(d)
    PROVE  AccountInv'
<1> DEFINE q == Append(queue, d)
<1>1. d \in backoff /\ d \notin Range(queue) /\ d \notin batch
  BY DEF Return, AccountInv, Apart, Held
<1>2. q \in Seq(Docs) /\ Range(q) = Range(queue) \cup {d} /\ IsInjective(q)
  BY <1>1, Appended DEF TypeInv, TypeOK, AccountInv, HeldOnce
<1> HIDE DEF q
<1>3. ProcessBatch(q) \/ (queue' = q /\ UNCHANGED <<batch, calls, shared>>)
  BY DEF Return, q
<1>4. HeldOnce' /\ Held' = Held \cup {d}
  <2> DEFINE new == {d}
  <2>1. new \in SUBSET Docs /\ new \cap batch = {} /\ Range(q) = Range(queue) \cup new
    BY <1>1, <1>2
  <2>2. HeldOnce
    BY DEF AccountInv
  <2> HIDE DEF new
  <2>3. HeldOnce' /\ Held' = Held \cup new
    BY <1>2, <1>3, <2>1, <2>2, ProcessHolds
  <2> QED BY <2>3 DEF new
<1>5. /\ accepted' = accepted /\ backoff' = backoff \ {d} /\ tries' = tries
      /\ written' = written /\ givenUp' = givenUp /\ forgotten' = forgotten
  BY DEF Return, itemVars
<1>6. Apart'
  BY <1>1, <1>4, <1>5 DEF AccountInv, Apart
<1>7. Counted'
  BY <1>5 DEF AccountInv, Counted
<1> QED BY <1>4, <1>6, <1>7 DEF AccountInv

LEMMA TimersAccount ==
    ASSUME WritesAssumption, TypeInv, AccountInv, TimerFires \/ ImmediateRuns
    PROVE  AccountInv'
<1>1. ProcessBatch(queue)
  BY DEF TimerFires, ImmediateRuns
<1>2. queue \in Seq(Docs) /\ IsInjective(queue)
  BY DEF TypeInv, TypeOK, AccountInv, HeldOnce
<1>3. HeldOnce' /\ Held' = Held \cup {}
  BY <1>1, <1>2, ProcessHolds DEF AccountInv
<1>4. /\ accepted' = accepted /\ backoff' = backoff /\ tries' = tries
      /\ written' = written /\ givenUp' = givenUp /\ forgotten' = forgotten
  BY DEF TimerFires, ImmediateRuns, itemVars
<1>5. Apart' /\ Counted'
  BY <1>3, <1>4 DEF AccountInv, Apart, Counted
<1> QED BY <1>3, <1>5 DEF AccountInv

\* A group that is over is not held any more.
LEMMA GoOnLets ==
    ASSUME GoOn, HeldOnce
    PROVE  /\ HeldOnce'
           /\ Group \subseteq Held
           /\ Held' = Held \ Group
           /\ accepted' = accepted /\ forgotten' = forgotten
<1>1. batch' = batch \ Group /\ queue' = queue /\ Group \subseteq batch
  BY DEF GoOn, Group
<1>2. accepted' = accepted /\ forgotten' = forgotten
  BY DEF GoOn
<1> HIDE DEF Group
<1> QED BY <1>1, <1>2 DEF HeldOnce, Held

LEMMA WrittenAccounts ==
    ASSUME WritesAssumption, TypeInv, AccountInv, GroupWritten
    PROVE  AccountInv'
<1>1. GoOn
  BY DEF GroupWritten
<1>2. /\ HeldOnce' /\ Group \subseteq Held /\ Held' = Held \ Group
      /\ accepted' = accepted /\ forgotten' = forgotten
  BY <1>1, GoOnLets DEF AccountInv
<1>3. /\ written' = written \cup Group /\ backoff' = backoff /\ givenUp' = givenUp
      /\ tries' = tries
  BY DEF GroupWritten
<1>4. Apart' /\ Counted'
  BY <1>2, <1>3 DEF AccountInv, Apart, Counted
<1> QED BY <1>2, <1>4 DEF AccountInv

LEMMA FailsAccounts ==
    ASSUME WritesAssumption, TypeInv, AccountInv, GroupFails
    PROVE  AccountInv'
<1>1. GoOn
  BY DEF GroupFails
<1>2. /\ HeldOnce' /\ Group \subseteq Held /\ Held' = Held \ Group
      /\ accepted' = accepted /\ forgotten' = forgotten
  BY <1>1, GoOnLets DEF AccountInv
<1> DEFINE back == {d \in Group : Retries(d)}
           up == {d \in Group : ~Retries(d)}
<1>3. /\ written' = written /\ backoff' = backoff \cup back /\ givenUp' = givenUp \cup up
      /\ back \cup up = Group /\ back \cap up = {}
  BY DEF GroupFails
<1>4. Apart'
  <2> HIDE DEF back, up
  <2> QED BY <1>2, <1>3 DEF AccountInv, Apart
<1>5. ASSUME NEW d \in Docs
      PROVE  /\ tries'[d] = IF d \in Group THEN tries[d] + 1 ELSE tries[d]
             /\ tries[d] \in Nat
  BY DEF GroupFails, TypeInv, TypeOK
<1>6. ASSUME NEW d \in Group PROVE tries'[d] >= MaxRetries <=> d \in givenUp'
  <2>1. d \in Docs /\ d \notin givenUp
    BY <1>2 DEF Group, TypeInv, TypeOK, AccountInv, Apart
  <2>2. d \in givenUp' <=> ~(tries[d] + 1 < MaxRetries)
    BY <1>3, <2>1 DEF Retries
  <2>3. tries'[d] = tries[d] + 1 /\ tries[d] \in Nat
    BY <1>5, <2>1
  <2>4. tries'[d] >= MaxRetries <=> ~(tries[d] + 1 < MaxRetries)
    BY <2>3 DEF WritesAssumption
  <2> QED BY <2>2, <2>4
<1>7. ASSUME NEW d \in accepted \ Group PROVE tries'[d] >= MaxRetries <=> d \in givenUp'
  <2>1. d \in Docs /\ tries'[d] = tries[d]
    BY <1>5, <1>7 DEF TypeInv, TypeOK
  <2>2. d \in givenUp' <=> d \in givenUp
    BY <1>3, <1>7
  <2> QED BY <2>1, <2>2 DEF AccountInv, Counted
<1>8. ASSUME NEW d \in Docs \ accepted PROVE tries'[d] = 0
  <2>1. d \notin Group
    BY <1>2, <1>8 DEF AccountInv, Apart
  <2> QED BY <1>5, <1>8, <2>1 DEF AccountInv, Counted
<1>9. Counted'
  BY <1>2, <1>6, <1>7, <1>8 DEF Counted
<1> QED BY <1>2, <1>4, <1>9 DEF AccountInv

LEMMA RestartAccounts ==
    ASSUME WritesAssumption, TypeInv, AccountInv, Restart
    PROVE  AccountInv'
<1>1. /\ queue' = <<>> /\ batch' = {} /\ backoff' = {} /\ tries' = tries
      /\ accepted' = accepted /\ written' = written /\ givenUp' = givenUp
      /\ forgotten' = forgotten \cup Held \cup backoff
  BY DEF Restart, Waiting, Held
<1>2. IsInjective(queue') /\ Range(queue') = {}
  BY <1>1 DEF IsInjective, Range
<1>3. HeldOnce' /\ Held' = {}
  BY <1>1, <1>2 DEF HeldOnce, Held
<1>4. Apart' /\ Counted'
  BY <1>1, <1>3 DEF AccountInv, Apart, Counted
<1> QED BY <1>3, <1>4 DEF AccountInv

LEMMA NextAccounts ==
    ASSUME WritesAssumption, TypeInv, AccountInv, [Next]_vars
    PROVE  AccountInv'
<1>1. CASE AddGroup \/ (IndexStep /\ Records) \/ UNCHANGED vars
  BY <1>1 DEF AddGroup, IndexStep, Unchanging, queueVars, itemVars, vars,
              AccountInv, HeldOnce, Apart, Counted, Held
<1>2. CASE QueueStep
  BY <1>1, <1>2, EnqueueAccounts, ReturnAccounts, TimersAccount, WrittenAccounts,
     FailsAccounts, RestartAccounts DEF QueueStep
<1> QED BY <1>1, <1>2, NextParts

LEMMA AccountInvariant == Spec => []AccountInv
<1>1. Init => AccountInv
  <2> SUFFICES ASSUME Init PROVE AccountInv
    OBVIOUS
  <2>1. IsInjective(queue) /\ Range(queue) = {}
    BY DEF Init, IsInjective, Range
  <2>2. HeldOnce /\ Held = {}
    BY <2>1 DEF Init, HeldOnce, Held
  <2>3. Apart /\ Counted
    BY <2>2 DEF Init, Apart, Counted
  <2> QED BY <2>2, <2>3 DEF AccountInv
<1>2. TypeInv /\ AccountInv /\ [Next]_vars => AccountInv'
  BY WritesAssumption, NextAccounts
<1> QED BY <1>1, <1>2, TypeInvariant, PTL DEF Spec

LEMMA AccountedEach ==
    ASSUME AccountInv
    PROVE  ItemsAccounted
<1> DEFINE places == <<Range(queue), batch, backoff, written, givenUp, forgotten>>
<1>1. ASSUME NEW i \in 1..6, NEW j \in 1..6, i # j PROVE places[i] \cap places[j] = {}
  <2>1. i \in {1, 2, 3, 4, 5, 6} /\ j \in {1, 2, 3, 4, 5, 6}
    OBVIOUS
  <2>2. /\ places[1] = Range(queue) /\ places[2] = batch /\ places[3] = backoff
        /\ places[4] = written /\ places[5] = givenUp /\ places[6] = forgotten
    OBVIOUS
  <2> HIDE DEF places
  <2> QED BY <1>1, <2>1, <2>2 DEF AccountInv, HeldOnce, Apart, Held
<1>2. /\ IsInjective(queue)
      /\ accepted = Waiting \cup written \cup givenUp \cup forgotten
      /\ \A d \in accepted : tries[d] >= MaxRetries <=> d \in givenUp
  BY DEF AccountInv, HeldOnce, Apart, Held, Waiting, Counted
<1> QED BY <1>1, <1>2 DEF ItemsAccounted

\* Every accepted item is waiting once, written, given up after its last try, or
\* forgotten by a restart (enqueue, processBatch, retryFailedItems).
THEOREM ItemsAreAccounted == Spec => []ItemsAccounted
<1>1. AccountInv => ItemsAccounted
  BY AccountedEach
<1> QED BY <1>1, AccountInvariant, PTL

-----------------------------------------------------------------------------
(* The order of the first tries *)

\* Behind an item of the queue that was not tried yet, each later item of `items` waits
\* too, as untried.
InOrder(q, count, items) ==
    \A i \in 1..Len(q) : count[q[i]] = 0 =>
        \A e \in items : q[i] < e => \E j \in (i + 1)..Len(q) : q[j] = e /\ count[e] = 0

\* No item is tried, written or given up before one that came earlier and still waits for
\* its own first try.
FirstTriesInOrder == InOrder(queue, tries, accepted)

\* Items are numbered as they come.
OrderInv ==
    /\ FirstTriesInOrder
    /\ \A e \in accepted : \A d \in Docs : d < e => d \in accepted

\* A batch is taken from the front.
LEMMA ProcessKeepsOrder ==
    ASSUME WritesAssumption, NEW q \in Seq(Docs), NEW count, NEW items, InOrder(q, count, items),
           ProcessBatch(q) \/ queue' = q
    PROVE  InOrder(queue', count, items)
<1>1. CASE queue' = q
  BY <1>1
<1>2. CASE queue' # q
  <2> DEFINE n == IF Len(q) < BatchSize THEN Len(q) ELSE BatchSize
             left == SubSeq(q, n + 1, Len(q))
             m == Len(q)
  <2>1. queue' = left /\ q # <<>>
    BY <1>2 DEF ProcessBatch
  <2>2. m \in Nat /\ m >= 1
    BY <2>1
  <2>3. n \in 1..m
    BY <2>2 DEF WritesAssumption
  <2>4. m = Len(q)
    OBVIOUS
  <2> HIDE DEF n, m
  <2>5. Len(left) = m - n /\ \A i \in 1..(m - n) : left[i] = q[n + i]
    BY <2>2, <2>3, <2>4
  <2> HIDE DEF left
  <2>6. ASSUME NEW i \in 1..(m - n), count[left[i]] = 0, NEW e \in items, left[i] < e
        PROVE  \E j \in (i + 1)..(m - n) : left[j] = e /\ count[e] = 0
    <3>1. n + i \in 1..m /\ left[i] = q[n + i]
      BY <2>2, <2>3, <2>5, <2>6
    <3>2. PICK k \in (n + i + 1)..m : q[k] = e /\ count[e] = 0
      BY <2>4, <2>6, <3>1 DEF InOrder
    <3>3. k - n \in (i + 1)..(m - n) /\ k - n \in 1..(m - n) /\ n + (k - n) = k
      BY <2>2, <2>3, <2>6, <3>2
    <3>4. left[k - n] = e
      BY <2>5, <3>2, <3>3
    <3> QED BY <3>2, <3>3, <3>4
  <2>7. InOrder(left, count, items)
    BY <2>4, <2>5, <2>6 DEF InOrder
  <2> QED BY <2>1, <2>7
<1> QED BY <1>1, <1>2

\* What is appended does not disturb the order, if it is the newest item or was tried before.
LEMMA AppendKeepsOrder ==
    ASSUME NEW q \in Seq(Docs), NEW count, NEW items, InOrder(q, count, items), NEW d \in Docs,
           NEW more, more \subseteq items \cup {d},
           \/ count[d] = 0 /\ \A e \in more : ~(d < e)
           \/ count[d] # 0 /\ more \subseteq items
    PROVE  InOrder(Append(q, d), count, more)
<1> DEFINE r == Append(q, d)
           m == Len(q)
<1>1. /\ Len(r) = m + 1 /\ m \in Nat
      /\ \A i \in 1..m : r[i] = q[i]
      /\ r[m + 1] = d
  OBVIOUS
<1> HIDE DEF r, m
<1>2. ASSUME NEW i \in 1..(m + 1), count[r[i]] = 0, NEW e \in more, r[i] < e
      PROVE  \E j \in (i + 1)..(m + 1) : r[j] = e /\ count[e] = 0
  <2>1. CASE i = m + 1
    BY <1>1, <1>2, <2>1
  <2>2. CASE i \in 1..m /\ e \in items
    <3>1. PICK j \in (i + 1)..m : q[j] = e /\ count[e] = 0
      BY <1>1, <1>2, <2>2 DEF InOrder, m
    <3>2. j \in 1..m /\ j \in (i + 1)..(m + 1)
      BY <1>1, <2>2, <3>1
    <3> QED BY <1>1, <3>1, <3>2
  <2>3. CASE i \in 1..m /\ e = d /\ count[d] = 0
    <3>1. m + 1 \in (i + 1)..(m + 1)
      BY <1>1, <2>3
    <3> QED BY <1>1, <2>3, <3>1
  <2> QED BY <1>1, <1>2, <2>1, <2>2, <2>3
<1>3. InOrder(r, count, more)
  BY <1>1, <1>2 DEF InOrder
<1> QED BY <1>3 DEF r

LEMMA EnqueueKeepsOrder ==
    ASSUME WritesAssumption, TypeInv, AccountInv, OrderInv, NEW d \in Docs, Enqueue(d)
    PROVE  OrderInv'
<1> DEFINE q == Append(queue, d)
           more == accepted \cup {d}
<1>1. /\ queue \in Seq(Docs) /\ q \in Seq(Docs)
      /\ d \notin accepted /\ tries[d] = 0 /\ \A e \in Docs \ accepted : d <= e
  BY Appended DEF TypeInv, TypeOK, Enqueue, AccountInv, Counted
<1>2. accepted \subseteq Docs /\ Docs \subseteq Nat
  BY DEF TypeInv, TypeOK, WritesAssumption, IndexAssumption
<1>3. \A e \in more : ~(d < e)
  BY <1>1, <1>2 DEF OrderInv
<1>4. InOrder(q, tries, more)
  <2> HIDE DEF more
  <2>1. more \subseteq accepted \cup {d}
    BY DEF more
  <2> QED BY <1>1, <1>3, <2>1, AppendKeepsOrder DEF OrderInv, FirstTriesInOrder
<1>5. /\ ProcessBatch(q) \/ queue' = q
      /\ tries' = tries /\ accepted' = more
  BY DEF Enqueue
<1>6. \A e \in more : \A c \in Docs : c < e => c \in more
  BY <1>1, <1>2 DEF OrderInv
<1> HIDE DEF q, more
<1>7. InOrder(queue', tries, more)
  BY <1>1, <1>4, <1>5, ProcessKeepsOrder
<1> QED BY <1>5, <1>6, <1>7 DEF OrderInv, FirstTriesInOrder

LEMMA ReturnKeepsOrder ==
    ASSUME WritesAssumption, TypeInv, MindedInv, OrderInv, NEW d \in Docs, Return(d)
    PROVE  OrderInv'
<1> DEFINE q == Append(queue, d)
<1>1. queue \in Seq(Docs) /\ q \in Seq(Docs)
  BY Appended DEF TypeInv, TypeOK
<1>2. tries[d] # 0
  BY DEF Return, MindedInv
<1>3. InOrder(q, tries, accepted)
  BY <1>1, <1>2, AppendKeepsOrder DEF OrderInv, FirstTriesInOrder
<1>4. /\ ProcessBatch(q) \/ queue' = q
      /\ tries' = tries /\ accepted' = accepted
  BY DEF Return, itemVars
<1> HIDE DEF q
<1>5. InOrder(queue', tries, accepted)
  BY <1>1, <1>3, <1>4, ProcessKeepsOrder
<1> QED BY <1>4, <1>5 DEF OrderInv, FirstTriesInOrder

\* What is tried has left the queue.
LEMMA FailsKeepsOrder ==
    ASSUME WritesAssumption, TypeInv, AccountInv, OrderInv, GroupFails
    PROVE  OrderInv'
<1>1. queue' = queue /\ accepted' = accepted /\ queue \in Seq(Docs)
  BY DEF GroupFails, GoOn, TypeInv, TypeOK
<1>2. ASSUME NEW i \in 1..Len(queue)
      PROVE  tries'[queue[i]] = tries[queue[i]] /\ queue[i] \in Docs
  <2>1. queue[i] \in Range(queue) /\ queue[i] \in Docs
    BY <1>1 DEF Range
  <2>2. queue[i] \notin Group
    BY <2>1 DEF Group, AccountInv, HeldOnce
  <2> QED BY <2>1, <2>2 DEF GroupFails
<1>3. ASSUME NEW i \in 1..Len(queue), tries[queue[i]] = 0, NEW e \in accepted, queue[i] < e
      PROVE  \E j \in (i + 1)..Len(queue) : queue[j] = e /\ tries'[e] = 0
  <2>1. PICK j \in (i + 1)..Len(queue) : queue[j] = e /\ tries[e] = 0
    BY <1>3 DEF OrderInv, FirstTriesInOrder, InOrder
  <2>2. j \in 1..Len(queue)
    BY <1>1
  <2> QED BY <1>2, <2>1, <2>2
<1>4. InOrder(queue, tries', accepted)
  BY <1>2, <1>3 DEF InOrder
<1> QED BY <1>1, <1>4 DEF OrderInv, FirstTriesInOrder

LEMMA NextKeepsOrder ==
    ASSUME WritesAssumption, TypeInv, MindedInv, AccountInv, OrderInv, [Next]_vars
    PROVE  OrderInv'
<1>1. CASE UNCHANGED <<queue, tries, accepted>>
  BY <1>1 DEF OrderInv, FirstTriesInOrder
<1>2. CASE AddGroup \/ (IndexStep /\ Records) \/ UNCHANGED vars \/ GroupWritten
  BY <1>1, <1>2 DEF AddGroup, IndexStep, Unchanging, GroupWritten, GoOn, queueVars, itemVars, vars
<1>3. CASE TimerFires \/ ImmediateRuns
  <2>1. ProcessBatch(queue) /\ queue \in Seq(Docs) /\ UNCHANGED <<tries, accepted>>
    BY <1>3 DEF TimerFires, ImmediateRuns, itemVars, TypeInv, TypeOK
  <2> QED BY <2>1, ProcessKeepsOrder DEF OrderInv, FirstTriesInOrder
<1>4. CASE Restart
  <2>1. queue' = <<>> /\ UNCHANGED <<tries, accepted>>
    BY <1>4 DEF Restart
  <2> QED BY <2>1 DEF OrderInv, FirstTriesInOrder, InOrder
<1> QED
  BY <1>2, <1>3, <1>4, EnqueueKeepsOrder, ReturnKeepsOrder, FailsKeepsOrder, NextParts
     DEF QueueStep

\* Batches, timers and pauses keep the first tries in the order in which the items came:
\* only a failed item is ever overtaken (enqueue, processBatch, retryFailedItems).
THEOREM FirstTriesFollowOrder == Spec => []FirstTriesInOrder
<1>1. Init => MindedInv /\ OrderInv
  BY WritesAssumption, NothingWaits
     DEF Init, MindedInv, OrderInv, FirstTriesInOrder, InOrder
<1>2. TypeInv /\ MindedInv /\ AccountInv /\ OrderInv /\ [Next]_vars
      => MindedInv' /\ OrderInv'
  BY WritesAssumption, NextMinds, NextKeepsOrder
<1>3. OrderInv => FirstTriesInOrder
  BY DEF OrderInv
<1> QED BY <1>1, <1>2, <1>3, AccountInvariant, TypeInvariant, PTL DEF Spec
-----------------------------------------------------------------------------
(* What has been written stays *)

\* What is written of a user.
Kept(u) == {d \in written : Owner[d] = u}

\* A caller that will put an instance into the cache, or onto the disk, has all that is
\* written in it; it creates an index where nothing is written.
Good(docs, call) ==
    /\ call.stage \in {"loaded", "adding", "saving"} => docs \subseteq call.docs
    /\ call.stage = "creating" => docs = {}

OnDisk(u) == Kept(u) \subseteq disk[u]
InCache(u) == cache[u] # NoIndex => Kept(u) \subseteq cache[u]
InSaves(u) == \A s \in saves : s.user = u => Kept(u) \subseteq s.docs
InCalls(u) == \A c \in Callers : calls[c].user = u => Good(Kept(u), calls[c])
\* What the writer adds to is what the cache holds.
WriterShares(u) ==
    calls[Writer].user = u /\ calls[Writer].stage \in {"adding", "saving"} => shared

Everywhere(u) == OnDisk(u) /\ InCache(u) /\ InSaves(u) /\ InCalls(u) /\ WriterShares(u)

\* The writer's instance is in the cache while it is shared, and has the group before
\* it is saved.
WritingInv ==
    /\ shared => /\ calls[Writer].stage \in {"adding", "saving"}
                 /\ cache[calls[Writer].user] = calls[Writer].docs
    /\ calls[Writer].stage = "saving" => Group \subseteq calls[Writer].docs

KeptInv ==
    /\ WritingInv
    /\ \A u \in Users \ overlapped : Everywhere(u) /\ ~Crowded(u)

\* A user who has not overlapped after a step had not before it.
LEMMA StillAlone ==
    ASSUME KeptInv, Records, NEW u \in Users, u \notin overlapped'
    PROVE  Everywhere(u) /\ ~Crowded(u) /\ ~Crowded(u)'
<1>1. overlapped' = overlapped \cup {v \in Users : Crowded(v)'}
  BY DEF Records
<1>2. u \notin overlapped /\ ~Crowded(u)'
  BY <1>1
<1> QED BY <1>2 DEF KeptInv

\* A user without an index has nothing written.
LEMMA NothingWritten ==
    ASSUME WritesAssumption, TypeInv, NEW u \in Users, OnDisk(u), disk[u] = NoIndex
    PROVE  Kept(u) = {}
BY Constants DEF OnDisk, Kept, NoIndex, TypeInv, TypeOK

\* One caller's record changes and what is written does not.
LEMMA OneCall ==
    ASSUME TypeInv, NEW u \in Users, InCalls(u), Kept(u)' = Kept(u), NEW c \in Callers, NEW call,
           calls' = [calls EXCEPT ![c] = call], call.user = u => Good(Kept(u), call)
    PROVE  InCalls(u)'
<1>1. calls'[c] = call /\ \A d \in Callers : d # c => calls'[d] = calls[d]
  BY DEF TypeInv, TypeOK, IndexTypeOK
<1>2. ASSUME NEW d \in Callers, calls'[d].user = u PROVE Good(Kept(u), calls'[d])
  BY <1>1, <1>2 DEF InCalls
<1>3. ASSUME NEW d \in Callers, calls'[d].user = u PROVE Good(Kept(u), calls[d])'
  <2>1. Good(Kept(u)', calls'[d])
    BY <1>2, <1>3
  <2> QED BY <2>1 DEF Good
<1> QED BY <1>3 DEF InCalls

\* The callers stay as they are, and so does what is written.
LEMMA SameCalls ==
    ASSUME TypeInv, NEW u \in Users, InCalls(u), WriterShares(u),
           Kept(u)' = Kept(u), calls' = calls, shared' = shared
    PROVE  InCalls(u)' /\ WriterShares(u)'
<1>1. WriterShares(u)'
  BY DEF WriterShares
<1>2. ASSUME NEW d \in Callers, calls'[d].user = u PROVE Good(Kept(u), calls[d])'
  <2>1. Good(Kept(u)', calls'[d])
    BY <1>2 DEF InCalls
  <2> QED BY <2>1 DEF Good
<1> QED BY <1>1, <1>2 DEF InCalls

\* The writer starts on the next user's items: it finds what is written in the cache or
\* on the disk.
LEMMA WriterStartsKeep ==
    ASSUME WritesAssumption, TypeInv, NEW u \in Users, Everywhere(u), Kept(u)' = Kept(u),
           NEW items \in SUBSET Docs, Writes(items)
    PROVE  InCalls(u)' /\ WriterShares(u)'
<1>1. PICK d \in items : /\ calls' = [calls EXCEPT ![Writer] = Getting(Owner[d])]
                         /\ shared' = (Getting(Owner[d]).stage = "adding")
  BY DEF Writes
<1>2. Owner[d] \in Users /\ Writer \in Callers
  BY Constants
<1> DEFINE call == Getting(Owner[d])
<1>3. /\ call.user = Owner[d] /\ call.stage \in {"adding", "loading", "creating"}
      /\ call.stage = "adding" => call.docs = cache[Owner[d]] /\ Hits(Owner[d])
      /\ call.stage = "creating" => disk[Owner[d]] = NoIndex
  BY <1>2, GettingFits DEF TypeInv, TypeOK
<1> HIDE DEF call
<1>4. calls' = [calls EXCEPT ![Writer] = call] /\ shared' = (call.stage = "adding")
  BY <1>1 DEF call
<1>5. ASSUME call.user = u PROVE Good(Kept(u), call)
  <2>1. call.stage = "adding" => Kept(u) \subseteq call.docs
    BY <1>3, <1>5 DEF Everywhere, InCache, Hits
  <2>2. call.stage = "creating" => Kept(u) = {}
    BY <1>3, <1>5, NothingWritten DEF Everywhere
  <2> QED BY <1>3, <2>1, <2>2 DEF Good
<1>6. InCalls(u)'
  BY <1>2, <1>4, <1>5, OneCall DEF Everywhere
<1>7. calls'[Writer] = call
  BY <1>2, <1>4 DEF TypeInv, TypeOK, IndexTypeOK
<1>8. WriterShares(u)'
  BY <1>3, <1>4, <1>7 DEF WriterShares
<1> QED BY <1>6, <1>8

LEMMA WriterStartsShared ==
    ASSUME WritesAssumption, TypeInv, NEW items \in SUBSET Docs, Writes(items), cache' = cache
    PROVE  WritingInv'
<1>1. PICK d \in items : /\ calls' = [calls EXCEPT ![Writer] = Getting(Owner[d])]
                         /\ shared' = (Getting(Owner[d]).stage = "adding")
  BY DEF Writes
<1>2. Owner[d] \in Users /\ Writer \in Callers
  BY Constants
<1> DEFINE call == Getting(Owner[d])
<1>3. /\ call.user = Owner[d] /\ call.stage \in {"adding", "loading", "creating"}
      /\ call.stage = "adding" => call.docs = cache[Owner[d]]
  BY <1>2, GettingFits DEF TypeInv, TypeOK
<1> HIDE DEF call
<1>4. calls' = [calls EXCEPT ![Writer] = call] /\ shared' = (call.stage = "adding")
  BY <1>1 DEF call
<1>5. calls'[Writer] = call
  BY <1>2, <1>4 DEF TypeInv, TypeOK, IndexTypeOK
<1> QED BY <1>3, <1>4, <1>5 DEF WritingInv

\* Disk, cache and saves stay as they are, and so does what is written.
LEMMA SamePlaces ==
    ASSUME NEW u \in Users, Everywhere(u), Kept(u)' = Kept(u), UNCHANGED <<disk, cache, saves>>
    PROVE  OnDisk(u)' /\ InCache(u)' /\ InSaves(u)'
<1>1. OnDisk(u)' /\ InCache(u)'
  BY DEF Everywhere, OnDisk, InCache
<1>2. InSaves(u)'
  BY DEF Everywhere, InSaves
<1> QED BY <1>1, <1>2

LEMMA SameWritten ==
    ASSUME written' = written, NEW u
    PROVE  Kept(u)' = Kept(u)
BY DEF Kept

\* Every step of the queue that may call processBatch.
LEMMA ProcessKeeps ==
    ASSUME WritesAssumption, TypeInv, NEW u \in Users, Everywhere(u), IndexKept,
           written' = written, NEW q \in Seq(Docs),
           ProcessBatch(q) \/ (queue' = q /\ UNCHANGED <<batch, calls, shared>>)
    PROVE  Everywhere(u)'
<1>1. Kept(u)' = Kept(u) /\ batch \in SUBSET Docs
  BY SameWritten DEF TypeInv, TypeOK
<1>2. OnDisk(u)' /\ InCache(u)' /\ InSaves(u)'
  BY <1>1, SamePlaces DEF IndexKept
<1>3. CASE calls' = calls /\ shared' = shared
  BY <1>1, <1>2, <1>3, SameCalls DEF Everywhere
<1>4. CASE batch' \in SUBSET Docs /\ Writes(batch')
  BY <1>1, <1>2, <1>4, WriterStartsKeep DEF Everywhere
<1> QED BY <1>1, <1>3, <1>4, Processed

LEMMA ProcessShares ==
    ASSUME WritesAssumption, TypeInv, WritingInv, IndexKept, NEW q \in Seq(Docs),
           ProcessBatch(q) \/ (queue' = q /\ UNCHANGED <<batch, calls, shared>>)
    PROVE  WritingInv'
<1>1. batch \in SUBSET Docs /\ cache' = cache
  BY DEF TypeInv, TypeOK, IndexKept
<1>2. CASE batch' = batch /\ calls' = calls /\ shared' = shared
  BY <1>1, <1>2 DEF WritingInv, Group
<1>3. CASE batch' \in SUBSET Docs /\ Writes(batch')
  BY <1>1, <1>3, WriterStartsShared
<1> QED BY <1>1, <1>2, <1>3, Processed
\* The steps of the queue that leave the indices alone and may call processBatch.
LEMMA Processes ==
    ASSUME WritesAssumption, TypeInv,
           (\E d \in Docs : Enqueue(d) \/ Return(d)) \/ TimerFires \/ ImmediateRuns
    PROVE  /\ IndexKept /\ written' = written
           /\ \E q \in Seq(Docs) :
                 ProcessBatch(q) \/ (queue' = q /\ UNCHANGED <<batch, calls, shared>>)
<1>0. queue \in Seq(Docs)
  BY DEF TypeInv, TypeOK
<1>1. CASE \E d \in Docs : Enqueue(d) \/ Return(d)
  <2>1. PICK d \in Docs : Enqueue(d) \/ Return(d)
    BY <1>1
  <2> DEFINE q == Append(queue, d)
  <2>2. q \in Seq(Docs)
    BY <1>0, Appended
  <2> HIDE DEF q
  <2>3. ProcessBatch(q) \/ (queue' = q /\ UNCHANGED <<batch, calls, shared>>)
    BY <2>1 DEF Enqueue, Return, q
  <2>4. IndexKept /\ written' = written
    BY <2>1 DEF Enqueue, Return, itemVars
  <2> QED BY <2>2, <2>3, <2>4
<1>2. CASE TimerFires \/ ImmediateRuns
  BY <1>0, <1>2 DEF TimerFires, ImmediateRuns, itemVars
<1> QED BY <1>1, <1>2

\* A group that is over leaves the writer idle or at another user.
LEMMA GoOnCalls ==
    ASSUME WritesAssumption, TypeInv, GoOn, NEW u \in Users, calls[Writer].user \in Users
    PROVE  /\ \A c \in Callers : calls'[c].user = calls[Writer].user =>
                                    c # Writer /\ calls'[c] = calls[c]
           /\ Everywhere(u) /\ Kept(u)' = Kept(u) => InCalls(u)' /\ WriterShares(u)'
           /\ cache' = cache => WritingInv'
<1>1. batch' = batch \ Group /\ batch' \in SUBSET Docs
  BY DEF GoOn, TypeInv, TypeOK
<1>2. Writer \in Callers /\ calls \in [Callers -> Call]
  BY Constants DEF TypeInv, TypeOK, IndexTypeOK
<1>3. CASE batch' # {}
  <2>1. Writes(batch')
    BY <1>3 DEF GoOn
  <2>2. PICK d \in batch' : calls' = [calls EXCEPT ![Writer] = Getting(Owner[d])]
    BY <2>1 DEF Writes
  <2>3. Owner[d] \in Users /\ Owner[d] # calls[Writer].user /\ Getting(Owner[d]).user = Owner[d]
    BY <1>1, Constants, GettingFits DEF Group, TypeInv, TypeOK
  <2>4. \A c \in Callers : calls'[c].user = calls[Writer].user =>
                              c # Writer /\ calls'[c] = calls[c]
    BY <1>2, <2>2, <2>3
  <2> QED BY <1>1, <2>1, <2>4, WriterStartsKeep, WriterStartsShared
<1>4. CASE batch' = {}
  <2>1. calls' = [calls EXCEPT ![Writer] = Idle] /\ shared' = FALSE
    BY <1>4 DEF GoOn
  <2>2. calls'[Writer] = Idle
    BY <1>2, <2>1
  <2>3. \A c \in Callers : calls'[c].user = calls[Writer].user =>
                              c # Writer /\ calls'[c] = calls[c]
    BY <1>2, <2>1, <2>2, Constants
  <2>4. Everywhere(u) /\ Kept(u)' = Kept(u) => InCalls(u)'
    BY <1>2, <2>1, Constants, OneCall DEF Everywhere
  <2>5. WriterShares(u)' /\ WritingInv'
    BY <2>1, <2>2, Constants DEF WriterShares, WritingInv
  <2> QED BY <2>3, <2>4, <2>5
<1> QED BY <1>3, <1>4

\* What is inserted is in the writer's instance, and in the cached one.
LEMMA AddGroupKeeps ==
    ASSUME WritesAssumption, TypeInv, WritingInv, AddGroup,
           NEW u \in Users, Everywhere(u)
    PROVE  Everywhere(u)'
<1> DEFINE old == calls[Writer]
           call == [old EXCEPT !.stage = "saving", !.docs = @ \cup Group]
<1>1. /\ old \in Call /\ Writer \in Callers /\ old.stage = "adding" /\ old.user \in Users
      /\ calls \in [Callers -> Call]
  BY Constants DEF AddGroup, Insert, TypeInv, TypeOK, IndexTypeOK
<1>2. call.stage = "saving" /\ call.user = old.user /\ call.docs = old.docs \cup Group
  BY <1>1 DEF Call
<1>3. calls' = [calls EXCEPT ![Writer] = call]
  BY <1>1 DEF AddGroup, Insert
<1>4. /\ cache' = IF shared THEN [cache EXCEPT ![old.user] = old.docs \cup Group] ELSE cache
      /\ disk' = disk /\ saves' = saves /\ shared' = shared /\ written' = written
  BY DEF AddGroup, Insert, itemVars
<1> HIDE DEF call
<1>5. Kept(u)' = Kept(u)
  BY <1>4, SameWritten
<1>6. ASSUME old.user = u PROVE Kept(u) \subseteq old.docs
  BY <1>1, <1>6 DEF Everywhere, InCalls, Good
<1>7. InCalls(u)'
  BY <1>1, <1>2, <1>3, <1>5, <1>6, OneCall DEF Everywhere, Good
<1>8. WriterShares(u)'
  BY <1>1, <1>2, <1>3, <1>4 DEF Everywhere, WriterShares
<1>9. OnDisk(u)' /\ InSaves(u)'
  BY <1>4, <1>5 DEF Everywhere, OnDisk, InSaves
<1>10. InCache(u)'
  <2> HIDE DEF old
  <2>1. CASE shared /\ old.user = u
    BY <1>1, <1>4, <1>5, <1>6, <2>1 DEF InCache, TypeInv, TypeOK, IndexTypeOK
  <2>2. CASE ~(shared /\ old.user = u)
    BY <1>4, <1>5, <2>2 DEF Everywhere, InCache, TypeInv, TypeOK, IndexTypeOK
  <2> QED BY <2>1, <2>2
<1> QED BY <1>7, <1>8, <1>9, <1>10 DEF Everywhere

LEMMA AddGroupShares ==
    ASSUME WritesAssumption, TypeInv, WritingInv, AddGroup
    PROVE  WritingInv'
<1> DEFINE old == calls[Writer]
           call == [old EXCEPT !.stage = "saving", !.docs = @ \cup Group]
<1>1. /\ old \in Call /\ Writer \in Callers /\ old.stage = "adding" /\ old.user \in Users
      /\ calls \in [Callers -> Call] /\ cache \in [Users -> Index \cup {NoIndex}]
  BY Constants DEF AddGroup, Insert, TypeInv, TypeOK, IndexTypeOK
<1>2. call.stage = "saving" /\ call.user = old.user /\ call.docs = old.docs \cup Group
  BY <1>1 DEF Call
<1>3. calls' = [calls EXCEPT ![Writer] = call]
  BY <1>1 DEF AddGroup, Insert
<1>4. /\ cache' = IF shared THEN [cache EXCEPT ![old.user] = old.docs \cup Group] ELSE cache
      /\ shared' = shared /\ batch' = batch
  BY DEF AddGroup, Insert, queueVars
<1> HIDE DEF call
<1>5. calls'[Writer] = call
  BY <1>1, <1>3
<1>6. Group' = Group
  BY <1>2, <1>4, <1>5 DEF Group
<1> HIDE DEF old
<1>7. shared' => cache'[old.user] = old.docs \cup Group
  BY <1>1, <1>4
<1> QED BY <1>2, <1>5, <1>6, <1>7 DEF WritingInv

\* The save of the writer: what it saves is what the cache holds.
LEMMA GroupWrittenKeeps ==
    ASSUME WritesAssumption, TypeInv, WritingInv, GroupWritten,
           NEW u \in Users, Everywhere(u), ~Crowded(u)
    PROVE  Everywhere(u)'
<1> DEFINE v == calls[Writer].user
           docs == calls[Writer].docs
<1>1. /\ v \in Users /\ Writer \in Callers /\ calls[Writer].stage = "saving"
      /\ disk' = [disk EXCEPT ![v] = docs]
      /\ cache' = cache /\ saves' = saves /\ written' = written \cup Group /\ GoOn
  BY Constants DEF GroupWritten, SaveWritten, TypeInv, TypeOK, IndexTypeOK
<1>2. disk'[v] = docs /\ (u # v => disk'[u] = disk[u])
  BY <1>1 DEF TypeInv, TypeOK, IndexTypeOK
<1>3. CASE u = v
  <2>1. Kept(u) \subseteq docs /\ shared
    BY <1>1, <1>3 DEF Everywhere, InCalls, WriterShares, Good
  <2>2. Group \subseteq docs /\ cache[u] = docs
    BY <1>1, <1>3, <2>1 DEF WritingInv
  <2>3. Kept(u)' \subseteq docs
    BY <1>1, <2>1, <2>2 DEF Kept
  <2>4. OnDisk(u)' /\ InCache(u)'
    BY <1>1, <1>2, <1>3, <2>2, <2>3 DEF OnDisk, InCache
  <2>5. \A s \in saves : s.user # u
    BY <1>1, <1>3 DEF Crowded
  <2>6. \A c \in Callers : c # Writer => calls[c].user # u
    BY <1>1, <1>3 DEF Crowded
  <2>7. \A c \in Callers : calls'[c].user # u
    BY <1>1, <1>3, <2>6, GoOnCalls
  <2>8. InSaves(u)' /\ InCalls(u)' /\ WriterShares(u)'
    BY <1>1, <2>5, <2>7 DEF InSaves, InCalls, WriterShares
  <2> QED BY <2>4, <2>8 DEF Everywhere
<1>4. CASE u # v
  <2>1. Kept(u)' = Kept(u)
    BY <1>1, <1>4 DEF Kept, Group
  <2>2. OnDisk(u)' /\ InCache(u)' /\ InSaves(u)'
    BY <1>1, <1>2, <1>4, <2>1 DEF Everywhere, OnDisk, InCache, InSaves
  <2>3. InCalls(u)' /\ WriterShares(u)'
    BY <1>1, <2>1, GoOnCalls
  <2> QED BY <2>2, <2>3 DEF Everywhere
<1> QED BY <1>3, <1>4

LEMMA GroupFailsKeeps ==
    ASSUME WritesAssumption, TypeInv, GroupFails, NEW u \in Users, Everywhere(u)
    PROVE  Everywhere(u)'
<1>1. calls[Writer].user \in Users /\ GoOn /\ written' = written
      /\ disk' = disk /\ cache' = cache /\ saves' = saves
  BY Constants DEF GroupFails, WriteThrows, TypeInv, TypeOK, IndexTypeOK
<1>2. Kept(u)' = Kept(u)
  BY <1>1, SameWritten
<1>3. OnDisk(u)' /\ InCache(u)' /\ InSaves(u)'
  BY <1>1, <1>2, SamePlaces
<1>4. InCalls(u)' /\ WriterShares(u)'
  BY <1>1, <1>2, GoOnCalls
<1> QED BY <1>3, <1>4 DEF Everywhere

LEMMA GroupEndsShares ==
    ASSUME WritesAssumption, TypeInv, GroupWritten \/ GroupFails
    PROVE  WritingInv'
<1>1. calls[Writer].user \in Users /\ GoOn /\ cache' = cache
  BY Constants DEF GroupWritten, SaveWritten, GroupFails, WriteThrows, TypeInv, TypeOK, IndexTypeOK
<1>2. PICK u \in Users : TRUE
  BY <1>1
<1> QED BY <1>1, <1>2, GoOnCalls

\* What a shutdown saves is what the cache held.
LEMMA RestartKeeps ==
    ASSUME WritesAssumption, TypeInv, Restart
    PROVE  /\ WritingInv'
           /\ \A u \in Users : Everywhere(u) => Everywhere(u)'
<1>1. /\ cache' = [u \in Users |-> NoIndex] /\ saves' = {} /\ shared' = FALSE
      /\ calls' = [c \in Callers |-> Idle] /\ written' = written
  BY DEF Restart, Stop
<1>2. PICK saved \in SUBSET {u \in Users : cache[u] # NoIndex} :
          disk' = [u \in Users |-> IF u \in saved THEN cache[u] ELSE disk[u]]
  BY DEF Restart, Stop
<1>3. calls'[Writer] = Idle
  BY <1>1, Constants
<1>4. ASSUME NEW u \in Users, Everywhere(u) PROVE Everywhere(u)'
  <2>1. Kept(u)' = Kept(u)
    BY <1>1, SameWritten
  <2>2. OnDisk(u)'
    BY <1>2, <1>4, <2>1 DEF Everywhere, OnDisk, InCache
  <2>3. InCache(u)' /\ InSaves(u)'
    BY <1>1 DEF InCache, InSaves
  <2>4. InCalls(u)' /\ WriterShares(u)'
    BY <1>1, <1>3, Constants DEF InCalls, WriterShares
  <2> QED BY <2>2, <2>3, <2>4 DEF Everywhere
<1> QED BY <1>1, <1>3, <1>4, Constants DEF WritingInv
\* Caching an instance: what it replaces or evicts is being saved with all that is
\* written, and if that is the writer's, the writer and this save overlap.
LEMMA CachedKeeps ==
    ASSUME WritesAssumption, TypeInv, written' = written, NEW c \in Callers,
           NEW w \in Users, calls[c].user = w, NEW docs \in Index, Cached(c, w, docs),
           NEW u \in Users, Everywhere(u), ~Crowded(u), ~Crowded(u)',
           u = w => Kept(u) \subseteq docs
    PROVE  InCache(u)' /\ InSaves(u)' /\ InCalls(u)' /\ WriterShares(u)'
<1> DEFINE others == {v \in Users \ {w} : cache[v] # NoIndex}
<1>1. PICK out \in SUBSET others :
        /\ cache' = [v \in Users |-> IF v = w THEN docs ELSE IF v \in out THEN NoIndex ELSE cache[v]]
        /\ saves' = saves \cup {[user |-> v, docs |-> cache[v]] :
                                 v \in {x \in out \cup {w} : cache[x] # NoIndex}}
        /\ shared' = (c = Writer \/ (shared /\ calls[Writer].user \notin out \cup {w}))
        /\ Got(c, w, docs)
  BY DEF Cached
<1>2. Kept(u)' = Kept(u)
  BY SameWritten
<1>3. InCache(u)'
  BY <1>1, <1>2 DEF Everywhere, InCache
<1>4. ASSUME NEW s \in saves', s.user = u PROVE Kept(u) \subseteq s.docs
  <2>1. CASE s \in saves
    BY <1>4, <2>1 DEF Everywhere, InSaves
  <2>2. CASE s \notin saves
    <3>1. PICK v \in out \cup {w} : cache[v] # NoIndex /\ s = [user |-> v, docs |-> cache[v]]
      BY <1>1, <1>4, <2>2
    <3> QED BY <1>4, <3>1 DEF Everywhere, InCache
  <2> QED BY <2>1, <2>2
<1>5. InSaves(u)'
  BY <1>2, <1>4 DEF InSaves
<1> DEFINE call == IF c = Writer THEN [stage |-> "adding", user |-> w, docs |-> docs] ELSE Idle
<1>6. calls' = [calls EXCEPT ![c] = call] /\ calls \in [Callers -> Call] /\ Writer \in Callers
  BY <1>1, Constants DEF Got, TypeInv, TypeOK, IndexTypeOK
<1>7. /\ c = Writer => call.stage = "adding" /\ call.user = w /\ call.docs = docs
      /\ c # Writer => call.user = None
  BY Constants
<1> HIDE DEF call
<1>8. InCalls(u)'
  BY <1>2, <1>6, <1>7, Constants, OneCall DEF Everywhere, Good
<1>9. WriterShares(u)'
  <2>1. CASE c = Writer
    BY <1>1, <2>1 DEF WriterShares
  <2>2. CASE c # Writer
    <3> SUFFICES ASSUME calls'[Writer].user = u, calls'[Writer].stage \in {"adding", "saving"}
                 PROVE  shared'
      BY DEF WriterShares
    <3>1. calls'[Writer] = calls[Writer]
      BY <1>6, <2>2
    <3>2. shared
      BY <3>1 DEF Everywhere, WriterShares
    <3>3. u # w
      BY <1>6, <2>2, <3>1 DEF Crowded
    <3>4. u \notin out
      <4> SUFFICES ASSUME u \in out PROVE FALSE
        OBVIOUS
      <4>1. [user |-> u, docs |-> cache[u]] \in saves'
        BY <1>1
      <4> QED BY <1>6, <4>1 DEF Crowded
    <3> QED BY <1>1, <3>1, <3>2, <3>3, <3>4
  <2> QED BY <2>1, <2>2
<1> QED BY <1>3, <1>5, <1>8, <1>9

LEMMA CachedShares ==
    ASSUME WritesAssumption, TypeInv, WritingInv, Unchanging, NEW c \in Callers,
           NEW w \in Users, calls[c].user = w, NEW docs \in Index, Cached(c, w, docs)
    PROVE  WritingInv'
<1> DEFINE others == {v \in Users \ {w} : cache[v] # NoIndex}
<1>1. PICK out \in SUBSET others :
        /\ cache' = [v \in Users |-> IF v = w THEN docs ELSE IF v \in out THEN NoIndex ELSE cache[v]]
        /\ shared' = (c = Writer \/ (shared /\ calls[Writer].user \notin out \cup {w}))
        /\ Got(c, w, docs)
  BY DEF Cached
<1>2. calls \in [Callers -> Call] /\ Writer \in Callers /\ batch' = batch
  BY Constants, QueueTypeKept DEF TypeInv, TypeOK, IndexTypeOK
<1>3. CASE c = Writer
  <2>1. calls'[Writer] = [stage |-> "adding", user |-> w, docs |-> docs]
    BY <1>1, <1>2, <1>3 DEF Got
  <2> QED BY <1>1, <2>1 DEF WritingInv
<1>4. CASE c # Writer
  <2>1. calls'[Writer] = calls[Writer]
    BY <1>1, <1>2, <1>4 DEF Got
  <2>2. Group' = Group
    BY <1>2, <2>1 DEF Group
  <2>3. shared' => /\ calls[Writer].user \in Users
                   /\ cache'[calls[Writer].user] = cache[calls[Writer].user]
    BY <1>1, <1>2, <1>4 DEF WritingInv, TypeInv, TypeOK, IndexTypeOK
  <2>4. shared' => shared
    BY <1>1, <1>4
  <2> HIDE DEF others
  <2>5. shared' => /\ calls'[Writer].stage \in {"adding", "saving"}
                   /\ cache'[calls'[Writer].user] = calls'[Writer].docs
    BY <2>1, <2>3, <2>4 DEF WritingInv
  <2>6. calls'[Writer].stage = "saving" => Group' \subseteq calls'[Writer].docs
    BY <2>1, <2>2 DEF WritingInv
  <2> QED BY <2>5, <2>6 DEF WritingInv
<1> QED BY <1>3, <1>4

\* A caller goes on and touches nothing but its own record.
LEMMA OnlyCall ==
    ASSUME WritesAssumption, TypeInv, written' = written,
           UNCHANGED <<disk, cache, shared, saves>>,
           NEW c \in Callers, NEW call, calls' = [calls EXCEPT ![c] = call],
           c = Writer => call.stage \notin {"adding", "saving"},
           NEW u \in Users, Everywhere(u), call.user = u => Good(Kept(u), call)
    PROVE  Everywhere(u)'
<1>1. Kept(u)' = Kept(u)
  BY SameWritten
<1>2. OnDisk(u)' /\ InCache(u)' /\ InSaves(u)'
  BY <1>1, SamePlaces
<1>3. InCalls(u)'
  BY <1>1, OneCall DEF Everywhere
<1>4. calls'[Writer] = IF c = Writer THEN call ELSE calls[Writer]
  BY Constants DEF TypeInv, TypeOK, IndexTypeOK
<1>5. WriterShares(u)'
  BY <1>4 DEF Everywhere, WriterShares
<1> QED BY <1>2, <1>3, <1>5 DEF Everywhere

LEMMA OnlyCallShares ==
    ASSUME WritesAssumption, TypeInv, WritingInv, Unchanging, UNCHANGED <<cache, shared>>,
           NEW c \in Callers, NEW call, calls' = [calls EXCEPT ![c] = call],
           c = Writer => calls[c].stage \notin {"adding", "saving"}
                         /\ call.stage \notin {"adding", "saving"}
    PROVE  WritingInv'
<1>1. calls'[Writer] = IF c = Writer THEN call ELSE calls[Writer]
  BY Constants DEF TypeInv, TypeOK, IndexTypeOK
<1>2. batch' = batch
  BY QueueTypeKept
<1> QED BY <1>1, <1>2 DEF WritingInv, Group

\* After a failure a caller is recovering, which its user's exception is for.
LEMMA FailsKeeps ==
    ASSUME WritesAssumption, TypeInv, WritingInv, Unchanging, NEW c \in Callers,
           calls[c].stage \in {"loading", "creating"}, Fails(c)
    PROVE  /\ WritingInv'
           /\ \A u \in Users : Everywhere(u) => Everywhere(u)'
<1> DEFINE call == [calls[c] EXCEPT !.stage = "recovering"]
<1>1. /\ call.stage = "recovering"
      /\ calls' = [calls EXCEPT ![c] = call]
      /\ UNCHANGED <<disk, cache, shared, saves>> /\ written' = written
  BY DEF Fails, TypeInv, TypeOK, IndexTypeOK, Call, Unchanging, itemVars
<1> HIDE DEF call
<1>2. ASSUME NEW u \in Users, Everywhere(u) PROVE Everywhere(u)'
  BY <1>1, <1>2, OnlyCall DEF Good
<1>3. WritingInv'
  BY <1>1, OnlyCallShares
<1> QED BY <1>2, <1>3

LEMMA ReadKeeps ==
    ASSUME WritesAssumption, TypeInv, WritingInv, Unchanging, NEW c \in Callers, Read(c)
    PROVE  /\ WritingInv'
           /\ \A u \in Users : Everywhere(u) => Everywhere(u)'
<1>1. CASE /\ calls[c].stage = "loading"
           /\ calls' = [calls EXCEPT ![c].stage = "loaded", ![c].docs = disk[calls[c].user]]
           /\ UNCHANGED <<disk, cache, stale, shared, saves, faults, misses>>
  <2> DEFINE call == [calls[c] EXCEPT !.stage = "loaded", !.docs = disk[calls[c].user]]
  <2>0. calls \in [Callers -> Call]
    BY DEF TypeInv, TypeOK, IndexTypeOK
  <2>1. /\ call.stage = "loaded" /\ call.user = calls[c].user /\ call.docs = disk[calls[c].user]
        /\ calls' = [calls EXCEPT ![c] = call]
    BY <1>1, <2>0 DEF Call
  <2>5. written' = written
    BY DEF Unchanging, itemVars
  <2> HIDE DEF call
  <2>2. ASSUME NEW u \in Users, Everywhere(u) PROVE Everywhere(u)'
    <3>1. call.user = u => Good(Kept(u), call)
      BY <2>1, <2>2 DEF Everywhere, OnDisk, Good
    <3> QED BY <1>1, <2>1, <2>2, <2>5, <3>1, OnlyCall
  <2>3. WritingInv'
    BY <1>1, <2>1, <2>5, OnlyCallShares
  <2> QED BY <2>2, <2>3
<1>2. CASE calls[c].stage = "loading" /\ Fails(c)
  BY <1>2, FailsKeeps
<1> QED BY <1>1, <1>2 DEF Read

LEMMA SearchKeeps ==
    ASSUME WritesAssumption, TypeInv, WritingInv, Unchanging, NEW s \in Searches, Search(s)
    PROVE  /\ WritingInv'
           /\ \A u \in Users : Everywhere(u) => Everywhere(u)'
<1>1. PICK v \in Users : ~Hits(v) /\ calls' = [calls EXCEPT ![s] = Getting(v)]
  BY DEF Search
<1> DEFINE call == Getting(v)
<1>2. /\ call.user = v /\ call.stage \in {"loading", "creating"}
      /\ call.stage = "creating" => disk[v] = NoIndex
  BY <1>1, GettingFits DEF TypeInv, TypeOK
<1> HIDE DEF call
<1>3. /\ calls' = [calls EXCEPT ![s] = call] /\ s \in Callers /\ s # Writer
      /\ UNCHANGED <<disk, cache, shared, saves>> /\ written' = written
  BY <1>1, Constants DEF Search, Unchanging, itemVars, call
<1>4. ASSUME NEW u \in Users, Everywhere(u) PROVE Everywhere(u)'
  <2>1. call.user = u => Good(Kept(u), call)
    BY <1>2, <1>4, NothingWritten DEF Everywhere, Good
  <2> QED BY <1>3, <1>4, <2>1, OnlyCall
<1>5. WritingInv'
  BY <1>3, OnlyCallShares
<1> QED BY <1>4, <1>5

LEMMA SearchFailsKeeps ==
    ASSUME WritesAssumption, TypeInv, WritingInv, Unchanging, NEW s \in Searches, SearchFails(s)
    PROVE  /\ WritingInv'
           /\ \A u \in Users : Everywhere(u) => Everywhere(u)'
<1>1. /\ calls' = [calls EXCEPT ![s] = Idle] /\ s \in Callers /\ s # Writer
      /\ UNCHANGED <<disk, cache, shared, saves>> /\ written' = written
      /\ Idle.user = None
  BY Constants DEF SearchFails, Unchanging, itemVars
<1>2. ASSUME NEW u \in Users, Everywhere(u) PROVE Everywhere(u)'
  BY <1>1, <1>2, Constants, OnlyCall
<1>3. WritingInv'
  BY <1>1, OnlyCallShares
<1> QED BY <1>2, <1>3
\* What a caller loads or creates has all that is written; an empty instance after a
\* failure is an exception of its user.
LEMMA GetsKeeps ==
    ASSUME WritesAssumption, TypeInv, WritingInv, Unchanging, NEW c \in Callers, Gets(c),
           NEW u \in Users, Everywhere(u), ~Crowded(u), ~Crowded(u)'
    PROVE  Everywhere(u)'
<1> DEFINE w == calls[c].user
<1>1. written' = written /\ calls[c] \in Call /\ {} \in Index
  BY Constants DEF Unchanging, itemVars, TypeInv, TypeOK, IndexTypeOK
<1>2. Kept(u)' = Kept(u)
  BY <1>1, SameWritten
<1>3. CASE Read(c)
  BY <1>3, ReadKeeps
<1>4. CASE Load(c)
  <2>1. w \in Users /\ calls[c].docs \in Index /\ Cached(c, w, calls[c].docs) /\ disk' = disk
    BY <1>1, <1>4 DEF Load, TypeInv, TypeOK, IndexTypeOK, Call
  <2>2. u = w => Kept(u) \subseteq calls[c].docs
    BY <1>4 DEF Load, Everywhere, InCalls, Good
  <2>3. OnDisk(u)'
    BY <1>2, <2>1 DEF Everywhere, OnDisk
  <2> HIDE DEF w
  <2> QED BY <1>1, <2>1, <2>2, <2>3, CachedKeeps DEF Everywhere, w
<1>5. CASE Recover(c)
  <2>1. w \in Users /\ Cached(c, w, {}) /\ disk' = disk
    BY <1>5 DEF Recover, TypeInv, TypeOK, IndexTypeOK
  <2>2. u # w
    BY <1>5 DEF Recover, Crowded
  <2>3. OnDisk(u)'
    BY <1>2, <2>1 DEF Everywhere, OnDisk
  <2> HIDE DEF w
  <2> QED BY <1>1, <2>1, <2>2, <2>3, CachedKeeps DEF Everywhere, w
<1>6. CASE Create(c)
  <2>1. CASE disk' = [disk EXCEPT ![w] = {}] /\ Cached(c, w, {})
    <3>1. w \in Users
      BY <1>6 DEF Create, TypeInv, TypeOK, IndexTypeOK
    <3>2. u = w => Kept(u) = {}
      BY <1>6 DEF Create, Everywhere, InCalls, Good
    <3>3. OnDisk(u)'
      BY <1>2, <2>1, <3>2 DEF Everywhere, OnDisk, TypeInv, TypeOK, IndexTypeOK
    <3> HIDE DEF w
    <3>4. u = w => Kept(u) \subseteq {}
      BY <3>2
    <3> QED BY <1>1, <2>1, <3>1, <3>3, <3>4, CachedKeeps DEF Everywhere, w
  <2>2. CASE Fails(c)
    BY <1>6, <2>2, FailsKeeps DEF Create
  <2> QED BY <1>6, <2>1, <2>2 DEF Create
<1> QED BY <1>3, <1>4, <1>5, <1>6 DEF Gets

LEMMA GetsShares ==
    ASSUME WritesAssumption, TypeInv, WritingInv, Unchanging, NEW c \in Callers, Gets(c)
    PROVE  WritingInv'
<1> DEFINE w == calls[c].user
<1>1. calls[c] \in Call /\ {} \in Index
  BY Constants DEF TypeInv, TypeOK, IndexTypeOK
<1>2. CASE Read(c)
  BY <1>2, ReadKeeps
<1>3. CASE (calls[c].stage \in {"creating"}) /\ Fails(c)
  BY <1>3, FailsKeeps
<1>4. CASE /\ calls[c].stage # "idle"
           /\ \E docs \in Index : Cached(c, w, docs)
  <2>1. w \in Users
    BY <1>4 DEF TypeInv, TypeOK, IndexTypeOK
  <2> HIDE DEF w
  <2> QED BY <1>4, <2>1, CachedShares DEF w
<1> QED BY <1>1, <1>2, <1>3, <1>4 DEF Gets, Load, Create, Recover, Call

\* What leaves the cache has all that is written, so its late save loses nothing.
LEMMA BackgroundKeeps ==
    ASSUME WritesAssumption, TypeInv, WritingInv, Unchanging, Expire \/ DisposalEnds
    PROVE  /\ WritingInv'
           /\ \A u \in Users : Everywhere(u) => Everywhere(u)'
<1>1. /\ cache' = cache /\ shared' = shared /\ calls' = calls /\ written' = written
      /\ batch' = batch
  BY DEF Expire, DisposalEnds, SaveDisposed, Unchanging, queueVars, itemVars
<1>2. WritingInv'
  BY <1>1 DEF WritingInv, Group
<1>3. ASSUME NEW u \in Users, Everywhere(u) PROVE Everywhere(u)'
  <2>1. Kept(u)' = Kept(u)
    BY <1>1, SameWritten
  <2>2. InCalls(u)' /\ WriterShares(u)'
    BY <1>1, <1>3, <2>1, SameCalls DEF Everywhere
  <2>3. InCache(u)'
    BY <1>1, <1>3, <2>1 DEF Everywhere, InCache
  <2>4. saves' \subseteq saves
    BY DEF Expire, DisposalEnds, SaveDisposed
  <2>5. InSaves(u)'
    BY <1>3, <2>1, <2>4 DEF Everywhere, InSaves
  <2>6. OnDisk(u)'
    <3>1. CASE disk' = disk
      BY <1>3, <2>1, <3>1 DEF Everywhere, OnDisk
    <3>2. CASE \E save \in saves : disk' = [disk EXCEPT ![save.user] = save.docs]
      <4>1. PICK save \in saves : disk' = [disk EXCEPT ![save.user] = save.docs]
        BY <3>2
      <4>2. CASE save.user = u
        BY <1>3, <2>1, <4>1, <4>2 DEF Everywhere, InSaves, OnDisk, TypeInv, TypeOK, IndexTypeOK
      <4>3. CASE save.user # u
        BY <1>3, <2>1, <4>1, <4>3 DEF Everywhere, OnDisk, TypeInv, TypeOK, IndexTypeOK
      <4> QED BY <4>2, <4>3
    <3> QED BY <3>1, <3>2 DEF Expire, DisposalEnds, SaveDisposed
  <2> QED BY <2>2, <2>3, <2>5, <2>6 DEF Everywhere
<1> QED BY <1>2, <1>3

LEMMA QueueStepKeeps ==
    ASSUME WritesAssumption, TypeInv, WritingInv, QueueStep
    PROVE  /\ WritingInv'
           /\ \A u \in Users : Everywhere(u) /\ ~Crowded(u) => Everywhere(u)'
<1>1. CASE (\E d \in Docs : Enqueue(d) \/ Return(d)) \/ TimerFires \/ ImmediateRuns
  BY <1>1, Processes, ProcessKeeps, ProcessShares
<1>2. CASE AddGroup
  BY <1>2, AddGroupKeeps, AddGroupShares
<1>3. CASE GroupWritten \/ GroupFails
  BY <1>3, GroupWrittenKeeps, GroupFailsKeeps, GroupEndsShares
<1>4. CASE Restart
  BY <1>4, RestartKeeps
<1> QED BY <1>1, <1>2, <1>3, <1>4 DEF QueueStep

LEMMA IndexStepKeeps ==
    ASSUME WritesAssumption, TypeInv, WritingInv, IndexStep
    PROVE  /\ WritingInv'
           /\ \A u \in Users : Everywhere(u) /\ ~Crowded(u) /\ ~Crowded(u)' => Everywhere(u)'
<1>1. Unchanging
  BY DEF IndexStep
<1>2. CASE \E s \in Searches : Search(s) \/ SearchFails(s)
  BY <1>1, <1>2, SearchKeeps, SearchFailsKeeps
<1>3. CASE \E c \in Callers : Gets(c)
  BY <1>1, <1>3, GetsKeeps, GetsShares
<1>4. CASE Expire \/ DisposalEnds
  BY <1>1, <1>4, BackgroundKeeps
<1> QED BY <1>2, <1>3, <1>4 DEF IndexStep

LEMMA StutterKeeps ==
    ASSUME KeptInv, UNCHANGED vars
    PROVE  KeptInv'
BY DEF KeptInv, WritingInv, Group, Everywhere, OnDisk, InCache, InSaves, InCalls, WriterShares,
       Kept, Good, Crowded, vars, indexVars, queueVars, itemVars

LEMMA NextKeeps ==
    ASSUME WritesAssumption, TypeInv, KeptInv, [Next]_vars
    PROVE  KeptInv'
<1>1. CASE UNCHANGED vars
  BY <1>1, StutterKeeps
<1>2. CASE Next
  <2>1. Records /\ (QueueStep \/ IndexStep) /\ WritingInv
    BY <1>2, NextParts DEF KeptInv
  <2>2. WritingInv'
    BY <2>1, QueueStepKeeps, IndexStepKeeps
  <2>3. ASSUME NEW u \in Users, u \notin overlapped' PROVE Everywhere(u)' /\ ~Crowded(u)'
    <3>1. Everywhere(u) /\ ~Crowded(u) /\ ~Crowded(u)'
      BY <2>1, <2>3, StillAlone
    <3> QED BY <2>1, <3>1, QueueStepKeeps, IndexStepKeeps
  <2> QED BY <2>2, <2>3 DEF KeptInv
<1> QED BY <1>1, <1>2

LEMMA InitKeeps ==
    ASSUME WritesAssumption, Init
    PROVE  KeptInv
<1>1. calls[Writer] = Idle /\ shared = FALSE /\ written = {} /\ saves = {}
  BY Constants DEF Init, IndexInit
<1>2. WritingInv
  BY <1>1, Constants DEF WritingInv
<1>3. ASSUME NEW u \in Users PROVE Everywhere(u)
  <2>1. Kept(u) = {}
    BY <1>1 DEF Kept
  <2>2. OnDisk(u) /\ InCache(u) /\ InSaves(u)
    BY <2>1 DEF OnDisk, InCache, InSaves
  <2>3. InCalls(u) /\ WriterShares(u)
    BY <1>1, Constants DEF Init, IndexInit, InCalls, WriterShares
  <2> QED BY <2>2, <2>3 DEF Everywhere
<1>4. ASSUME NEW u \in Users PROVE ~Crowded(u)
  BY <1>1, Constants DEF Init, IndexInit, Crowded
<1> QED BY <1>2, <1>3, <1>4 DEF KeptInv

\* A written document stays on the disk and in the cached index, for every user whose
\* loads, writes and background saves have not overlapped and whose loads have not failed
\* (getUserIndex, dispose, saveUserIndex).
THEOREM WrittenStays == Spec => []WrittenKept
<1>1. Init => KeptInv
  BY WritesAssumption, InitKeeps
<1>2. TypeInv /\ KeptInv /\ [Next]_vars => KeptInv'
  BY WritesAssumption, NextKeeps
<1>3. TypeInv /\ KeptInv => WrittenKept
  <2> SUFFICES ASSUME TypeInv, KeptInv, NEW d \in written, Owner[d] \notin overlapped
               PROVE  /\ d \in disk[Owner[d]]
                      /\ cache[Owner[d]] # NoIndex => d \in cache[Owner[d]]
    BY DEF WrittenKept
  <2>1. Owner[d] \in Users
    BY WritesAssumption, Constants DEF TypeInv, TypeOK
  <2>2. Everywhere(Owner[d]) /\ d \in Kept(Owner[d])
    BY <2>1 DEF KeptInv, Kept
  <2> QED BY <2>2 DEF Everywhere, OnDisk, InCache
<1> QED BY <1>1, <1>2, <1>3, TypeInvariant, PTL DEF Spec
=============================================================================
