------------------------ MODULE WebhookRetryProofs ------------------------
(***************************************************************************)
(* That a retry continues the row it names (WebhookDelivery!RetryChain),   *)
(* for every value of the constants.  The argument: all calls that hold a  *)
(* copy of the same row agree on the retries that row was created with,    *)
(* because only a pending row is loaded; a row that has been retried was   *)
(* left with one retry less, and so was its retry created.                 *)
(***************************************************************************)
EXTENDS WebhookDeliveryProofs

(* The inductive invariant *)

\* A call between its findById and the save of what it decided holds a copy of
\* its row; `left` is one less than the row it loaded had once it is dirty.
Holds(p) == p.stage \in {"loaded", "sending", "succeeding", "scheduling", "failing", "retrySaved"}
Loaded(p) == p.left + (IF p.dirty THEN 1 ELSE 0)

CountsOnce(p) ==
    /\ p.stage \in {"start", "loaded", "sending"} => ~p.dirty
    /\ p.stage \in {"scheduling", "retrySaved"} => p.dirty

\* The row has the retries it was loaded with, or one less and is closed.
Agrees(p, row) ==
    \/ row.retriesLeft = Loaded(p) /\ p.stage # "retrySaved"
    \/ row.retriesLeft = Loaded(p) - 1 /\ row.status # "pending"

RetryOf(j, i) == Live(i) /\ Live(j) /\ rows[j].kind = "retry" /\ rows[j].prev = i

Retried(i, j) ==
    /\ rows[i].status # "pending"
    /\ rows[j].attempt = rows[i].attempt + 1
    /\ rows[j].retriesLeft \in {rows[i].retriesLeft, rows[i].retriesLeft - 1}
    /\ rows[j].status = "pending" => rows[j].retriesLeft = rows[i].retriesLeft
    /\ \A w \in Workers : Holds(procs[w]) =>
          /\ procs[w].id = i => Loaded(procs[w]) = rows[i].retriesLeft + 1
          /\ procs[w].id = j => Loaded(procs[w]) = rows[i].retriesLeft

PrevBefore == \A i \in Ids : Live(i) /\ rows[i].kind = "retry" =>
                                rows[i].prev \in Ids /\ rows[i].prev < i
CopiesAgree == \A w \in Workers : Holds(procs[w]) /\ Live(procs[w].id) =>
                                     Agrees(procs[w], rows[procs[w].id])
CopiesAlike == \A v, w \in Workers :
                  Holds(procs[v]) /\ Holds(procs[w]) /\ procs[v].id = procs[w].id =>
                     Loaded(procs[v]) = Loaded(procs[w])
RetriesFollow == \A i, j \in Ids : RetryOf(j, i) => Retried(i, j)

ChainInv ==
    /\ PrevBefore
    /\ \A w \in Workers : CountsOnce(procs[w])
    /\ CopiesAgree
    /\ CopiesAlike
    /\ RetriesFollow
    /\ creating.kind # "retry"

LEMMA ChainImplies == TypeOK /\ ChainInv => RetryChain
<1> SUFFICES ASSUME TypeOK, ChainInv, NEW i \in Ids,
                    Live(i), rows[i].kind = "retry", Live(rows[i].prev)
             PROVE  /\ rows[i].attempt = rows[rows[i].prev].attempt + 1
                    /\ rows[rows[i].prev].retriesLeft - rows[i].retriesLeft \in {0, 1}
  BY DEF RetryChain
<1>1. PICK k : k = rows[i].prev
  OBVIOUS
<1>2. k \in Ids /\ RetryOf(i, k)
  BY <1>1 DEF ChainInv, PrevBefore, RetryOf
<1>3. Retried(k, i)
  BY <1>2 DEF ChainInv, RetriesFollow
<1>4. rows[k].retriesLeft \in Nat /\ rows[i].retriesLeft \in Nat
  BY <1>2 DEF TypeOK, Row
<1> QED BY <1>1, <1>3, <1>4 DEF Retried

LEMMA ChainInitial == Init => ChainInv
<1> SUFFICES ASSUME Init PROVE ChainInv
  OBVIOUS
<1>1. \A i \in Ids : ~Live(i)
  BY DEF Init, AbsentRow, Live
<1>2. \A w \in Workers : procs[w].stage = "idle"
  BY IdleType DEF Init
<1>3. creating.kind # "retry"
  BY DEF Init, NoCreation
<1> QED BY <1>1, <1>2, <1>3
        DEF ChainInv, PrevBefore, CountsOnce, CopiesAgree, CopiesAlike, RetriesFollow, RetryOf, Holds

-----------------------------------------------------------------------------
(* Steps that insert no row *)

Kept(old, new) == /\ new.status = old.status /\ new.kind = old.kind /\ new.prev = old.prev
                  /\ new.attempt = old.attempt /\ new.retriesLeft = old.retriesLeft

\* A call that holds the row has saved it.
ClosedBy(p, old, new) ==
    /\ Holds(p) /\ old.status # "absent"
    /\ new.status \in {"success", "failed"}
    /\ new.kind = old.kind /\ new.prev = old.prev /\ new.attempt = old.attempt
    /\ new.retriesLeft \in {old.retriesLeft, Loaded(p) - 1}

RowMoves(i) ==
    \/ Kept(rows[i], rows'[i])
    \/ \E w \in Workers : procs[w].id = i /\ ClosedBy(procs[w], rows[i], rows'[i])

\* A call keeps the copy it holds, or has just loaded a pending row.
KeepsCopy(p, q) ==
    /\ Holds(p) /\ q.id = p.id /\ Loaded(q) = Loaded(p)
    /\ q.stage = "retrySaved" =>
          \/ p.stage = "retrySaved"
          \/ rows'[p.id].status # "pending" /\ rows'[p.id].retriesLeft = Loaded(p) - 1

Loads(q) ==
    /\ q.id \in Ids /\ rows[q.id].status = "pending"
    /\ q.stage # "retrySaved" /\ Loaded(q) = rows[q.id].retriesLeft

CallMoves(p, q) == CountsOnce(q) /\ (Holds(q) => KeepsCopy(p, q) \/ Loads(q))

\* The id a call holds is that of a row.
LEMMA HeldIsId ==
    ASSUME TypeOK, KnownIds, NEW w \in Workers, Holds(procs[w])
    PROVE  /\ procs[w].id \in Ids /\ procs[w].id < nextId
           /\ procs[w].left \in Nat /\ Loaded(procs[w]) \in Nat
<1>1. KnownCall(procs[w]) /\ procs[w].stage # "idle" /\ procs[w] \in Proc
  BY DEF KnownIds, TypeOK, Holds
<1>2. procs[w].left \in Nat
  BY <1>1 DEF Proc
<1>3. Loaded(procs[w]) \in Nat
  BY <1>2 DEF Loaded
<1> QED BY <1>1, <1>2, <1>3, CallHasRow

LEMMA CopiesMove ==
    ASSUME TypeOK, KnownIds, ChainInv, TypeOK', KnownIds',
           \A i \in Ids : RowMoves(i),
           \A w \in Workers : CallMoves(procs[w], procs'[w]),
           creating'.kind # "retry"
    PROVE  ChainInv'
<1>1. \A i \in Ids : /\ rows[i].retriesLeft \in Nat /\ rows'[i].retriesLeft \in Nat
                     /\ rows[i].attempt \in Nat
  BY DEF TypeOK, Row
<1>2. \A i \in Ids : /\ Live(i)' => Live(i)
                     /\ rows'[i].status = "pending" => rows[i].status = "pending"
                     /\ Live(i)' => /\ rows'[i].kind = rows[i].kind
                                    /\ rows'[i].prev = rows[i].prev
                                    /\ rows'[i].attempt = rows[i].attempt
  BY DEF RowMoves, Kept, ClosedBy, Live
<1>3. PrevBefore'
  BY <1>2 DEF ChainInv, PrevBefore
<1>4. ASSUME NEW i \in Ids, NEW w \in Workers, Holds(procs[w]), procs[w].id = i, Live(i)
      PROVE  /\ Agrees(procs[w], rows[i])
             /\ \/ rows'[i].retriesLeft = rows[i].retriesLeft
                \/ rows'[i].retriesLeft = Loaded(procs[w]) - 1
  <2>1. Agrees(procs[w], rows[i])
    BY <1>4 DEF ChainInv, CopiesAgree
  <2>2. ASSUME NEW v \in Workers, procs[v].id = i, ClosedBy(procs[v], rows[i], rows'[i])
        PROVE  \/ rows'[i].retriesLeft = rows[i].retriesLeft
               \/ rows'[i].retriesLeft = Loaded(procs[w]) - 1
    <3>1. Loaded(procs[v]) = Loaded(procs[w])
      BY <1>4, <2>2 DEF ChainInv, CopiesAlike, ClosedBy
    <3> QED BY <2>2, <3>1 DEF ClosedBy
  <2> QED BY <2>1, <2>2 DEF RowMoves, Kept
<1>5. ASSUME NEW i \in Ids, rows[i].status = "pending", rows'[i].status # "absent"
      PROVE  \/ rows'[i].retriesLeft = rows[i].retriesLeft
             \/ rows'[i].retriesLeft = rows[i].retriesLeft - 1 /\ rows'[i].status # "pending"
  <2>1. CASE Kept(rows[i], rows'[i])
    BY <2>1 DEF Kept
  <2>2. ASSUME NEW v \in Workers, procs[v].id = i, ClosedBy(procs[v], rows[i], rows'[i])
        PROVE  \/ rows'[i].retriesLeft = rows[i].retriesLeft
               \/ rows'[i].retriesLeft = rows[i].retriesLeft - 1 /\ rows'[i].status # "pending"
    <3>1. Holds(procs[v]) /\ Agrees(procs[v], rows[i])
      BY <1>5, <2>2, <1>4 DEF ClosedBy, Live
    <3>2. Loaded(procs[v]) = rows[i].retriesLeft
      BY <1>5, <3>1 DEF Agrees
    <3> QED BY <2>2, <3>2 DEF ClosedBy
  <2> QED BY <2>1, <2>2 DEF RowMoves
<1>6. CopiesAgree'
  <2> SUFFICES ASSUME NEW w \in Workers, Holds(procs'[w]),
                      rows'[procs'[w].id].status # "absent"
               PROVE  Agrees(procs'[w], rows'[procs'[w].id])
    BY DEF CopiesAgree, Agrees, Loaded, Holds, Live
  <2>1. PICK p, q, i : p = procs[w] /\ q = procs'[w] /\ i = q.id
    OBVIOUS
  <2>2. CASE KeepsCopy(p, q)
    <3>1. i = p.id /\ Holds(p) /\ i \in Ids /\ Loaded(p) \in Nat /\ Loaded(q) = Loaded(p)
      BY <2>1, <2>2, HeldIsId DEF KeepsCopy
    <3>2. Live(i)
      BY <1>2, <2>1, <3>1 DEF Live
    <3>3. /\ Agrees(p, rows[i])
          /\ rows'[i].retriesLeft = rows[i].retriesLeft \/ rows'[i].retriesLeft = Loaded(p) - 1
      BY <1>4, <2>1, <3>1, <3>2
    <3>4. rows'[i].retriesLeft # rows[i].retriesLeft => rows'[i].status # "pending"
      BY <3>1 DEF RowMoves, Kept, ClosedBy
    <3>5. rows[i].status # "pending" => rows'[i].status # "pending"
      BY <1>2, <3>1
    <3> QED BY <1>1, <2>1, <2>2, <3>1, <3>3, <3>4, <3>5 DEF Agrees, KeepsCopy
  <2>3. CASE Loads(q)
    <3>1. i \in Ids /\ rows[i].status = "pending" /\ Loaded(q) = rows[i].retriesLeft
          /\ q.stage # "retrySaved" /\ rows'[i].status # "absent"
      BY <2>1, <2>3 DEF Loads, Live
    <3> QED BY <1>5, <2>1, <3>1 DEF Agrees
  <2> QED BY <2>1, <2>2, <2>3 DEF CallMoves
<1>7. ASSUME NEW v \in Workers, NEW w \in Workers, Holds(procs'[v]), Holds(procs[w]),
             procs'[v].id = procs[w].id
      PROVE  Loaded(procs'[v]) = Loaded(procs[w])
  <2>1. PICK p, q, r : p = procs[v] /\ q = procs'[v] /\ r = procs[w]
    OBVIOUS
  <2>2. CASE KeepsCopy(p, q)
    BY <1>7, <2>1, <2>2 DEF KeepsCopy, ChainInv, CopiesAlike
  <2>3. CASE Loads(q)
    <3>1. rows[r.id].status = "pending" /\ Live(r.id) /\ Loaded(q) = rows[r.id].retriesLeft
      BY <1>7, <2>1, <2>3 DEF Loads, Live
    <3>2. Agrees(r, rows[r.id])
      BY <1>7, <2>1, <3>1 DEF ChainInv, CopiesAgree
    <3> QED BY <2>1, <3>1, <3>2 DEF Agrees
  <2> QED BY <1>7, <2>1, <2>2, <2>3 DEF CallMoves
<1>8. CopiesAlike'
  <2> SUFFICES ASSUME NEW v \in Workers, NEW w \in Workers, Holds(procs'[v]), Holds(procs'[w]),
                      procs'[v].id = procs'[w].id
               PROVE  Loaded(procs'[v]) = Loaded(procs'[w])
    BY DEF CopiesAlike, Holds, Loaded
  <2>1. PICK p, q, r : p = procs[w] /\ q = procs'[w] /\ r = procs'[v]
    OBVIOUS
  <2>2. CASE KeepsCopy(p, q)
    BY <1>7, <2>1, <2>2 DEF KeepsCopy
  <2>3. CASE Loads(q) /\ Loads(r)
    BY <2>1, <2>3 DEF Loads
  <2>4. CASE Loads(q) /\ KeepsCopy(procs[v], r)
    BY <1>7, <2>1, <2>4 DEF KeepsCopy
  <2> QED BY <2>1, <2>2, <2>3, <2>4 DEF CallMoves
<1>9. RetriesFollow'
  <2> SUFFICES ASSUME NEW i \in Ids, NEW j \in Ids, RetryOf(j, i)' PROVE Retried(i, j)'
    BY DEF RetriesFollow
  <2>1. RetryOf(j, i) /\ Live(i)' /\ Live(j)'
    BY <1>2 DEF RetryOf
  <2>2. Retried(i, j)
    BY <2>1 DEF ChainInv, RetriesFollow
  <2>3. rows'[i].retriesLeft = rows[i].retriesLeft
    <3>1. CASE Kept(rows[i], rows'[i])
      BY <3>1 DEF Kept
    <3>2. ASSUME NEW w \in Workers, procs[w].id = i, ClosedBy(procs[w], rows[i], rows'[i])
          PROVE  rows'[i].retriesLeft = rows[i].retriesLeft
      <4>1. Loaded(procs[w]) = rows[i].retriesLeft + 1
        BY <2>2, <3>2 DEF Retried, ClosedBy
      <4> QED BY <1>1, <3>2, <4>1 DEF ClosedBy
    <3> QED BY <3>1, <3>2 DEF RowMoves
  <2>4. /\ rows'[j].retriesLeft \in {rows[i].retriesLeft, rows[i].retriesLeft - 1}
        /\ rows'[j].status = "pending" => rows'[j].retriesLeft = rows[i].retriesLeft
    <3>1. CASE Kept(rows[j], rows'[j])
      BY <2>2, <3>1 DEF Kept, Retried
    <3>2. ASSUME NEW w \in Workers, procs[w].id = j, ClosedBy(procs[w], rows[j], rows'[j])
          PROVE  /\ rows'[j].retriesLeft \in {rows[i].retriesLeft, rows[i].retriesLeft - 1}
                 /\ rows'[j].status # "pending"
      <4>1. Loaded(procs[w]) = rows[i].retriesLeft
        BY <2>2, <3>2 DEF Retried, ClosedBy
      <4> QED BY <1>1, <2>2, <3>2, <4>1 DEF ClosedBy, Retried
    <3> QED BY <3>1, <3>2 DEF RowMoves
  <2>5. ASSUME NEW w \in Workers, Holds(procs'[w])
        PROVE  /\ procs'[w].id = i => Loaded(procs'[w]) = rows[i].retriesLeft + 1
               /\ procs'[w].id = j => Loaded(procs'[w]) = rows[i].retriesLeft
    <3>1. PICK p, q : p = procs[w] /\ q = procs'[w]
      OBVIOUS
    <3>2. CASE KeepsCopy(p, q)
      BY <2>2, <3>1, <3>2 DEF KeepsCopy, Retried
    <3>3. CASE Loads(q)
      BY <2>2, <3>1, <3>3 DEF Loads, Retried
    <3> QED BY <2>5, <3>1, <3>2, <3>3 DEF CallMoves
  <2>6. /\ rows'[i].status # "pending"
        /\ rows'[j].attempt = rows'[i].attempt + 1
    BY <1>2, <2>1, <2>2 DEF Retried
  <2> QED BY <2>3, <2>4, <2>5, <2>6 DEF Retried, Holds, Loaded
<1>10. \A w \in Workers : CountsOnce(procs[w])'
  BY DEF CallMoves, CountsOnce
<1> QED BY <1>3, <1>6, <1>8, <1>9, <1>10 DEF ChainInv

LEMMA OthersMove ==
    ASSUME TypeOK, ChainInv, NEW w \in Workers, NEW q, Becomes(w, q), CallMoves(procs[w], q)
    PROVE  \A v \in Workers : CallMoves(procs[v], procs'[v])
<1> SUFFICES ASSUME NEW v \in Workers PROVE CallMoves(procs[v], procs'[v])
  OBVIOUS
<1>1. CASE v = w
  <2>1. procs'[v] = q
    BY <1>1 DEF Becomes, TypeOK
  <2> QED BY <1>1, <2>1
<1>2. CASE v # w
  <2>1. procs'[v] = procs[v] /\ CountsOnce(procs[v])
    BY <1>2 DEF Becomes, TypeOK, ChainInv
  <2> QED BY <2>1 DEF CallMoves, KeepsCopy
<1> QED BY <1>1, <1>2

LEMMA HoldsNothing ==
    ASSUME NEW p, NEW q,
           q.stage \in {"idle", "succeeded", "failed", "counting", "deactivating", "retryCreated"}
    PROVE  CallMoves(p, q)
BY DEF CallMoves, CountsOnce, Holds

LEMMA StartsClean ==
    ASSUME NEW p, NEW q, q.stage = "start", ~q.dirty
    PROVE  CallMoves(p, q)
BY DEF CallMoves, CountsOnce, Holds

\* An exception: the call ends, or goes on to mark the delivery failed.
LEMMA ThrowMoves ==
    ASSUME TypeOK, ChainInv, NEW w \in Workers, Throw(w), Holds(procs[w])
    PROVE  \A v \in Workers : CallMoves(procs[v], procs'[v])
<1>1. CASE Becomes(w, Caught(procs[w]))
  <2>1. PICK p, q : p = procs[w] /\ q = Caught(p)
    OBVIOUS
  <2>2. q.stage = "failing" /\ q.id = p.id /\ q.left = p.left /\ q.dirty = p.dirty
    BY <2>1 DEF Caught, TypeOK, Proc
  <2>3. CallMoves(p, q)
    BY <2>1, <2>2 DEF CallMoves, CountsOnce, KeepsCopy, Loaded
  <2> QED BY <1>1, <2>1, <2>3, OthersMove
<1>2. CASE Abort(w)
  <2>1. CallMoves(procs[w], Idle)
    BY IdleType, HoldsNothing
  <2> QED BY <1>2, <2>1, OthersMove DEF Abort, AbortFrom
<1> QED BY <1>1, <1>2 DEF Throw

-----------------------------------------------------------------------------
(* Steps that insert a row *)

\* A new row is a first attempt, or the retry of a row that a call has closed.
NewRetry(row, p) ==
    /\ p.stage = "retrySaved" /\ row.prev = p.id /\ row.retriesLeft = p.left
    /\ Live(p.id) => row.attempt = rows[p.id].attempt + 1

Stays(p, q) ==
    /\ CountsOnce(q)
    /\ Holds(q) => /\ Holds(p) /\ q.id = p.id /\ Loaded(q) = Loaded(p)
                   /\ q.stage = "retrySaved" => p.stage = "retrySaved"

LEMMA CopiesOutliveInsert ==
    ASSUME TypeOK, KnownIds, ChainInv, TypeOK', NEW row \in Row, Insert(row),
           row.status = "pending",
           row.kind = "retry" => \E w \in Workers : NewRetry(row, procs[w]),
           \A w \in Workers : Stays(procs[w], procs'[w]),
           creating'.kind # "retry"
    PROVE  ChainInv'
<1>1. PICK n : n = nextId
  OBVIOUS
<1>2. /\ n \in Ids /\ rows'[n] = row /\ ~Live(n)
      /\ \A i \in Ids : i # n => rows'[i] = rows[i]
      /\ \A i \in Ids : i > n => ~Live(i)
  BY <1>1, InsertKeeps DEF KnownIds, Live, Ids
<1>3. ASSUME NEW w \in Workers, Holds(procs'[w])
      PROVE  /\ Holds(procs[w]) /\ procs'[w].id = procs[w].id
             /\ Loaded(procs'[w]) = Loaded(procs[w])
             /\ procs[w].id \in Ids /\ procs[w].id < n /\ procs[w].id # n
             /\ procs'[w].stage = "retrySaved" => procs[w].stage = "retrySaved"
  <2>1. Holds(procs[w])
    BY <1>3 DEF Stays
  <2>2. procs[w].id \in Ids /\ procs[w].id < n
    BY <1>1, <2>1, HeldIsId
  <2>3. procs[w].id # n
    BY <1>2, <2>2 DEF Ids
  <2> QED BY <1>3, <2>1, <2>2, <2>3 DEF Stays
<1>4. ASSUME row.kind = "retry"
      PROVE  \E w \in Workers : /\ NewRetry(row, procs[w]) /\ Holds(procs[w])
                                /\ row.prev \in Ids /\ row.prev < n /\ row.prev # n
  <2>1. PICK w \in Workers : NewRetry(row, procs[w])
    BY <1>4
  <2>2. Holds(procs[w])
    BY <2>1 DEF NewRetry, Holds
  <2>3. procs[w].id \in Ids /\ procs[w].id < n
    BY <1>1, <2>2, HeldIsId
  <2>4. procs[w].id # n
    BY <1>2, <2>3 DEF Ids
  <2> QED BY <2>1, <2>2, <2>3, <2>4 DEF NewRetry
<1>5. PrevBefore'
  <2> SUFFICES ASSUME NEW i \in Ids, rows'[i].status # "absent", rows'[i].kind = "retry"
               PROVE  rows'[i].prev \in Ids /\ rows'[i].prev < i
    BY DEF PrevBefore, Live
  <2>1. CASE i = n
    BY <1>2, <1>4, <2>1
  <2>2. CASE i # n
    BY <1>2, <2>2 DEF ChainInv, PrevBefore, Live
  <2> QED BY <2>1, <2>2
<1>6. CopiesAgree'
  <2> SUFFICES ASSUME NEW w \in Workers, Holds(procs'[w]),
                      rows'[procs'[w].id].status # "absent"
               PROVE  Agrees(procs'[w], rows'[procs'[w].id])
    BY DEF CopiesAgree, Agrees, Loaded, Holds, Live
  <2>1. PICK p, q : p = procs[w] /\ q = procs'[w]
    OBVIOUS
  <2>2. /\ Holds(p) /\ q.id = p.id /\ Loaded(q) = Loaded(p) /\ p.id \in Ids
        /\ rows'[p.id] = rows[p.id]
        /\ q.stage = "retrySaved" => p.stage = "retrySaved"
    BY <1>2, <1>3, <2>1
  <2>3. Agrees(p, rows[p.id])
    BY <2>1, <2>2 DEF ChainInv, CopiesAgree, Live
  <2>4. Agrees(q, rows[p.id])
    <3>1. rows[p.id].retriesLeft \in Nat /\ Loaded(p) \in Nat
      BY <2>1, <2>2, HeldIsId DEF TypeOK, Row
    <3> QED BY <2>2, <2>3, <3>1 DEF Agrees
  <2> QED BY <2>1, <2>2, <2>4
<1>7. CopiesAlike'
  <2> SUFFICES ASSUME NEW v \in Workers, NEW w \in Workers, Holds(procs'[v]), Holds(procs'[w]),
                      procs'[v].id = procs'[w].id
               PROVE  Loaded(procs'[v]) = Loaded(procs'[w])
    BY DEF CopiesAlike, Holds, Loaded
  <2> QED BY <1>3 DEF ChainInv, CopiesAlike
<1>8. RetriesFollow'
  <2> SUFFICES ASSUME NEW i \in Ids, NEW j \in Ids, RetryOf(j, i)' PROVE Retried(i, j)'
    BY DEF RetriesFollow
  <2>1. /\ rows'[i].status # "absent" /\ rows'[j].status # "absent"
        /\ rows'[j].kind = "retry" /\ rows'[j].prev = i
    BY DEF RetryOf, Live
  <2>2. i < j /\ i # n
    <3>1. i < j
      BY <1>5, <2>1 DEF PrevBefore, Live
    <3>2. i # n
      BY <1>2, <2>1, <3>1, WebhookAssumption DEF Live, Ids
    <3> QED BY <3>1, <3>2
  <2>3. rows'[i] = rows[i] /\ Live(i)
    BY <1>2, <2>1, <2>2 DEF Live
  <2>4. CASE j # n
    <3>1. rows'[j] = rows[j] /\ RetryOf(j, i)
      BY <1>2, <2>1, <2>3, <2>4 DEF RetryOf, Live
    <3>2. Retried(i, j)
      BY <3>1 DEF ChainInv, RetriesFollow
    <3>3. ASSUME NEW w \in Workers, Holds(procs'[w])
          PROVE  /\ procs'[w].id = i => Loaded(procs'[w]) = rows[i].retriesLeft + 1
                 /\ procs'[w].id = j => Loaded(procs'[w]) = rows[i].retriesLeft
      BY <1>3, <3>2, <3>3 DEF Retried
    <3> QED BY <2>3, <3>1, <3>2, <3>3 DEF Retried, Holds, Loaded
  <2>5. CASE j = n
    <3>1. PICK w \in Workers : NewRetry(row, procs[w]) /\ Holds(procs[w])
      BY <1>2, <1>4, <2>1, <2>5
    <3>2. PICK p : p = procs[w]
      OBVIOUS
    <3>3. /\ p.id = i /\ row.retriesLeft = p.left /\ p.stage = "retrySaved" /\ Holds(p)
          /\ row.attempt = rows[i].attempt + 1
      BY <1>2, <2>1, <2>3, <2>5, <3>1, <3>2 DEF NewRetry
    <3>4. Loaded(p) = p.left + 1 /\ p.left \in Nat /\ rows[i].retriesLeft \in Nat
      <4>1. p.dirty
        BY <3>2, <3>3 DEF ChainInv, CountsOnce
      <4> QED BY <4>1, <3>1, <3>2, HeldIsId DEF Loaded, TypeOK, Row
    <3>5. rows[i].retriesLeft = p.left /\ rows[i].status # "pending"
      <4>1. Agrees(p, rows[i])
        BY <2>3, <3>2, <3>3 DEF ChainInv, CopiesAgree
      <4> QED BY <3>3, <3>4, <4>1 DEF Agrees
    <3>6. ASSUME NEW v \in Workers, Holds(procs'[v])
          PROVE  /\ procs'[v].id = i => Loaded(procs'[v]) = rows[i].retriesLeft + 1
                 /\ procs'[v].id # j
      <4>1. Holds(procs[v]) /\ procs'[v].id = procs[v].id /\ Loaded(procs'[v]) = Loaded(procs[v])
            /\ procs[v].id # j
        BY <1>3, <2>5, <3>6
      <4>2. procs[v].id = i => Loaded(procs[v]) = Loaded(p)
        BY <3>2, <3>3, <4>1 DEF ChainInv, CopiesAlike
      <4> QED BY <3>4, <3>5, <4>1, <4>2
    <3> QED BY <1>2, <2>3, <2>5, <3>3, <3>5, <3>6 DEF Retried, Holds, Loaded
  <2> QED BY <2>4, <2>5
<1>9. \A w \in Workers : CountsOnce(procs[w])'
  BY DEF Stays, CountsOnce
<1> QED BY <1>5, <1>6, <1>7, <1>8, <1>9 DEF ChainInv

-----------------------------------------------------------------------------
(* Every action *)

LEMMA ChainInductive ==
    ASSUME TypeOK, KnownIds, BudgetInv, ChainInv, [Next]_vars
    PROVE  ChainInv'
<1>a. TypeOK' /\ KnownIds'
  BY TypeInductive
<1>b. ASSUME \A i \in Ids : RowMoves(i), \A w \in Workers : CallMoves(procs[w], procs'[w]),
             creating'.kind # "retry"
      PROVE  ChainInv'
  BY <1>a, <1>b, CopiesMove
<1>c. ASSUME UNCHANGED rows PROVE \A i \in Ids : RowMoves(i)
  BY <1>c DEF RowMoves, Kept
<1>d. ASSUME UNCHANGED creating PROVE creating'.kind # "retry"
  BY <1>d DEF ChainInv
<1>e. ASSUME UNCHANGED procs PROVE \A w \in Workers : CallMoves(procs[w], procs'[w])
  BY <1>e DEF CallMoves, KeepsCopy, ChainInv
<1>f. ASSUME NEW w \in Workers, NEW q, UNCHANGED <<rows, creating>>, Becomes(w, q),
             CallMoves(procs[w], q)
      PROVE  ChainInv'
  <2>1. \A v \in Workers : CallMoves(procs[v], procs'[v])
    BY <1>f, OthersMove
  <2> QED BY <1>b, <1>c, <1>d, <1>f, <2>1
<1>g. ASSUME NEW w \in Workers, UNCHANGED <<rows, creating>>, Becomes(w, Idle)
      PROVE  ChainInv'
  <2>1. CallMoves(procs[w], Idle)
    BY IdleType, HoldsNothing
  <2> QED BY <1>f, <1>g, <2>1
<1>h. ASSUME NEW i \in Ids, NEW lock, rows' = [rows EXCEPT ![i].lock = lock]
      PROVE  \A j \in Ids : RowMoves(j)
  <2> SUFFICES ASSUME NEW j \in Ids PROVE Kept(rows[j], rows'[j])
    BY DEF RowMoves
  <2>1. CASE j = i
    BY <1>h, <2>1 DEF TypeOK, Row, Kept
  <2>2. CASE j # i
    BY <1>h, <2>2 DEF TypeOK, Kept
  <2> QED BY <2>1, <2>2
\* A save of the row that a call holds.
<1>i. ASSUME NEW w \in Workers, NEW row, NEW q, Holds(procs[w]), Saved(w, row, q),
             UNCHANGED creating,
             ClosedBy(procs[w], rows[procs[w].id], row),
             rows'[procs[w].id] = row => CallMoves(procs[w], q)
      PROVE  ChainInv'
  <2>1. PICK p : p = procs[w]
    OBVIOUS
  <2>2. p.id \in Ids /\ rows' = [rows EXCEPT ![p.id] = row]
    BY <1>i, <2>1, HeldIsId DEF Saved
  <2>3. rows'[p.id] = row /\ \A i \in Ids : i # p.id => rows'[i] = rows[i]
    BY <2>2 DEF TypeOK
  <2>4. \A i \in Ids : RowMoves(i)
    <3> SUFFICES ASSUME NEW i \in Ids PROVE RowMoves(i)
      OBVIOUS
    <3>1. CASE i = p.id
      BY <1>i, <2>1, <2>3, <3>1 DEF RowMoves
    <3>2. CASE i # p.id
      BY <2>3, <3>2 DEF RowMoves, Kept
    <3> QED BY <3>1, <3>2
  <2>5. \A v \in Workers : CallMoves(procs[v], procs'[v])
    BY <1>i, <2>1, <2>3, OthersMove DEF Saved
  <2> QED BY <1>b, <1>d, <1>i, <2>4, <2>5
<1>j. ASSUME NEW w \in Workers, Holds(procs[w]), Throw(w), UNCHANGED <<rows, creating>>
      PROVE  ChainInv'
  BY <1>b, <1>c, <1>d, <1>j, ThrowMoves
<1>k. ASSUME NEW w \in Workers, Holds(procs[w])
      PROVE  \E p \in Proc, row \in Row : /\ p = procs[w] /\ row = rows[p.id] /\ p.id \in Ids
                                         /\ CountsOnce(p)
  BY <1>k, HeldIsId DEF TypeOK, ChainInv
<1>1. CASE FindWebhook \/ FindReplayed
  <2>1. UNCHANGED <<rows, procs>> /\ creating'.kind # "retry"
    BY <1>1 DEF FindWebhook, FindReplayed, unchangedByApi
  <2> QED BY <1>b, <1>c, <1>e, <2>1
<1>2. CASE CreateDelivery
  <2>1. creating'.kind # "retry" /\ UNCHANGED procs
    BY <1>2 DEF CreateDelivery, NoCreation, unchangedByApi
  <2>2. CASE UNCHANGED rows
    BY <1>b, <1>c, <1>e, <2>1, <2>2
  <2>3. CASE Insert(NewRow(creating.kind, 1, creating.left, creating.lock, 0))
    <3>1. PICK row : row = NewRow(creating.kind, 1, creating.left, creating.lock, 0)
      OBVIOUS
    <3>2. row \in Row
      BY <1>2, <3>1, NewRowType DEF CreateDelivery, TypeOK, Creation
    <3>3. row.status = "pending" /\ row.kind # "retry"
      BY <3>1 DEF NewRow, ChainInv
    <3>4. \A w \in Workers : Stays(procs[w], procs'[w])
      BY <2>1 DEF Stays, ChainInv
    <3> QED BY <1>a, <2>1, <2>3, <3>1, <3>2, <3>3, <3>4, CopiesOutliveInsert
  <2> QED BY <1>2, <2>2, <2>3 DEF CreateDelivery
<1>3. CASE QueueDelivery
  <2>1. UNCHANGED <<rows, creating>>
    BY <1>3 DEF QueueDelivery
  <2>2. CASE UNCHANGED procs
    BY <1>b, <1>c, <1>d, <1>e, <2>1, <2>2
  <2>3. ASSUME NEW w \in Workers, NEW i \in toQueue, Becomes(w, Started(i, NoJob, FALSE))
        PROVE  ChainInv'
    <3>1. PICK q : q = Started(i, NoJob, FALSE)
      OBVIOUS
    <3>2. q.stage = "start" /\ ~q.dirty
      BY <3>1 DEF Started, Call
    <3>3. CallMoves(procs[w], q)
      BY <3>2, StartsClean
    <3> QED BY <1>f, <2>1, <2>3, <3>1, <3>3
  <2> QED BY <1>3, <2>2, <2>3 DEF QueueDelivery
<1>4. CASE UpdateWebhook \/ DeleteWebhook \/ BreakerCools \/ RedisLost \/ UNCHANGED vars
  <2>1. UNCHANGED <<rows, creating, procs>>
    BY <1>4 DEF UpdateWebhook, DeleteWebhook, BreakerCools, RedisLost, unchangedByApi,
                unchangedByProc, vars, memory
  <2> QED BY <1>b, <1>c, <1>d, <1>e, <2>1
<1>5. CASE CascadeDelete
  <2>1. UNCHANGED <<creating, procs>>
    BY <1>5 DEF CascadeDelete, unchangedByApi
  <2>2. CASE UNCHANGED rows
    BY <1>b, <1>c, <1>d, <1>e, <2>1, <2>2
  <2>3. CASE rows' = [j \in Ids |-> AbsentRow]
    <3>1. \A i \in Ids : rows'[i].status = "absent"
      BY <2>3 DEF AbsentRow
    <3>2. ASSUME NEW w \in Workers, Holds(procs[w]) PROVE procs[w].id \in Ids
      BY <3>2, HeldIsId
    <3>3. PrevBefore' /\ RetriesFollow'
      BY <3>1 DEF PrevBefore, RetriesFollow, RetryOf, Live
    <3>4. CopiesAgree'
      BY <2>1, <3>1, <3>2 DEF CopiesAgree, Live, Holds
    <3>5. CopiesAlike' /\ \A w \in Workers : CountsOnce(procs[w])'
      BY <2>1 DEF ChainInv, CopiesAlike, Holds, Loaded, CountsOnce
    <3> QED BY <1>d, <2>1, <3>3, <3>4, <3>5 DEF ChainInv
  <2> QED BY <1>5, <2>2, <2>3 DEF CascadeDelete
<1>6. ASSUME NEW w \in Workers, RunTimer(w) \/ RunJob(w) \/ Poll(w) PROVE ChainInv'
  <2>1. UNCHANGED creating
    BY <1>6 DEF RunTimer, RunJob, Poll, unchangedByProc
  <2>2. PICK q : q.stage = "start" /\ ~q.dirty /\ Becomes(w, q)
    BY <1>6 DEF RunTimer, RunJob, Poll, Started, Call
  <2>3. \A v \in Workers : CallMoves(procs[v], procs'[v])
    BY <2>2, StartsClean, OthersMove
  <2>4. \A i \in Ids : RowMoves(i)
    <3>1. CASE UNCHANGED rows
      BY <1>c, <3>1
    <3>2. CASE Poll(w)
      <4>1. PICK i \in Ids : rows' = [rows EXCEPT ![i].lock = "held"]
        BY <3>2 DEF Poll
      <4> QED BY <1>h, <4>1
    <3> QED BY <1>6, <3>1, <3>2 DEF RunTimer, RunJob
  <2> QED BY <1>b, <1>d, <2>1, <2>3, <2>4
<1>7. ASSUME NEW w \in Workers, Load(w) PROVE ChainInv'
  <2>1. UNCHANGED <<rows, creating>>
    BY <1>7 DEF Load, unchangedByProc
  <2>2. CASE Becomes(w, Idle)
    BY <1>g, <2>1, <2>2
  <2>3. CASE Becomes(w, Holding(procs[w], rows[procs[w].id])) /\ rows[procs[w].id].status = "pending"
    <3>1. PICK p, row, q : p = procs[w] /\ row = rows[p.id] /\ q = Holding(p, row)
      OBVIOUS
    <3>2. p \in Proc /\ p.id \in Ids
      <4>1. p \in Proc /\ p.stage = "start" /\ KnownCall(p)
        BY <1>7, <3>1 DEF Load, TypeOK, KnownIds
      <4> QED BY <4>1, CallHasRow
    <3>3. q.stage = "loaded" /\ q.id = p.id /\ q.left = row.retriesLeft /\ q.dirty = p.dirty
      BY <3>1, <3>2 DEF Holding, Proc
    <3>4. ~p.dirty
      BY <1>7, <3>1 DEF Load, ChainInv, CountsOnce
    <3>5. Loaded(q) = row.retriesLeft
      BY <3>1, <3>2, <3>3, <3>4 DEF Loaded, TypeOK, Row
    <3>6. CallMoves(p, q)
      BY <2>3, <3>1, <3>2, <3>3, <3>4, <3>5 DEF CallMoves, CountsOnce, Loads
    <3> QED BY <1>f, <2>1, <2>3, <3>1, <3>6
  <2> QED BY <1>7, <2>2, <2>3 DEF Load, Finish, Abort, AbortFrom
<1>8. ASSUME NEW w \in Workers, ReadWebhook(w) PROVE ChainInv'
  <2>1. UNCHANGED <<rows, creating>> /\ procs[w].stage = "loaded" /\ Holds(procs[w])
    BY <1>8 DEF ReadWebhook, unchangedByProc, Holds
  <2>2. CASE Becomes(w, Idle)
    BY <1>g, <2>1, <2>2
  <2>3. ASSUME NEW stage \in {"failing", "sending"}, Becomes(w, At(procs[w], stage))
        PROVE  ChainInv'
    <3>1. PICK p, q : p = procs[w] /\ q = At(p, stage)
      OBVIOUS
    <3>2. p \in Proc /\ CountsOnce(p)
      BY <3>1 DEF TypeOK, ChainInv
    <3>3. q.stage = stage /\ q.id = p.id /\ q.left = p.left /\ q.dirty = p.dirty
      BY <3>1, <3>2 DEF At, Proc
    <3>4. CallMoves(p, q)
      BY <2>1, <3>1, <3>2, <3>3 DEF CallMoves, CountsOnce, KeepsCopy, Loaded
    <3> QED BY <1>f, <2>1, <2>3, <3>1, <3>4
  <2> QED BY <1>8, <2>2, <2>3 DEF ReadWebhook, Abort, AbortFrom
<1>9. ASSUME NEW w \in Workers, Respond(w) PROVE ChainInv'
  <2>1. UNCHANGED <<rows, creating>> /\ procs[w].stage = "sending" /\ Holds(procs[w])
    BY <1>9 DEF Respond, unchangedByProc, Holds
  <2>2. PICK a, p, q : p = procs[w] /\ q = Answered(p, a) /\ Becomes(w, q)
    BY <1>9 DEF Respond
  <2>3. p \in Proc /\ ~p.dirty
    BY <2>1, <2>2 DEF TypeOK, ChainInv, CountsOnce
  <2>4. /\ q.id = p.id
        /\ q.stage \in {"succeeding", "scheduling", "failing"}
        /\ q.stage = "scheduling" => q.dirty
        /\ q.left = IF q.dirty THEN p.left - 1 ELSE p.left
    BY <2>2, <2>3 DEF Answered, Proc, Retryable, HasRetry
  <2>5. Loaded(q) = Loaded(p)
    BY <2>3, <2>4 DEF Loaded, Proc
  <2>6. CallMoves(p, q)
    BY <2>1, <2>2, <2>4, <2>5 DEF CallMoves, CountsOnce, KeepsCopy
  <2> QED BY <1>f, <2>1, <2>2, <2>6
<1>10. ASSUME NEW w \in Workers, SaveSuccess(w) PROVE ChainInv'
  <2>1. UNCHANGED creating /\ Holds(procs[w])
    BY <1>10 DEF SaveSuccess, unchangedByProc, Holds
  <2>2. PICK p \in Proc, old \in Row : p = procs[w] /\ old = rows[p.id]
    BY <1>k, <2>1
  <2>3. CASE Saved(w, Succeeded(old), Settled(p, "succeeded"))
    <3>1. PICK row, q : row = Succeeded(old) /\ q = Settled(p, "succeeded")
      OBVIOUS
    <3>2. ClosedBy(p, old, row)
      BY <2>1, <2>2, <2>3, <3>1 DEF Succeeded, Row, ClosedBy, Saved
    <3>3. CallMoves(p, q)
      BY <3>1, SettledType, HoldsNothing DEF Stages
    <3> QED BY <1>i, <2>1, <2>2, <2>3, <3>1, <3>2, <3>3
  <2>4. CASE SaveThrows(w)
    BY <1>j, <2>1, <2>4 DEF SaveThrows
  <2> QED BY <1>10, <2>2, <2>3, <2>4 DEF SaveSuccess
<1>11. ASSUME NEW w \in Workers, SaveFailed(w) PROVE ChainInv'
  <2>1. UNCHANGED creating /\ Holds(procs[w])
    BY <1>11 DEF SaveFailed, unchangedByProc, Holds
  <2>2. PICK p \in Proc, old \in Row : p = procs[w] /\ old = rows[p.id]
    BY <1>k, <2>1
  <2>3. CASE Saved(w, Failed(old, p), Settled(p, "failed"))
    <3>1. PICK row, q : row = Failed(old, p) /\ q = Settled(p, "failed")
      OBVIOUS
    <3>2. p.dirty => p.left = Loaded(p) - 1
      BY DEF Loaded, Proc
    <3>3. ClosedBy(p, old, row)
      BY <2>1, <2>2, <2>3, <3>1, <3>2 DEF Failed, Row, ClosedBy, Saved
    <3>4. CallMoves(p, q)
      BY <3>1, SettledType, HoldsNothing DEF Stages
    <3> QED BY <1>i, <2>1, <2>2, <2>3, <3>1, <3>3, <3>4
  <2>4. CASE SaveThrows(w)
    BY <1>j, <2>1, <2>4 DEF SaveThrows
  <2> QED BY <1>11, <2>2, <2>3, <2>4 DEF SaveFailed
<1>12. ASSUME NEW w \in Workers, ScheduleRetry(w) PROVE ChainInv'
  <2>1. UNCHANGED creating /\ Holds(procs[w]) /\ procs[w].stage = "scheduling"
    BY <1>12 DEF ScheduleRetry, unchangedByProc, Holds
  <2>2. PICK p \in Proc, old \in Row : p = procs[w] /\ old = rows[p.id] /\ CountsOnce(p)
    BY <1>k, <2>1
  <2>3. CASE Saved(w, Scheduled(old, p), At(p, "retrySaved"))
    <3>1. PICK row, q : row = Scheduled(old, p) /\ q = At(p, "retrySaved")
      OBVIOUS
    <3>2. p.dirty /\ p.left = Loaded(p) - 1
      BY <2>1, <2>2 DEF Loaded, Proc, CountsOnce
    <3>3. /\ row.status = "failed" /\ row.retriesLeft = p.left
          /\ row.kind = old.kind /\ row.prev = old.prev /\ row.attempt = old.attempt
      BY <3>1 DEF Scheduled, Row
    <3>4. ClosedBy(p, old, row)
      BY <2>1, <2>2, <2>3, <3>2, <3>3 DEF ClosedBy, Saved
    <3>5. q.stage = "retrySaved" /\ q.id = p.id /\ q.left = p.left /\ q.dirty = p.dirty
      BY <3>1 DEF At, Proc
    <3>6. rows'[p.id] = row => CallMoves(p, q)
      BY <2>1, <2>2, <3>2, <3>3, <3>5 DEF CallMoves, CountsOnce, KeepsCopy, Loaded
    <3> QED BY <1>i, <2>1, <2>2, <2>3, <3>1, <3>4, <3>6
  <2>4. CASE SaveThrows(w)
    BY <1>j, <2>1, <2>4 DEF SaveThrows
  <2> QED BY <1>12, <2>2, <2>3, <2>4 DEF ScheduleRetry
<1>13. ASSUME NEW w \in Workers, CreateRetry(w) PROVE ChainInv'
  <2>1. UNCHANGED creating /\ procs[w].stage = "retrySaved" /\ Holds(procs[w])
    BY <1>13 DEF CreateRetry, unchangedByProc, Holds
  <2>2. PICK p : p = procs[w] /\ p \in Proc /\ PaidFor(p)
    BY DEF TypeOK, BudgetInv
  <2>3. CASE /\ Insert(NewRow("retry", p.attempt + 1, p.left, p.lock, p.id))
             /\ Becomes(w, WithRetry(p, nextId))
    <3>1. PICK row, q : /\ row = NewRow("retry", p.attempt + 1, p.left, p.lock, p.id)
                        /\ q = WithRetry(p, nextId)
      OBVIOUS
    <3>2. row \in Row
      <4>1. p.attempt + 1 \in Nat /\ p.left \in Nat /\ p.lock \in Locks /\ p.id \in Nat
        BY <2>2 DEF Proc
      <4> QED BY <3>1, <4>1, NewRowType DEF Kinds
    <3>3. row.status = "pending" /\ NewRetry(row, p)
      BY <2>1, <2>2, <3>1 DEF NewRow, NewRetry, PaidFor
    <3>4. \A v \in Workers : Stays(procs[v], procs'[v])
      <4> SUFFICES ASSUME NEW v \in Workers PROVE Stays(procs[v], procs'[v])
        OBVIOUS
      <4>1. CASE v = w
        <5>1. procs'[v] = q /\ q.stage = "retryCreated"
          BY <2>2, <2>3, <3>1, <4>1 DEF Becomes, TypeOK, WithRetry, Proc
        <5> QED BY <5>1 DEF Stays, CountsOnce, Holds
      <4>2. CASE v # w
        <5>1. procs'[v] = procs[v] /\ CountsOnce(procs[v])
          BY <2>3, <4>2 DEF Becomes, TypeOK, ChainInv
        <5> QED BY <5>1 DEF Stays
      <4> QED BY <4>1, <4>2
    <3> QED BY <1>a, <1>d, <2>1, <2>2, <2>3, <3>1, <3>2, <3>3, <3>4, CopiesOutliveInsert
  <2>4. CASE Throw(w) /\ UNCHANGED rows
    BY <1>j, <2>1, <2>4
  <2> QED BY <1>13, <2>2, <2>3, <2>4 DEF CreateRetry
<1>14. ASSUME NEW w \in Workers, QueueRetry(w) PROVE ChainInv'
  <2>1. UNCHANGED <<rows, creating>>
    BY <1>14 DEF QueueRetry, unchangedByProc
  <2>2. CASE Becomes(w, Idle)
    BY <1>g, <2>1, <2>2
  <2>3. CASE Becomes(w, RetryInPlace(procs[w]))
    <3>1. PICK q : q = RetryInPlace(procs[w])
      OBVIOUS
    <3>2. q.stage = "start" /\ ~q.dirty
      BY <3>1 DEF RetryInPlace, Call
    <3>3. CallMoves(procs[w], q)
      BY <3>2, StartsClean
    <3> QED BY <1>f, <2>1, <2>3, <3>1, <3>3
  <2> QED BY <1>14, <2>2, <2>3 DEF QueueRetry, Finish
<1>15. ASSUME NEW w \in Workers,
              CountSuccess(w) \/ CountFailure(w) \/ CheckHealth(w) \/ Deactivate(w)
       PROVE  ChainInv'
  <2>1. UNCHANGED <<rows, creating>>
    BY <1>15 DEF CountSuccess, CountFailure, CheckHealth, Deactivate, unchangedByProc
  <2>2. CASE Becomes(w, Idle)
    BY <1>g, <2>1, <2>2
  <2>3. ASSUME NEW stage \in {"counting", "deactivating"}, Becomes(w, At(procs[w], stage))
        PROVE  ChainInv'
    <3>1. CallMoves(procs[w], At(procs[w], stage))
      BY AtType, HoldsNothing DEF TypeOK, Stages
    <3> QED BY <1>f, <2>1, <2>3, <3>1
  <2> QED BY <1>15, <2>2, <2>3 DEF CountSuccess, CountFailure, CheckHealth, Deactivate, Finish
<1>16. ASSUME NEW i \in Ids, LockExpires(i) PROVE ChainInv'
  <2>1. UNCHANGED <<creating, procs>> /\ rows' = [rows EXCEPT ![i].lock = "expired"]
    BY <1>16 DEF LockExpires, memory
  <2> QED BY <1>b, <1>d, <1>e, <1>h, <2>1
<1>17. CASE Crash
  <2>1. UNCHANGED rows /\ creating'.kind # "retry"
    BY <1>17 DEF Crash, NoCreation
  <2>2. \A v \in Workers : CallMoves(procs[v], procs'[v])
    <3>1. \A v \in Workers : procs'[v].stage = "idle"
      BY <1>17, IdleType DEF Crash
    <3> QED BY <3>1, HoldsNothing
  <2> QED BY <1>b, <1>c, <2>1, <2>2
<1>18. ASSUME NEW w \in Workers, Stall(w) PROVE ChainInv'
  <2>1. UNCHANGED <<rows, creating>> /\ Becomes(w, Disowned(procs[w]))
    BY <1>18 DEF Stall
  <2>2. PICK p, q : p = procs[w] /\ q = Disowned(p)
    OBVIOUS
  <2>3. p \in Proc /\ CountsOnce(p)
    BY <2>2 DEF TypeOK, ChainInv
  <2>4. CallMoves(p, q)
    BY <2>2, <2>3, DisownedType DEF CallMoves, KeepsCopy, CountsOnce, Holds, Loaded
  <2> QED BY <1>f, <2>1, <2>2, <2>4
<1> QED
  BY <1>1, <1>2, <1>3, <1>4, <1>5, <1>6, <1>7, <1>8, <1>9, <1>10, <1>11, <1>12, <1>13,
     <1>14, <1>15, <1>16, <1>17, <1>18 DEF Next, ProcStep

\* A retry continues the row it names, even when two calls processed that row: its
\* attempt number is one more, and it has the retries the row was left with, less one
\* if it has been retried in turn (scheduleRetry).
THEOREM RetryChainHolds == Spec => []RetryChain
<1>1. TypeOK /\ KnownIds /\ BudgetInv /\ [Next]_vars => BudgetInv'
  BY BudgetInductive
<1>2. TypeOK /\ KnownIds /\ BudgetInv /\ ChainInv /\ [Next]_vars => ChainInv'
  BY ChainInductive
<1> QED BY <1>1, <1>2, BudgetInitial, ChainInitial, ChainImplies, TypeCorrect, PTL DEF Spec
=============================================================================
