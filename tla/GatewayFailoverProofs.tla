----------------------- MODULE GatewayFailoverProofs -----------------------
(***************************************************************************)
(* Proofs about GatewayFailover, for any providers, policies, thresholds   *)
(* and number of requests in flight.  Every step that changes a breaker    *)
(* ends in Proceed or in a success, so the lemmas below say what Proceed   *)
(* does to the types, to the breakers and to the probes; the theorems put  *)
(* them together action by action.                                         *)
(***************************************************************************)
EXTENDS GatewayFailover, FiniteSetTheorems, TLAPS

\* The breaker counts exactly the health record's consecutive failures, and
\* is CLOSED below the threshold.
Agrees(b, n) == b.failures = n /\ (b.state = "CLOSED" <=> n < Threshold)
AllAgree == \A u \in Urls : Agrees(breakers[u], consecutive[u])

\* q is waiting for an answer of u
Probes(q, u) == requests[q].sending /\ requests[q].order[requests[q].at] = u

IInv == TypeOK /\ AllAgree /\ HalfOpenIsProbed

\* Positions are positions of the provider list, finitely many.
LEMMA PositionsType ==
  ASSUME NEW r \in Request
  PROVE  /\ Positions(r) \subseteq Nat
         /\ Cardinality(Positions(r)) \in Nat
         /\ \A i \in Positions(r) : r.order[i] \in Urls
<1>1. Len(r.order) \in Nat /\ r.order \in Seq(Urls)
  BY DEF Request
<1>2. Positions(r) \subseteq 1..Len(r.order)
  BY DEF Positions
<1>3. IsFiniteSet(Positions(r))
  <2>1. IsFiniteSet(1..Len(r.order))
    BY <1>1, FS_Interval
  <2> QED BY <1>2, <2>1, FS_Subset
<1>4. Cardinality(Positions(r)) \in Nat
  BY <1>3, FS_CardinalityType
<1> QED BY <1>1, <1>2, <1>4

\* Proceed moves request q only, and leaves it well-typed.
LEMMA ProceedType ==
  ASSUME TypeOK, NEW q \in Requests, NEW r \in Request, NEW from \in Nat,
         NEW brs \in [Urls -> Breaker], Proceed(q, r, from, brs)
  PROVE  /\ breakers' \in [Urls -> Breaker]
         /\ requests' \in [Requests -> Request]
         /\ requests'[q].sending => requests'[q].at \in Positions(requests'[q])
         /\ \A p \in Requests \ {q} : requests'[p] = requests[p]
<1>1. CASE \E i \in NextPositions(r, from, brs) :
             /\ requests' = [requests EXCEPT ![q] = [r EXCEPT !.sending = TRUE, !.at = i]]
             /\ breakers' = [brs EXCEPT ![r.order[i]] = Probed(brs[r.order[i]])]
  <2>1. PICK i \in NextPositions(r, from, brs) :
             /\ requests' = [requests EXCEPT ![q] = [r EXCEPT !.sending = TRUE, !.at = i]]
             /\ breakers' = [brs EXCEPT ![r.order[i]] = Probed(brs[r.order[i]])]
    BY <1>1
  <2>2. i \in Positions(r) /\ i \in Nat /\ r.order[i] \in Urls
    BY PositionsType DEF NextPositions
  <2>3. Probed(brs[r.order[i]]) \in Breaker
    BY <2>2 DEF Probed, Breaker
  <2>4. [r EXCEPT !.sending = TRUE, !.at = i] \in Request
    BY <2>2 DEF Request
  <2>5. requests'[q].at = i /\ Positions(requests'[q]) = Positions(r)
    BY <2>1 DEF TypeOK, Request, Positions
  <2> QED BY <2>1, <2>2, <2>3, <2>4, <2>5 DEF TypeOK
<1>2. CASE /\ requests' = [requests EXCEPT ![q] =
                             [r EXCEPT !.sending = FALSE, !.at = Cardinality(Positions(r)),
                                       !.result = "failed"]]
           /\ breakers' = brs
  <2>1. [r EXCEPT !.sending = FALSE, !.at = Cardinality(Positions(r)), !.result = "failed"]
          \in Request
    BY PositionsType DEF Request, Results
  <2>2. ~requests'[q].sending
    BY <1>2 DEF TypeOK, Request
  <2> QED BY <1>2, <2>1, <2>2 DEF TypeOK
<1> QED BY <1>1, <1>2 DEF Proceed

\* A POST can only turn OPEN into HALF_OPEN, so Proceed keeps the agreement.
LEMMA ProceedAgrees ==
  ASSUME NEW q, NEW r \in Request, NEW from, NEW brs \in [Urls -> Breaker],
         NEW counts, \A u \in Urls : Agrees(brs[u], counts[u]),
         Proceed(q, r, from, brs)
  PROVE  \A u \in Urls : Agrees(breakers'[u], counts[u])
<1>1. ASSUME NEW b \in Breaker, NEW n, Agrees(b, n)
      PROVE  Agrees(Probed(b), n)
  BY <1>1 DEF Agrees, Probed, Breaker
<1>2. CASE breakers' = brs
  BY <1>2
<1>3. CASE \E i : breakers' = [brs EXCEPT ![r.order[i]] = Probed(brs[r.order[i]])]
  BY <1>1, <1>3
<1> QED BY <1>2, <1>3 DEF Proceed

\* If every HALF_OPEN provider is probed by a request other than q, then after
\* q proceeds every HALF_OPEN provider is probed.
LEMMA ProceedProbed ==
  ASSUME TypeOK, NEW q \in Requests, NEW r \in Request, NEW from \in Nat,
         NEW brs \in [Urls -> Breaker], Proceed(q, r, from, brs),
         \A u \in Urls : brs[u].state = "HALF_OPEN" =>
           \E p \in Requests \ {q} : Probes(p, u)
  PROVE  HalfOpenIsProbed'
<1> SUFFICES ASSUME NEW u \in Urls, breakers'[u].state = "HALF_OPEN"
             PROVE  \E p \in Requests : Probes(p, u)'
  BY DEF HalfOpenIsProbed, Probes
<1>1. CASE brs[u].state = "HALF_OPEN"
  BY <1>1, ProceedType DEF Probes
<1>2. CASE brs[u].state # "HALF_OPEN"
  <2>1. PICK i \in NextPositions(r, from, brs) :
             /\ requests' = [requests EXCEPT ![q] = [r EXCEPT !.sending = TRUE, !.at = i]]
             /\ breakers' = [brs EXCEPT ![r.order[i]] = Probed(brs[r.order[i]])]
    BY <1>2 DEF Proceed
  <2>2. r.order[i] = u
    BY <1>2, <2>1
  <2>3. requests'[q].sending /\ requests'[q].at = i /\ requests'[q].order = r.order
    BY <2>1 DEF TypeOK, Request
  <2> QED BY <2>2, <2>3 DEF Probes
<1> QED BY <1>1, <1>2

\* A request that waits for an answer waits for a provider.
LEMMA AtUrl ==
  ASSUME TypeOK, NEW q \in Requests, requests[q].sending
  PROVE  /\ requests[q] \in Request /\ requests[q].at \in Nat
         /\ requests[q].order[requests[q].at] \in Urls
<1>1. requests[q] \in Request /\ requests[q].at \in Positions(requests[q])
  BY DEF TypeOK
<1> QED BY <1>1, PositionsType

LEMMA InitInv == Init => IInv
<1> SUFFICES ASSUME Init PROVE IInv
  OBVIOUS
<1>1. TypeOK
  <2>1. Called(<<>>, 0) \in Request
    BY DEF Called, Request, Results
  <2> QED BY <2>1, FailoverAssumption DEF Init, TypeOK, Breaker, Called
<1>2. AllAgree
  BY FailoverAssumption DEF Init, AllAgree, Agrees
<1>3. HalfOpenIsProbed
  BY DEF Init, HalfOpenIsProbed
<1> QED BY <1>1, <1>2, <1>3 DEF IInv

LEMMA StartInv ==
  ASSUME IInv, NEW q \in Requests, NEW order \in Orders, NEW limit \in Limits,
         Start(q, order, limit)
  PROVE  IInv'
<1> DEFINE r == Called(order, limit)
<1>1. r \in Request /\ 0 \in Nat /\ breakers \in [Urls -> Breaker]
  BY FailoverAssumption DEF Called, Request, Results, IInv, TypeOK
<1>2. Proceed(q, r, 0, breakers) /\ ~requests[q].sending
      /\ UNCHANGED <<consecutive, failures>>
  BY DEF Start
<1> HIDE DEF r
<1>3. TypeOK'
  BY <1>1, <1>2, ProceedType DEF IInv, TypeOK
<1>4. AllAgree'
  BY <1>1, <1>2, ProceedAgrees DEF IInv, AllAgree
<1>5. HalfOpenIsProbed'
  <2>1. \A u \in Urls : breakers[u].state = "HALF_OPEN" =>
          \E p \in Requests \ {q} : Probes(p, u)
    BY <1>2 DEF IInv, HalfOpenIsProbed, Probes
  <2> QED BY <1>1, <1>2, <2>1, ProceedProbed DEF IInv
<1> QED BY <1>3, <1>4, <1>5 DEF IInv

LEMMA SucceedInv ==
  ASSUME IInv, NEW q \in Requests, NEW result \in {"answered", "errorStatus"},
         Succeed(q, result)
  PROVE  IInv'
<1> DEFINE r == requests[q]
           u == r.order[r.at]
<1>1. /\ r.sending
      /\ consecutive' = [consecutive EXCEPT ![u] = 0]
      /\ breakers' = [breakers EXCEPT ![u] = Reset(breakers[u])]
      /\ requests' = [requests EXCEPT ![q] = [r EXCEPT !.sending = FALSE, !.result = result]]
      /\ failures' = failures
  BY DEF Succeed
<1>2. TypeOK /\ r \in Request /\ u \in Urls
  BY <1>1, AtUrl DEF IInv
<1>3. TypeOK'
  <2>1. Reset(breakers[u]) \in Breaker
    BY <1>2 DEF TypeOK, Reset, Breaker
  <2>2. [r EXCEPT !.sending = FALSE, !.result = result] \in Request
    BY <1>2 DEF Request, Results
  <2>3. ~requests'[q].sending
    BY <1>1, <1>2 DEF TypeOK, Request
  <2> QED BY <1>1, <1>2, <2>1, <2>2, <2>3 DEF TypeOK
<1>4. AllAgree'
  <2>1. Agrees(Reset(breakers[u]), 0)
    BY <1>2, FailoverAssumption DEF TypeOK, Reset, Agrees, Breaker
  <2> QED BY <1>1, <1>2, <2>1 DEF IInv, AllAgree, TypeOK
<1>5. HalfOpenIsProbed'
  <2> SUFFICES ASSUME NEW v \in Urls, breakers'[v].state = "HALF_OPEN"
               PROVE  \E p \in Requests : Probes(p, v)'
    BY DEF HalfOpenIsProbed, Probes
  <2>1. v # u /\ breakers[v].state = "HALF_OPEN"
    BY <1>1, <1>2 DEF TypeOK, Reset, Breaker
  <2>2. PICK p \in Requests : Probes(p, v)
    BY <2>1 DEF IInv, HalfOpenIsProbed, Probes
  <2>3. p # q
    BY <2>1, <2>2 DEF Probes
  <2> QED BY <1>1, <1>2, <2>2, <2>3 DEF Probes, TypeOK
<1> QED BY <1>3, <1>4, <1>5 DEF IInv

LEMMA FailInv ==
  ASSUME IInv, NEW q \in Requests, Fail(q)
  PROVE  IInv'
<1> DEFINE r   == requests[q]
           u   == r.order[r.at]
           brs == [breakers EXCEPT ![u] = Tripped(breakers[u])]
<1>1. /\ r.sending
      /\ failures < MaxFailures
      /\ failures' = failures + 1
      /\ consecutive' = [consecutive EXCEPT ![u] = consecutive[u] + 1]
      /\ Proceed(q, r, r.at, brs)
  BY DEF Fail
<1>2. /\ TypeOK /\ r \in Request /\ r.at \in Nat /\ u \in Urls
      /\ breakers[u] \in Breaker /\ consecutive[u] \in Nat
      /\ Agrees(breakers[u], consecutive[u])
  BY <1>1, AtUrl DEF IInv, TypeOK, AllAgree
<1>3. Tripped(breakers[u]) \in Breaker
  <2>1. \A n \in Nat, due \in BOOLEAN :
          [state |-> "OPEN", failures |-> n, due |-> due] \in Breaker
    BY DEF Breaker
  <2>2. \A b \in Breaker : b.failures + 1 \in Nat
    BY DEF Breaker
  <2>3. \A b \in Breaker, n \in Nat : [b EXCEPT !.failures = n] \in Breaker
    BY DEF Breaker
  <2>4. /\ breakers[u].failures + 1 \in Nat
        /\ [breakers[u] EXCEPT !.failures = breakers[u].failures + 1] \in Breaker
    BY <1>2, <2>2, <2>3, Zenon
  <2> QED BY <2>1, <2>4, Zenon DEF Tripped
<1>4. brs \in [Urls -> Breaker]
  BY <1>2, <1>3 DEF TypeOK
<1>5. /\ Agrees(Tripped(breakers[u]), consecutive[u] + 1)
      /\ Tripped(breakers[u]).state # "HALF_OPEN"
  BY <1>2, FailoverAssumption DEF Tripped, Agrees, Breaker
<1>6. \A v \in Urls : Agrees(brs[v], consecutive'[v])
  BY <1>1, <1>2, <1>5 DEF IInv, AllAgree, TypeOK
<1>7. \A v \in Urls : brs[v].state = "HALF_OPEN" =>
        \E p \in Requests \ {q} : Probes(p, v)
  <2> SUFFICES ASSUME NEW v \in Urls, brs[v].state = "HALF_OPEN"
               PROVE  \E p \in Requests \ {q} : Probes(p, v)
    OBVIOUS
  <2>1. v # u /\ breakers[v].state = "HALF_OPEN"
    BY <1>2, <1>5 DEF TypeOK
  <2>2. PICK p \in Requests : Probes(p, v)
    BY <2>1 DEF IInv, HalfOpenIsProbed, Probes
  <2>3. p # q
    BY <2>1, <2>2 DEF Probes
  <2> QED BY <2>2, <2>3
<1> HIDE DEF brs
<1>8. TypeOK'
  <2>1. consecutive' \in [Urls -> Nat] /\ failures' \in 0..MaxFailures
    BY <1>1, <1>2, FailoverAssumption DEF TypeOK
  <2> QED BY <1>1, <1>2, <1>4, <2>1, ProceedType DEF TypeOK
<1>9. AllAgree'
  BY <1>1, <1>2, <1>4, <1>6, ProceedAgrees DEF AllAgree
<1>10. HalfOpenIsProbed'
  BY <1>1, <1>2, <1>4, <1>7, ProceedProbed
<1> QED BY <1>8, <1>9, <1>10 DEF IInv

LEMMA NextInv == IInv /\ [Next]_vars => IInv'
<1> SUFFICES ASSUME IInv, [Next]_vars PROVE IInv'
  OBVIOUS
<1>1. ASSUME NEW u \in Urls, CoolDown(u) PROVE IInv'
  <2>1. /\ breakers' = [breakers EXCEPT ![u].due = TRUE]
        /\ UNCHANGED <<consecutive, requests, failures>>
    BY <1>1 DEF CoolDown
  <2>2. TypeOK'
    BY <2>1 DEF IInv, TypeOK, Breaker, Positions
  <2>3. \A v \in Urls : /\ breakers'[v].state = breakers[v].state
                        /\ breakers'[v].failures = breakers[v].failures
    BY <2>1 DEF IInv, TypeOK, Breaker
  <2> QED BY <2>1, <2>2, <2>3 DEF IInv, AllAgree, Agrees, HalfOpenIsProbed
<1>2. CASE UNCHANGED vars
  BY <1>2 DEF IInv, TypeOK, AllAgree, Agrees, HalfOpenIsProbed, vars, Positions
<1> QED BY <1>1, <1>2, StartInv, SucceedInv, FailInv DEF Next

LEMMA Inductive == Spec => []IInv
BY InitInv, NextInv, PTL DEF Spec

\* Type correctness: every request that awaits an answer is at a position its
\* policy has, whatever breakers made it skip.
THEOREM TypeCorrect == Spec => []TypeOK
<1>1. IInv => TypeOK
  BY DEF IInv
<1> QED BY <1>1, Inductive, PTL

\* A provider's breaker is CLOSED exactly while fewer than Threshold failures
\* in a row stand in its health record, for any interleaving of requests.
THEOREM BreakerAndHealthAgree == Spec => []BreakerAgreesWithHealth
<1>1. IInv => BreakerAgreesWithHealth
  BY DEF IInv, AllAgree, Agrees, BreakerAgreesWithHealth
<1> QED BY <1>1, Inductive, PTL

\* No breaker is left in HALF_OPEN without a request on its way to the provider.
THEOREM HalfOpenProbed == Spec => []HalfOpenIsProbed
<1>1. IInv => HalfOpenIsProbed
  BY DEF IInv
<1> QED BY <1>1, Inductive, PTL
-----------------------------------------------------------------------------
(* Every provider's breaker is a circuit breaker *)

\* Proceed leaves a breaker as it was, or probes it when its cooling time is over.
LEMMA ProceedProbes ==
  ASSUME NEW q, NEW r \in Request, NEW from, NEW brs \in [Urls -> Breaker],
         Proceed(q, r, from, brs), NEW u \in Urls
  PROVE  \/ breakers'[u] = brs[u]
         \/ /\ brs[u].state = "OPEN" /\ brs[u].due
            /\ breakers'[u] = [brs[u] EXCEPT !.state = "HALF_OPEN"]
<1>1. CASE breakers' = brs
  BY <1>1
<1>2. CASE \E i \in NextPositions(r, from, brs) :
             breakers' = [brs EXCEPT ![r.order[i]] = Probed(brs[r.order[i]])]
  <2>1. PICK i \in NextPositions(r, from, brs) :
             breakers' = [brs EXCEPT ![r.order[i]] = Probed(brs[r.order[i]])]
    BY <1>2
  <2>2. CASE u # r.order[i]
    BY <2>1, <2>2
  <2>3. CASE u = r.order[i]
    <3>1. Admits(brs[u]) /\ breakers'[u] = Probed(brs[u])
      BY <2>1, <2>3 DEF NextPositions
    <3> QED BY <3>1, Zenon DEF Admits, Probed
  <2> QED BY <2>2, <2>3
<1> QED BY <1>1, <1>2 DEF Proceed

\* In terms of the promise: a probe or nothing.
LEMMA ProbeMaps ==
  ASSUME TypeOK, NEW u \in Urls, consecutive'[u] = consecutive[u],
         \/ breakers'[u] = breakers[u]
         \/ /\ breakers[u].state = "OPEN" /\ breakers[u].due
            /\ breakers'[u] = [breakers[u] EXCEPT !.state = "HALF_OPEN"]
  PROVE  Protector(u)!Next \/ UNCHANGED Protector(u)!vars
<1>1. breakers[u] \in Breaker
  BY DEF TypeOK
<1>2. CASE breakers'[u] = breakers[u]
  BY <1>2, Zenon DEF Protector!vars
<1>3. CASE /\ breakers[u].state = "OPEN" /\ breakers[u].due
           /\ breakers'[u] = [breakers[u] EXCEPT !.state = "HALF_OPEN"]
  <2>1. breakers'[u].state = "HALF_OPEN"
    BY <1>1, <1>3, SMT DEF Breaker
  <2>2. breakers'[u].due = breakers[u].due
    BY <1>1, <1>3, Zenon DEF Breaker
  <2> QED BY <1>3, <2>1, <2>2, Zenon DEF Protector!Next, Protector!Probe
<1> QED BY <1>2, <1>3

\* A failure opens the breaker at the threshold, and is tolerated below it.
LEMMA FailMaps ==
  ASSUME IInv, NEW q \in Requests, Fail(q), NEW v \in Urls
  PROVE  Protector(v)!Next \/ UNCHANGED Protector(v)!vars
<1> DEFINE r   == requests[q]
           u   == r.order[r.at]
           t   == Tripped(breakers[u])
           brs == [breakers EXCEPT ![u] = t]
<1>1. /\ r.sending
      /\ consecutive' = [consecutive EXCEPT ![u] = consecutive[u] + 1]
      /\ Proceed(q, r, r.at, brs)
  BY DEF Fail
<1>2. /\ TypeOK /\ r \in Request /\ u \in Urls
      /\ breakers[u] \in Breaker /\ consecutive[u] \in Nat
      /\ Agrees(breakers[u], consecutive[u])
  BY <1>1, AtUrl DEF IInv, TypeOK, AllAgree
<1>3. t \in Breaker
  <2>1. \A n \in Nat, due \in BOOLEAN :
          [state |-> "OPEN", failures |-> n, due |-> due] \in Breaker
    BY DEF Breaker
  <2>2. \A b \in Breaker : b.failures + 1 \in Nat
    BY DEF Breaker
  <2>3. \A b \in Breaker, n \in Nat : [b EXCEPT !.failures = n] \in Breaker
    BY DEF Breaker
  <2> QED BY <1>2, <2>1, <2>2, <2>3, Zenon DEF Tripped
<1>4. brs \in [Urls -> Breaker] /\ brs[u] = t
  BY <1>2, <1>3 DEF TypeOK
<1>5. \/ breakers'[v] = brs[v]
      \/ /\ brs[v].state = "OPEN" /\ brs[v].due
         /\ breakers'[v] = [brs[v] EXCEPT !.state = "HALF_OPEN"]
  <2> HIDE DEF brs, r
  <2> QED BY <1>1, <1>2, <1>4, ProceedProbes
<1>6. CASE v # u
  <2>1. brs[v] = breakers[v] /\ consecutive'[v] = consecutive[v]
    BY <1>1, <1>2, <1>6 DEF TypeOK
  <2> QED BY <1>2, <1>5, <2>1, ProbeMaps, Zenon
<1>7. CASE v = u /\ consecutive[u] + 1 >= Threshold
  <2>1. t.state = "OPEN" /\ t.due = FALSE
    <3>1. breakers[u].failures + 1 >= Threshold
      BY <1>2, <1>7 DEF Agrees
    <3> QED BY <3>1, Zenon DEF Tripped
  <2>2. breakers'[v] = t
    BY <1>4, <1>5, <1>7, <2>1, Zenon
  <2>3. consecutive'[v] = consecutive[v] + 1
    BY <1>1, <1>2, <1>7 DEF TypeOK
  <2> HIDE DEF t, u
  <2> QED BY <1>7, <2>1, <2>2, <2>3, Zenon DEF Protector!Next, Protector!Open
<1>8. CASE v = u /\ ~(consecutive[u] + 1 >= Threshold)
  <2>1. breakers[u].state = "CLOSED" /\ consecutive[u] + 1 < Threshold
    BY <1>2, <1>8, FailoverAssumption DEF Agrees
  <2>2. t = [breakers[u] EXCEPT !.failures = breakers[u].failures + 1]
    BY <1>2, <1>8 DEF Agrees, Tripped
  <2>3. t.state = "CLOSED"
    BY <1>2, <2>1, <2>2, SMT DEF Breaker
  <2>4. t.due = breakers[u].due
    BY <1>2, <2>2, Zenon DEF Breaker
  <2>5. breakers'[v] = t
    BY <1>4, <1>5, <1>8, <2>3
  <2>6. consecutive'[v] = consecutive[v] + 1
    BY <1>1, <1>2, <1>8 DEF TypeOK
  <2> HIDE DEF t, u
  <2> QED BY <1>8, <2>1, <2>3, <2>4, <2>5, <2>6, Zenon DEF Protector!Next, Protector!Tolerate
<1> QED BY <1>6, <1>7, <1>8

\* Every step of the requests is a step of each breaker's promise, or none.
LEMMA StepMaps ==
  ASSUME IInv, [Next]_vars, NEW v \in Urls
  PROVE  Protector(v)!Next \/ UNCHANGED Protector(v)!vars
<1>0. TypeOK
  BY DEF IInv
<1>1. ASSUME NEW q \in Requests, NEW order \in Orders, NEW limit \in Limits,
             Start(q, order, limit)
      PROVE  Protector(v)!Next \/ UNCHANGED Protector(v)!vars
  <2>1. Called(order, limit) \in Request /\ breakers \in [Urls -> Breaker]
    BY <1>0, FailoverAssumption DEF Called, Request, Results, TypeOK
  <2>2. Proceed(q, Called(order, limit), 0, breakers) /\ consecutive' = consecutive
    BY <1>1 DEF Start
  <2>3. \/ breakers'[v] = breakers[v]
        \/ /\ breakers[v].state = "OPEN" /\ breakers[v].due
           /\ breakers'[v] = [breakers[v] EXCEPT !.state = "HALF_OPEN"]
    BY <2>1, <2>2, ProceedProbes
  <2> QED BY <1>0, <2>2, <2>3, ProbeMaps, Zenon
<1>2. ASSUME NEW q \in Requests, NEW result \in {"answered", "errorStatus"}, Succeed(q, result)
      PROVE  Protector(v)!Next \/ UNCHANGED Protector(v)!vars
  <2> DEFINE u == requests[q].order[requests[q].at]
  <2>1. /\ requests[q].sending
        /\ consecutive' = [consecutive EXCEPT ![u] = 0]
        /\ breakers' = [breakers EXCEPT ![u] = Reset(breakers[u])]
    BY <1>2 DEF Succeed
  <2>2. u \in Urls /\ breakers[u] \in Breaker
    BY <1>0, <2>1, AtUrl DEF TypeOK
  <2> HIDE DEF u
  <2>3. CASE v = u
    <3>1. breakers'[v] = Reset(breakers[v]) /\ consecutive'[v] = 0
      BY <1>0, <2>1, <2>2, <2>3 DEF TypeOK
    <3>2. Reset(breakers[v]).state = "CLOSED"
      BY <2>2, <2>3, SMT DEF Reset, Breaker
    <3>3. Reset(breakers[v]).due = breakers[v].due
      BY <2>2, <2>3, Zenon DEF Reset, Breaker
    <3> QED BY <3>1, <3>2, <3>3, Zenon DEF Protector!Next, Protector!Close
  <2>4. CASE v # u
    <3>1. breakers'[v] = breakers[v] /\ consecutive'[v] = consecutive[v]
      BY <1>0, <2>1, <2>4 DEF TypeOK
    <3> QED BY <1>0, <3>1, ProbeMaps, Zenon
  <2> QED BY <2>3, <2>4
<1>3. ASSUME NEW q \in Requests, Fail(q)
      PROVE  Protector(v)!Next \/ UNCHANGED Protector(v)!vars
  BY <1>3, FailMaps, Zenon
<1>4. ASSUME NEW u \in Urls, CoolDown(u)
      PROVE  Protector(v)!Next \/ UNCHANGED Protector(v)!vars
  <2>1. /\ ~breakers[u].due
        /\ breakers' = [breakers EXCEPT ![u].due = TRUE]
        /\ consecutive' = consecutive
    BY <1>4 DEF CoolDown
  <2>2. breakers[u] \in Breaker /\ breakers \in [Urls -> Breaker]
    BY <1>0 DEF TypeOK
  <2>3. CASE v = u
    <3>1. breakers'[v] = [breakers[u] EXCEPT !.due = TRUE]
      BY <2>1, <2>2, <2>3
    <3>2. breakers'[v].state = breakers[v].state
      BY <2>2, <2>3, <3>1, SMT DEF Breaker
    <3>3. breakers'[v].due = TRUE
      BY <2>2, <2>3, <3>1, Zenon DEF Breaker
    <3> QED BY <2>1, <2>3, <3>2, <3>3, Zenon DEF Protector!Next, Protector!CoolDown
  <2>4. CASE v # u
    <3>1. breakers'[v] = breakers[v] /\ consecutive'[v] = consecutive[v]
      BY <2>1, <2>2, <2>4
    <3> QED BY <1>0, <3>1, ProbeMaps, Zenon
  <2> QED BY <2>3, <2>4
<1>5. CASE UNCHANGED vars
  <2>1. breakers'[v] = breakers[v] /\ consecutive'[v] = consecutive[v]
    BY <1>5 DEF vars
  <2> QED BY <1>0, <2>1, ProbeMaps, Zenon
<1> QED BY <1>1, <1>2, <1>3, <1>4, <1>5, Zenon DEF Next

\* For any number of providers and requests, and whatever order their answers
\* come in, the breaker of each provider refines CircuitBreaker, with the
\* consecutive failures of its health record as the run of failures.
THEOREM BreakersKeepThePromise == Spec => BreakersProtect
<1>1. Init => \A u \in Urls : Protector(u)!Init
  <2> SUFFICES ASSUME Init, NEW u \in Urls PROVE Protector(u)!Init
    BY Zenon
  <2>1. breakers[u].state = "CLOSED" /\ consecutive[u] = 0
    BY SMT DEF Init
  <2>2. breakers[u].due = TRUE
    BY Zenon DEF Init
  <2> QED BY <2>1, <2>2, Zenon DEF Protector!Init
<1>2. IInv /\ [Next]_vars => [\A u \in Urls : [Protector(u)!Next]_(Protector(u)!vars)]_vars
  BY StepMaps, Zenon
<1> QED BY <1>1, <1>2, Inductive, PTL DEF Spec, BreakersProtect
=============================================================================
