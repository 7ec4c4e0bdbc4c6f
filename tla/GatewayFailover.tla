-------------------------- MODULE GatewayFailover --------------------------
(***************************************************************************)
(* FailoverService of the gateway (failover.service.ts): a request with a  *)
(* failover policy is sent to the providers of the policy one after        *)
(* another until one answers.  All requests share, per provider URL, a     *)
(* circuit breaker and a health record, both kept in the memory of the     *)
(* process.                                                                *)
(*                                                                         *)
(* executeFailover awaits only the provider's answer, so a request is two  *)
(* kinds of atomic step: Start, up to the first POST, and Answer, from one *)
(* answer to the next POST or to the result.  The loop's skipping of       *)
(* providers with an open breaker happens inside these steps.              *)
(*                                                                         *)
(* The order the policy's strategy sorts its providers into is data: each  *)
(* request brings its own.  Latencies and request totals, which are only   *)
(* reported, are left out.                                                 *)
(***************************************************************************)
EXTENDS Naturals, Sequences, FiniteSets

CONSTANTS
  Urls,         \* provider URLs
  Requests,     \* concurrent calls of executeFailover
  Orders,       \* the sorted provider lists of the policies in use
  Limits,       \* the maxRetries of the policies in use
  Threshold,    \* CIRCUIT_BREAKER_THRESHOLD
  MaxFailures   \* bound: attempts that end in an exception

ASSUME FailoverAssumption ==
  /\ Orders \subseteq Seq(Urls) \ {<<>>}
  /\ Limits \subseteq Nat \ {0}
  /\ Threshold \in Nat \ {0}
  /\ MaxFailures \in Nat

VARIABLES
  breakers,     \* circuitBreakers: URL -> breaker; a URL not in the map is CLOSED
  consecutive,  \* providerHealth: URL -> consecutiveFailures
  requests,     \* the calls of executeFailover
  failures      \* attempts that ended in an exception so far

vars == <<breakers, consecutive, requests, failures>>

Breaker ==
  [ state    : {"CLOSED", "OPEN", "HALF_OPEN"},
    failures : Nat,
    due      : BOOLEAN ]      \* now >= nextAttempt

Results == {"none", "answered", "errorStatus", "failed"}

Request ==
  [ sending : BOOLEAN,        \* awaiting the provider at position "at"
    order   : Seq(Urls),      \* sortedProviders
    limit   : Nat,            \* policy.maxRetries
    at      : Nat,            \* providers attempted, skipped ones included
    result  : Results ]

Called(order, limit) ==
  [sending |-> FALSE, order |-> order, limit |-> limit, at |-> 0, result |-> "none"]

Init ==
  /\ breakers = [u \in Urls |-> [state |-> "CLOSED", failures |-> 0, due |-> TRUE]]
  /\ consecutive = [u \in Urls |-> 0]
  /\ requests = [q \in Requests |-> Called(<<>>, 0)]
  /\ failures = 0

-----------------------------------------------------------------------------
(* The breaker of one provider *)

\* Plausible bugs, for the mutants of the runs
AdmitsNever(b) == b.state # "OPEN"
AdmitsAlways(b) == TRUE
TrippedOnce(b) ==
  IF b.failures + 1 = Threshold
    THEN [state |-> "OPEN", failures |-> b.failures + 1, due |-> FALSE]
    ELSE [b EXCEPT !.failures = b.failures + 1]
ResetStateOnly(b) == [b EXCEPT !.state = "CLOSED"]

\* isCircuitBreakerOpen answers false
Admits(b) == b.state = "OPEN" => b.due

\* isCircuitBreakerOpen's transition when the cooling time is over
Probed(b) == IF b.state = "OPEN" THEN [b EXCEPT !.state = "HALF_OPEN"] ELSE b

\* recordCircuitBreakerFailure
Tripped(b) ==
  IF b.failures + 1 >= Threshold
    THEN [state |-> "OPEN", failures |-> b.failures + 1, due |-> FALSE]
    ELSE [b EXCEPT !.failures = b.failures + 1]

\* resetCircuitBreaker
Reset(b) == [b EXCEPT !.state = "CLOSED", !.failures = 0]

-----------------------------------------------------------------------------
(* The loop of executeFailover *)

\* The positions the loop may reach: i < sortedProviders.length && i < maxRetries
Positions(r) == { i \in 1..Len(r.order) : i <= r.limit }

\* A plausible bug: the loop forgets maxRetries once it skips a provider
NextPositionsPastLimit(r, from, brs) ==
  { i \in 1..Len(r.order) :
      /\ i > from
      /\ Admits(brs[r.order[i]])
      /\ \A j \in 1..Len(r.order) : (from < j /\ j < i) => ~Admits(brs[r.order[j]]) }

\* The first position after "from" whose breaker admits a request, if any
NextPositions(r, from, brs) ==
  { i \in Positions(r) :
      /\ i > from
      /\ Admits(brs[r.order[i]])
      /\ \A j \in Positions(r) : (from < j /\ j < i) => ~Admits(brs[r.order[j]]) }

\* Go on with the loop after position "from": POST to the next provider that
\* is not skipped, or give up
Proceed(q, r, from, brs) ==
  \/ \E i \in NextPositions(r, from, brs) :
        /\ requests' = [requests EXCEPT ![q] = [r EXCEPT !.sending = TRUE, !.at = i]]
        /\ breakers' = [brs EXCEPT ![r.order[i]] = Probed(brs[r.order[i]])]
  \/ /\ NextPositions(r, from, brs) = {}
     /\ requests' = [requests EXCEPT ![q] =
                       [r EXCEPT !.sending = FALSE, !.at = Cardinality(Positions(r)),
                                 !.result = "failed"]]
     /\ breakers' = brs

\* executeFailover is called
Start(q, order, limit) ==
  /\ ~requests[q].sending
  /\ Proceed(q, Called(order, limit), 0, breakers)
  /\ UNCHANGED <<consecutive, failures>>

\* The provider answers.  The request carries validateStatus: () => true, so an
\* answer with an error status does not throw and is a success as well.
Succeed(q, result) ==
  LET r == requests[q]
      u == r.order[r.at]
  IN
  /\ r.sending
  /\ consecutive' = [consecutive EXCEPT ![u] = 0]
  /\ breakers' = [breakers EXCEPT ![u] = Reset(breakers[u])]
  /\ requests' = [requests EXCEPT ![q] = [r EXCEPT !.sending = FALSE, !.result = result]]
  /\ UNCHANGED failures

\* The attempt ends in an exception: the connection fails or times out
Fail(q) ==
  LET r == requests[q]
      u == r.order[r.at]
  IN
  /\ r.sending
  /\ failures < MaxFailures
  /\ failures' = failures + 1
  /\ consecutive' = [consecutive EXCEPT ![u] = consecutive[u] + 1]
  /\ Proceed(q, r, r.at, [breakers EXCEPT ![u] = Tripped(breakers[u])])

\* CIRCUIT_BREAKER_TIMEOUT has passed since the breaker was last tripped
CoolDown(u) ==
  /\ ~breakers[u].due
  /\ breakers' = [breakers EXCEPT ![u].due = TRUE]
  /\ UNCHANGED <<consecutive, requests, failures>>

Next ==
  \/ \E q \in Requests, order \in Orders, limit \in Limits : Start(q, order, limit)
  \/ \E q \in Requests, result \in {"answered", "errorStatus"} : Succeed(q, result)
  \/ \E q \in Requests : Fail(q)
  \/ \E u \in Urls : CoolDown(u)

\* A provider answers or the attempt times out; time passes; and a request with
\* each policy arrives again and again, whatever requests are in flight.
Fairness ==
  /\ \A q \in Requests : WF_vars(Fail(q) \/ Succeed(q, "answered") \/ Succeed(q, "errorStatus"))
  /\ \A u \in Urls : WF_vars(CoolDown(u))
  /\ \A order \in Orders : SF_vars(\E q \in Requests, limit \in Limits : Start(q, order, limit))

Spec == Init /\ [][Next]_vars /\ Fairness

-----------------------------------------------------------------------------
(* Properties *)

\* Every variable has its type: the loop of a request that awaits an answer is
\* at a position its policy has.
TypeOK ==
  /\ breakers \in [Urls -> Breaker]
  /\ consecutive \in [Urls -> Nat]
  /\ requests \in [Requests -> Request]
  /\ \A q \in Requests : requests[q].sending => requests[q].at \in Positions(requests[q])
  /\ failures \in 0..MaxFailures

\* The breaker and the health record of a provider are updated by different
\* methods on different paths, with requests in flight across the breaker's
\* transitions: still the breaker is away from CLOSED exactly while the provider
\* has failed Threshold times in a row, so that getProviderHealthStatus never
\* shows an open breaker next to a recovered provider or the reverse.
BreakerAgreesWithHealth ==
  \A u \in Urls : breakers[u].state = "CLOSED" <=> consecutive[u] < Threshold

\* HALF_OPEN has no timer: a breaker is only there while a request that can
\* close or reopen it is on its way to the provider.
HalfOpenIsProbed ==
  \A u \in Urls : breakers[u].state = "HALF_OPEN" =>
    \E q \in Requests : /\ requests[q].sending
                        /\ requests[q].order[requests[q].at] = u

\* Each provider's breaker is a circuit breaker for the answers of all requests
\* together: it opens and reopens after Threshold failures in a row only, admits
\* no probe before its cooling time is over, and nothing but a success closes it.
Protector(u) ==
  INSTANCE CircuitBreaker WITH state <- breakers[u].state, run <- consecutive[u],
                               due <- breakers[u].due
BreakersProtect ==
  /\ \A u \in Urls : Protector(u)!Init
  /\ [][\A u \in Urls : [Protector(u)!Next]_(Protector(u)!vars)]_vars

\* Once the exceptions stop, the breaker of every provider that heads a policy
\* in use closes and stays closed, however many late failures extended its
\* cooling time.
PreferredRecovers ==
  <>[](\A order \in Orders : breakers[order[1]].state = "CLOSED")
=============================================================================
