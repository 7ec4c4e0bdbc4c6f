--------------------------- MODULE CircuitBreaker ---------------------------
(***************************************************************************)
(* What a circuit breaker promises its callers: it opens after Threshold   *)
(* failures in a row, lets nobody through before its cooling time is over, *)
(* and closes only on a success.  "run" are the failures since the last    *)
(* success, as an observer of the answers counts them.                     *)
(***************************************************************************)
EXTENDS Naturals

CONSTANT Threshold

VARIABLES
  state,    \* "CLOSED", "OPEN" or "HALF_OPEN"
  run,      \* failures in a row
  due       \* the cooling time is over

vars == <<state, run, due>>

Init == state = "CLOSED" /\ run = 0 /\ due = TRUE

\* The threshold is reached: the breaker opens, again if it was half open
Open ==
  /\ run + 1 >= Threshold
  /\ state' = "OPEN"
  /\ run' = run + 1
  /\ due' = FALSE

\* Below the threshold a closed breaker stays closed
Tolerate ==
  /\ state = "CLOSED"
  /\ run + 1 < Threshold
  /\ run' = run + 1
  /\ UNCHANGED <<state, due>>

\* A success closes it, wherever it is, and forgets the failures
Close ==
  /\ state' = "CLOSED"
  /\ run' = 0
  /\ UNCHANGED due

\* The first caller after the cooling time tries the provider
Probe ==
  /\ state = "OPEN"
  /\ due
  /\ state' = "HALF_OPEN"
  /\ UNCHANGED <<run, due>>

CoolDown ==
  /\ ~due
  /\ due' = TRUE
  /\ UNCHANGED <<state, run>>

Next == Open \/ Tolerate \/ Close \/ Probe \/ CoolDown

Spec == Init /\ [][Next]_vars
=============================================================================
