-------------------------- MODULE WorkflowSchedule --------------------------
(***************************************************************************)
(* What the workflow orchestrator promises of one execution, abstractly:   *)
(* steps run once, after the steps they depend on have completed; every    *)
(* step that can run does run; and the execution ends, completed when all  *)
(* its steps are and failed otherwise.  Nothing is said of batches, of     *)
(* persistence, of charges or of the user's controls.                      *)
(***************************************************************************)
CONSTANTS
  Steps,      \* the steps of the execution
  Templates   \* the dependency functions of the templates in use

VARIABLES
  deps,       \* the dependencies of the steps, fixed by the template
  steps,      \* the status of each step
  outcome     \* "running", "completed" or "failed"

vars == <<deps, steps, outcome>>

CompletedIn(st) == { s \in Steps : st[s] = "completed" }

\* The steps that may start
Ready == { s \in Steps : steps[s] = "pending" /\ deps[s] \subseteq CompletedIn(steps) }

Init ==
  /\ deps \in Templates
  /\ steps = [s \in Steps |-> "pending"]
  /\ outcome = "running"

\* Some ready steps start, some of them being completed at once
Start(started, done) ==
  /\ outcome = "running"
  /\ started \subseteq Ready
  /\ done \subseteq started
  /\ steps' = [s \in Steps |-> IF s \in done THEN "completed"
                               ELSE IF s \in started THEN "running" ELSE steps[s]]
  /\ UNCHANGED <<deps, outcome>>

Finish(s, result) ==
  /\ steps[s] = "running"
  /\ steps' = [steps EXCEPT ![s] = result]
  /\ UNCHANGED <<deps, outcome>>

\* Nothing runs and nothing can start
End ==
  /\ outcome = "running"
  /\ Ready = {}
  /\ \A s \in Steps : steps[s] # "running"
  /\ outcome' = IF CompletedIn(steps) = Steps THEN "completed" ELSE "failed"
  /\ UNCHANGED <<deps, steps>>

Next ==
  \/ \E started \in SUBSET Steps : \E done \in SUBSET started : Start(started, done)
  \/ \E s \in Steps, result \in {"completed", "failed"} : Finish(s, result)
  \/ End

Safety == Init /\ [][Next]_vars

\* Every ready step starts, every running step finishes, and the execution ends.
Fairness ==
  /\ \A s \in Steps :
       /\ WF_vars(\E started \in SUBSET Steps : \E done \in SUBSET started :
                    s \in started /\ Start(started, done))
       /\ WF_vars(\E result \in {"completed", "failed"} : Finish(s, result))
  /\ WF_vars(End)

Spec == Safety /\ Fairness
=============================================================================
