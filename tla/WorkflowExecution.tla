------------------------- MODULE WorkflowExecution -------------------------
(***************************************************************************)
(* One execution of the workflow orchestrator                              *)
(* (workflow-orchestrator.service.ts): executeWorkflow, the loop of        *)
(* runWorkflowExecution that runs the steps in batches, and the user's     *)
(* pause, resume and cancel, which interleave with the loop at its awaits: *)
(* the persisting of the execution, the steps of a batch, and the charges. *)
(*                                                                         *)
(* Executions share nothing but the cache of step results, so that one     *)
(* execution suffices: a step may always be found in the cache, filled by  *)
(* an earlier execution.  Steps without an await (data processing,         *)
(* conditions) are treated as steps that finish soon.  The order of the    *)
(* steps in the template decides who is in which batch; any order is a     *)
(* template.  A step that runs uses one token.                             *)
(***************************************************************************)
EXTENDS Naturals, FiniteSets

CONSTANTS
  Steps,         \* the ids of the template's steps
  Templates,     \* the functions from steps to the ids they depend on
  Parallelism,   \* settings.parallelism ?? 1
  MaxControls,   \* bound: calls of pause, resume and cancel
  MaxFaults      \* bound: writes that Redis refuses

ASSUME WorkflowAssumption ==
  /\ IsFiniteSet(Steps)
  /\ \A d \in Templates : DOMAIN d = Steps
  /\ Parallelism \in Nat \ {0}
  /\ MaxControls \in Nat
  /\ MaxFaults \in Nat

VARIABLES
  deps,         \* step.dependencies
  steps,        \* step.status
  waiting,      \* the steps of "ready" that no batch had yet
  batch,        \* the batch awaited
  phase,        \* the await runWorkflowExecution is at
  status,       \* execution.status
  active,       \* the execution is in activeExecutions
  stored,       \* the status Redis has of the execution
  cancelling,   \* a cancelWorkflow awaits persistExecution
  spent,        \* steps whose run used tokens
  totalTokens,  \* execution.metadata.totalTokens
  charged,      \* the charges of the subscription made so far
  billed,       \* the tokens charged
  controls, faults

ctl == <<active, cancelling, controls>>
charges == <<charged, billed>>
vars == <<deps, steps, waiting, batch, phase, status, active, stored, cancelling,
          spent, totalTokens, charged, billed, controls, faults>>

StepStatus == {"pending", "running", "completed", "failed"}
Statuses == {"running", "completed", "failed", "paused", "cancelled"}

\* The persisting of executeWorkflow, a batch, the loop's persisting, the charges
\* (consumeTokens, consumeRequest, incrementAgentTracesUsed), the last persisting
Phases == {"created", "batch", "saving", "tokens", "request", "traces", "closing", "ended"}

Charging == {"tokens", "request", "traces"}

Init ==
  /\ deps \in Templates
  /\ steps = [s \in Steps |-> "pending"]
  /\ waiting = {}
  /\ batch = {}
  /\ phase = "created"
  /\ status = "running"
  /\ active = TRUE
  /\ \/ stored = "running" /\ faults = 0
     \/ MaxFaults > 0 /\ stored = "none" /\ faults = 1
  /\ cancelling = FALSE
  /\ spent = {}
  /\ totalTokens = 0
  /\ charged = {}
  /\ billed = 0
  /\ controls = 0

-----------------------------------------------------------------------------
(* Parts of the steps *)

\* persistExecution.  CacheService keeps the value in memory when Redis refuses
\* it, where nobody reads it while Redis has an older one.
Persist(st) ==
  \/ stored' = st /\ faults' = faults
  \/ faults < MaxFaults /\ stored' = stored /\ faults' = faults + 1

Completed == { s \in Steps : steps[s] = "completed" }

\* A plausible bug, for the mutants: a failed dependency counts as done
ReadyAfterAnyEnd ==
  { s \in Steps : steps[s] = "pending"
               /\ deps[s] \subseteq { d \in Steps : steps[d] \in {"completed", "failed"} } }

\* The steps whose dependencies have completed
Ready == { s \in Steps : steps[s] = "pending" /\ deps[s] \subseteq Completed }

\* The next batch of a list of ready steps: slice(i, i + parallelism)
Batches(list) ==
  { b \in SUBSET list : \/ Cardinality(b) = Parallelism
                        \/ b = list /\ Cardinality(list) < Parallelism }

\* A plausible bug, for the mutants: a batch is not taken off the list
LaunchAgain(list) ==
  \E b \in Batches(list) : \E hits \in SUBSET b :
    /\ batch' = b
    /\ waiting' = list
    /\ steps' = [s \in Steps |-> IF s \in hits THEN "completed"
                                 ELSE IF s \in b THEN "running" ELSE steps[s]]
    /\ phase' = "batch"
    /\ UNCHANGED <<status, stored, faults, totalTokens>>

\* Promise.allSettled(batch.map(executeStep)): the steps found in the cache
\* are completed at once
Launch(list) ==
  \E b \in Batches(list) : \E hits \in SUBSET b :
    /\ batch' = b
    /\ waiting' = list \ b
    /\ steps' = [s \in Steps |-> IF s \in hits THEN "completed"
                                 ELSE IF s \in b THEN "running" ELSE steps[s]]
    /\ phase' = "batch"
    /\ UNCHANGED <<status, stored, faults, totalTokens>>

\* Plausible bugs, for the mutants: the last write is forgotten
CloseUnsaved(st) ==
  /\ status' = st
  /\ phase' = "closing"
  /\ UNCHANGED <<stored, faults>>

\* On to the last persisting, with a status
Close(st) ==
  /\ status' = st
  /\ phase' = "closing"
  /\ Persist(st)

\* A plausible bug, for the mutants: failed steps do not fail the execution
ConcludeRegardless ==
  /\ \/ /\ \A s \in Steps : steps[s] # "pending"
        /\ status' = "completed"
        /\ phase' = "tokens"
        /\ UNCHANGED <<stored, faults, totalTokens>>
     \/ /\ \E s \in Steps : steps[s] = "pending"
        /\ Close("failed")
        /\ UNCHANGED totalTokens
  /\ UNCHANGED <<steps, waiting, batch>>

\* The end of the loop: all steps completed, or all ended, or some are stuck
\* behind a failed, unknown or circular dependency (the thrown error leaves the
\* metrics alone)
Conclude ==
  /\ \/ /\ Completed = Steps
        /\ status' = "completed"
        /\ phase' = "tokens"
        /\ UNCHANGED <<stored, faults, totalTokens>>
     \/ /\ Completed # Steps
        /\ Close("failed")
        /\ totalTokens' = IF \E s \in Steps : steps[s] = "pending"
                            THEN totalTokens ELSE Cardinality(spent)
  /\ UNCHANGED <<steps, waiting, batch>>

\* The top of the loop
Select ==
  \/ Ready # {} /\ Launch(Ready)
  \/ Ready = {} /\ Conclude

-----------------------------------------------------------------------------
(* runWorkflowExecution *)

\* executeWorkflow has persisted the execution and starts the run; or the loop has
Continue ==
  /\ phase \in {"created", "saving"}
  /\ Select
  /\ UNCHANGED <<deps, spent, ctl, charges>>

\* A step of the batch ends
FinishStep(s, result) ==
  /\ steps[s] = "running"
  /\ steps' = [steps EXCEPT ![s] = result]
  /\ spent' = IF result = "completed" THEN spent \cup {s} ELSE spent
  /\ UNCHANGED <<deps, waiting, batch, phase, status, stored, faults, ctl, totalTokens, charges>>

\* The whole batch has ended: the next one, or the loop's persisting
Settle ==
  /\ phase = "batch"
  /\ \A s \in batch : steps[s] # "running"
  /\ \/ waiting # {} /\ Launch(waiting)
     \/ /\ waiting = {}
        /\ batch' = {}
        /\ phase' = "saving"
        /\ Persist(status)
        /\ UNCHANGED <<steps, waiting, status, totalTokens>>
  /\ UNCHANGED <<deps, spent, ctl, charges>>

AfterCharge == [tokens |-> "request", request |-> "traces", traces |-> "closing"]

\* One of the three charges is made.  The tokens to charge are those of the
\* execution's metadata, which calculateExecutionMetrics fills later.
Charge ==
  /\ phase \in Charging
  /\ charged' = charged \cup {phase}
  /\ billed' = IF phase = "tokens" THEN totalTokens ELSE billed
  /\ IF phase = "traces"
       THEN totalTokens' = Cardinality(spent) /\ Close(status)
       ELSE phase' = AfterCharge[phase] /\ UNCHANGED <<status, stored, faults, totalTokens>>
  /\ UNCHANGED <<deps, steps, waiting, batch, spent, ctl>>

\* A charge throws: the error is logged and the remaining charges are skipped
ChargeFails ==
  /\ phase \in Charging
  /\ totalTokens' = Cardinality(spent)
  /\ Close(status)
  /\ UNCHANGED <<deps, steps, waiting, batch, spent, charged, billed, ctl>>

\* Plausible bug, for the mutants: only completed executions are forgotten
EndKeepsFailed ==
  /\ phase = "closing"
  /\ phase' = "ended"
  /\ active' = (active /\ status = "failed")
  /\ UNCHANGED <<deps, steps, waiting, batch, status, stored, cancelling, spent, totalTokens,
                 charges, controls, faults>>

\* The execution is persisted: it leaves activeExecutions
End ==
  /\ phase = "closing"
  /\ phase' = "ended"
  /\ active' = FALSE
  /\ UNCHANGED <<deps, steps, waiting, batch, status, stored, cancelling, spent, totalTokens,
                 charges, controls, faults>>

-----------------------------------------------------------------------------
(* The user's controls *)

\* The user knows the execution once executeWorkflow has returned it
Controlled(st) ==
  /\ phase # "created"
  /\ active
  /\ controls < MaxControls
  /\ controls' = controls + 1
  /\ status' = st
  /\ Persist(st)
  /\ UNCHANGED <<deps, steps, waiting, batch, phase, active, spent, totalTokens, charges>>

PauseWorkflow == Controlled("paused") /\ UNCHANGED cancelling

ResumeWorkflow == status = "paused" /\ Controlled("running") /\ UNCHANGED cancelling

CancelWorkflow == Controlled("cancelled") /\ cancelling' = TRUE

\* cancelWorkflow has persisted the execution: it leaves activeExecutions
FinishCancel ==
  /\ cancelling
  /\ cancelling' = FALSE
  /\ active' = FALSE
  /\ UNCHANGED <<deps, steps, waiting, batch, phase, status, stored, spent, totalTokens,
                 charges, controls, faults>>

Run == Continue \/ Settle \/ Charge \/ ChargeFails \/ End

Next ==
  \/ Run
  \/ \E s \in Steps, result \in {"completed", "failed"} : FinishStep(s, result)
  \/ PauseWorkflow \/ ResumeWorkflow \/ CancelWorkflow
  \/ FinishCancel

\* The event loop runs whatever is ready, and every step ends (LLM calls and API
\* calls have timeouts).  No user has to press a button.
Fairness ==
  /\ WF_vars(Run)
  /\ \A s \in Steps : WF_vars(\E result \in {"completed", "failed"} : FinishStep(s, result))
  /\ WF_vars(FinishCancel)

Spec == Init /\ [][Next]_vars /\ Fairness

-----------------------------------------------------------------------------
(* Properties *)

\* Every variable has its type; only steps of the awaited batch run, and the
\* steps in line are pending.
TypeOK ==
  /\ deps \in Templates
  /\ steps \in [Steps -> StepStatus]
  /\ batch \subseteq Steps
  /\ waiting \subseteq { s \in Steps : steps[s] = "pending" }
  /\ phase \in Phases
  /\ status \in Statuses /\ stored \in Statuses \cup {"none"}
  /\ active \in BOOLEAN /\ cancelling \in BOOLEAN
  /\ spent \subseteq Steps
  /\ totalTokens \in Nat /\ billed \in Nat
  /\ charged \subseteq Charging
  /\ controls \in 0..MaxControls
  /\ faults \in 0..MaxFaults
  /\ \A s \in Steps : steps[s] = "running" => s \in batch /\ phase = "batch"

\* The list of ready steps is computed once and worked off in several batches,
\* with other steps failing meanwhile: still no step leaves "pending" before all
\* its dependencies have completed.
DependenciesFirst ==
  \A s \in Steps : steps[s] # "pending" \/ s \in waiting => deps[s] \subseteq Completed

\* No more than "parallelism" steps run at a time.
ParallelismKept == Cardinality({ s \in Steps : steps[s] = "running" }) <= Parallelism

\* What the run concludes, whatever the controls do to execution.status
Outcome ==
  IF phase \in Charging \cup {"closing", "ended"}
    THEN IF Completed = Steps THEN "completed" ELSE "failed"
    ELSE "running"

\* The controls overwrite execution.status while the run goes on: an execution
\* that is reported completed or failed really is, and the subscription is only
\* charged for an execution all of whose steps completed.
ReportedOutcome ==
  /\ status \in {"completed", "failed"} => status = Outcome
  /\ charged # {} => Outcome = "completed"

\* Two writers, the run and the controls, persist the execution: without a
\* refused write, what Redis has in the end is what the execution ended with.
StoredInTheEnd == phase = "ended" /\ faults = 0 => stored = status

Schedule == INSTANCE WorkflowSchedule WITH outcome <- Outcome

\* The run with its batches implements the schedule: dependencies first, every
\* step that can run runs, and the execution ends.
ImplementsSchedule == Schedule!Spec

\* activeExecutions does not keep an execution for ever.
Forgotten == <>[]~active

\* The answers of the pause and cancel endpoints (workflow.controller.ts:198 and 210),
\* "Workflow paused successfully" and "Workflow cancelled successfully": no step starts
\* while the execution is paused or cancelled.
ControlsHeeded ==
  [][\A s \in Steps :
       status \in {"paused", "cancelled"} /\ steps[s] = "pending" => steps'[s] = "pending"]_vars
=============================================================================
