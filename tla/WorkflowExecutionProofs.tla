---------------------- MODULE WorkflowExecutionProofs ----------------------
(* Type correctness, the order of dependencies, the bound on parallelism,  *)
(* the reported outcome, and that the batches follow the abstract          *)
(* schedule, for any finite set of steps, any dependencies, any            *)
(* parallelism and any number of controls and refused writes.              *)
EXTENDS WorkflowExecution, FiniteSetTheorems, TLAPS

Pending == { s \in Steps : steps[s] = "pending" }

NoneRuns == \A s \in Steps : steps[s] # "running"

\* Sets of steps can be counted.
LEMMA StepsCounted ==
  ASSUME NEW S \in SUBSET Steps
  PROVE  IsFiniteSet(S) /\ Cardinality(S) \in Nat
<1>1. IsFiniteSet(S)
  BY FS_Subset, WorkflowAssumption
<1> QED
  BY <1>1, FS_CardinalityType

\* A batch is taken off the list, and is no larger than the parallelism.
LEMMA BatchFacts ==
  ASSUME NEW list \in SUBSET Steps, NEW b \in Batches(list)
  PROVE  b \subseteq list /\ Cardinality(b) <= Parallelism
<1>1. Cardinality(b) \in Nat /\ Cardinality(list) \in Nat
  <2>1. b \subseteq Steps
    BY Zenon DEF Batches
  <2> QED
    BY <2>1, StepsCounted, Zenon
<1>2. b \subseteq list
  BY Zenon DEF Batches
<1>3. Cardinality(b) = Parallelism \/ Cardinality(b) < Parallelism
  BY Zenon DEF Batches
<1> QED
  BY <1>1, <1>2, <1>3, WorkflowAssumption, SMT

\* The batch may be large enough for whatever runs.
BatchKept == Cardinality(batch) <= Parallelism

\* What a launch of a part of the ready steps does, when nothing runs.
LEMMA LaunchFacts ==
  ASSUME TypeOK, NoneRuns, NEW list \in SUBSET Ready, Launch(list)
  PROVE  /\ steps' \in [Steps -> StepStatus]
         /\ batch' \subseteq Steps
         /\ BatchKept'
         /\ waiting' \subseteq Pending' /\ waiting' \subseteq list
         /\ Completed \subseteq Completed'
         /\ \A s \in Steps : steps'[s] = "running" => s \in batch'
         /\ \A s \in Steps : steps'[s] = steps[s] \/ s \in list
         /\ phase' = "batch"
         /\ UNCHANGED <<status, stored, faults, totalTokens>>
<1>1. list \subseteq Steps
  BY DEF Ready
<1>2. PICK b \in Batches(list), hits \in SUBSET Steps :
        /\ hits \subseteq b
        /\ batch' = b
        /\ waiting' = list \ b
        /\ steps' = [s \in Steps |-> IF s \in hits THEN "completed"
                                     ELSE IF s \in b THEN "running" ELSE steps[s]]
        /\ phase' = "batch"
        /\ UNCHANGED <<status, stored, faults, totalTokens>>
  BY <1>1, SMT DEF Launch, Batches
<1>3. b \subseteq list /\ Cardinality(b) <= Parallelism
  BY <1>1, BatchFacts, Zenon
<1>4. steps' \in [Steps -> StepStatus]
  BY <1>2, SMT DEF TypeOK, StepStatus
<1>5. \A s \in list : steps[s] = "pending"
  BY DEF Ready
<1>6. \A s \in Steps : steps'[s] = steps[s] \/ s \in list
  BY <1>2, <1>3, SMT
<1>7. \A s \in list \ b : steps'[s] = "pending"
  BY <1>1, <1>2, <1>5, SMT
<1>8. \A s \in Steps : steps[s] = "completed" => steps'[s] = "completed"
  BY <1>2, <1>3, <1>5, SMT
<1>9. \A s \in Steps : steps'[s] = "running" => s \in b
  BY <1>2, SMT DEF NoneRuns
<1> QED
  BY <1>1, <1>2, <1>3, <1>4, <1>6, <1>7, <1>8, <1>9, SMT DEF BatchKept, Pending, Completed

\* The same launch is a start of the abstract schedule.
LEMMA LaunchStarts ==
  ASSUME TypeOK, NEW list \in SUBSET Ready, Launch(list),
         Outcome = "running", Outcome' = "running", deps' = deps
  PROVE  Schedule!Next
<1>1. list \subseteq Steps
  BY DEF Ready
<1>2. PICK b \in Batches(list), hits \in SUBSET Steps :
        /\ hits \subseteq b
        /\ steps' = [s \in Steps |-> IF s \in hits THEN "completed"
                                     ELSE IF s \in b THEN "running" ELSE steps[s]]
  BY <1>1, SMT DEF Launch, Batches
<1>3. b \subseteq list
  BY <1>1, BatchFacts, Zenon
<1>4. Schedule!Ready = Ready
  BY Zenon DEF Ready, Completed, Schedule!Ready, Schedule!CompletedIn
<1>5. Schedule!Start(b, hits)
  BY <1>2, <1>3, <1>4, Zenon DEF Schedule!Start
<1>6. b \in SUBSET Steps /\ hits \in SUBSET b
  BY <1>1, <1>2, <1>3, SMT
<1> QED
  BY <1>5, <1>6, Zenon DEF Schedule!Next

-----------------------------------------------------------------------------
(* The inductive invariant *)

Over == Charging \cup {"closing", "ended"}

\* The conclusion: the charges are for completed executions only, and the status,
\* where the controls left it alone, is the outcome.
Concluded ==
  /\ phase \in Charging => Completed = Steps
  /\ charged # {} => phase \in Over /\ Completed = Steps
  /\ status \in {"completed", "failed"} => phase \in Over /\ status = Outcome

IInv == TypeOK /\ DependenciesFirst /\ BatchKept /\ Concluded

\* The steps of a list are ready when those in line are pending.
LEMMA WaitingReady ==
  ASSUME TypeOK, DependenciesFirst
  PROVE  waiting \subseteq Ready
  BY SMT DEF TypeOK, DependenciesFirst, Ready

\* Outside the phase "batch" nothing runs.
LEMMA Idle ==
  ASSUME TypeOK, phase # "batch" \/ \A s \in batch : steps[s] # "running"
  PROVE  NoneRuns
  BY SMT DEF TypeOK, NoneRuns

\* Persisting changes what is stored and counts its faults.
LEMMA PersistFacts ==
  ASSUME TypeOK, NEW st \in Statuses, Persist(st)
  PROVE  stored' \in Statuses \cup {"none"} /\ faults' \in 0..MaxFaults
  BY WorkflowAssumption, SMT DEF TypeOK, Persist

\* The outcome of an execution depends on the steps and on being over.
LEMMA OutcomeKept ==
  ASSUME steps' = steps, (phase \in Over) <=> (phase' \in Over)
  PROVE  Outcome' = Outcome
  BY Zenon DEF Outcome, Completed, Over

-----------------------------------------------------------------------------
(* Every step keeps the invariant and is a step of the schedule *)

\* What each action is shown to do.
Kept == IInv' /\ (Schedule!Next \/ UNCHANGED <<deps, steps, Outcome>>)

\* A launch of ready steps, at the top of the loop or for the rest of the list.
LEMMA LaunchKeeps ==
  ASSUME IInv, NoneRuns, NEW list \in SUBSET Ready, Launch(list),
         phase \in {"created", "saving", "batch"},
         UNCHANGED <<deps, spent, ctl, charges>>
  PROVE  Kept
<1>1. TypeOK /\ DependenciesFirst /\ Concluded
  BY Zenon DEF IInv
<1>2. /\ steps' \in [Steps -> StepStatus]
      /\ batch' \subseteq Steps
      /\ BatchKept'
      /\ waiting' \subseteq Pending' /\ waiting' \subseteq list
      /\ Completed \subseteq Completed'
      /\ \A s \in Steps : steps'[s] = "running" => s \in batch'
      /\ \A s \in Steps : steps'[s] = steps[s] \/ s \in list
      /\ phase' = "batch"
      /\ UNCHANGED <<status, stored, faults, totalTokens>>
  BY <1>1, LaunchFacts, Zenon
<1>3. TypeOK'
  BY <1>1, <1>2, SMT DEF TypeOK, Pending, Phases, ctl, charges
<1>4. DependenciesFirst'
  <2> SUFFICES ASSUME NEW s \in Steps, steps'[s] # "pending" \/ s \in waiting'
               PROVE  deps[s] \subseteq Completed'
    BY Zenon DEF DependenciesFirst
  <2>1. CASE s \in list
    BY <1>2, <2>1, SMT DEF Ready
  <2>2. CASE s \notin list
    <3>1. steps[s] # "pending"
      BY <1>2, <2>2, SMT
    <3>2. deps[s] \subseteq Completed
      BY <1>1, <3>1, Zenon DEF DependenciesFirst
    <3> QED
      BY <1>2, <3>2, Zenon
  <2> QED
    BY <2>1, <2>2, Zenon
<1>5. phase \notin Over /\ phase' \notin Over
  BY <1>2, SMT DEF Over, Charging
<1>6. Concluded'
  BY <1>1, <1>2, <1>5, Zenon DEF Concluded, Over, charges
<1>7. Outcome = "running" /\ Outcome' = "running"
  BY <1>5, Zenon DEF Outcome, Over
<1>8. Schedule!Next
  BY <1>1, <1>7, LaunchStarts, Zenon
<1> QED
  BY <1>2, <1>3, <1>4, <1>6, <1>8, Zenon DEF Kept, IInv

\* The end of the loop is the end of the schedule.
LEMMA ConcludeKeeps ==
  ASSUME IInv, phase \in {"created", "saving"}, Ready = {}, Conclude,
         UNCHANGED <<deps, spent, ctl, charges>>
  PROVE  Kept
<1>1. TypeOK /\ DependenciesFirst /\ BatchKept /\ Concluded
  BY Zenon DEF IInv
<1>2. UNCHANGED <<deps, steps, waiting, batch, spent, active, cancelling, controls, charged, billed>>
  BY Zenon DEF Conclude, ctl, charges
<1>3. \/ Completed = Steps /\ status' = "completed" /\ phase' = "tokens"
         /\ UNCHANGED <<stored, faults, totalTokens>>
      \/ /\ Completed # Steps /\ status' = "failed" /\ phase' = "closing" /\ Persist("failed")
         /\ totalTokens' = totalTokens \/ totalTokens' = Cardinality(spent)
  BY Zenon DEF Conclude, Close
<1>4. NoneRuns /\ phase \notin Over
  BY <1>1, SMT DEF TypeOK, NoneRuns, Over, Charging
<1>5. stored' \in Statuses \cup {"none"} /\ faults' \in 0..MaxFaults
  <2>1. CASE Persist("failed")
    BY <1>1, <2>1, PersistFacts, Zenon DEF Statuses
  <2>2. CASE UNCHANGED <<stored, faults>>
    BY <1>1, <2>2, Zenon DEF TypeOK
  <2> QED
    BY <1>3, <2>1, <2>2, Zenon
<1>6. totalTokens' \in Nat
  BY <1>1, <1>3, StepsCounted, Zenon DEF TypeOK
<1>7. TypeOK'
  BY <1>1, <1>2, <1>3, <1>4, <1>5, <1>6, SMT DEF TypeOK, NoneRuns, Phases, Statuses
<1>8. DependenciesFirst' /\ BatchKept'
  BY <1>1, <1>2, Zenon DEF DependenciesFirst, BatchKept, Completed
<1>9. Completed' = Completed
  BY <1>2, Zenon DEF Completed
<1>10. phase' \in Over /\ (phase' \in Charging => Completed = Steps)
  BY <1>3, SMT DEF Over, Charging
<1>11. Outcome' = status' /\ Outcome' = (IF Completed = Steps THEN "completed" ELSE "failed")
  BY <1>3, <1>9, <1>10, Zenon DEF Outcome, Over
<1>12. Concluded'
  BY <1>1, <1>2, <1>4, <1>9, <1>10, <1>11, Zenon DEF Concluded
<1>13. Schedule!End
  <2>1. Schedule!Ready = Ready /\ Schedule!CompletedIn(steps) = Completed
    BY Zenon DEF Ready, Completed, Schedule!Ready, Schedule!CompletedIn
  <2>2. Outcome = "running"
    BY <1>4, Zenon DEF Outcome, Over
  <2> QED
    BY <1>2, <1>4, <1>11, <2>1, <2>2, Zenon DEF Schedule!End, NoneRuns
<1> QED
  BY <1>7, <1>8, <1>12, <1>13, Zenon DEF Kept, IInv, Schedule!Next

\* A step of the batch ends.
LEMMA FinishKeeps ==
  ASSUME IInv, NEW s \in Steps, NEW result \in {"completed", "failed"}, FinishStep(s, result)
  PROVE  Kept
<1>1. TypeOK /\ DependenciesFirst /\ BatchKept /\ Concluded
  BY Zenon DEF IInv
<1>2. /\ steps[s] = "running"
      /\ steps' = [steps EXCEPT ![s] = result]
      /\ spent' = spent \cup {s} \/ spent' = spent
      /\ UNCHANGED <<deps, waiting, batch, phase, status, stored, faults,
                     active, cancelling, controls, totalTokens, charged, billed>>
  BY Zenon DEF FinishStep, ctl, charges
<1>3. TypeOK'
  BY <1>1, <1>2, SMT DEF TypeOK, StepStatus
<1>4. Completed \subseteq Completed'
  BY <1>1, <1>2, SMT DEF TypeOK, Completed
<1>5. DependenciesFirst'
  <2> SUFFICES ASSUME NEW q \in Steps, steps'[q] # "pending" \/ q \in waiting
               PROVE  deps[q] \subseteq Completed'
    BY <1>2, Zenon DEF DependenciesFirst
  <2>1. steps[q] # "pending" \/ q \in waiting
    BY <1>1, <1>2, SMT DEF TypeOK
  <2> QED
    BY <1>1, <1>4, <2>1, Zenon DEF DependenciesFirst
<1>6. phase = "batch" /\ phase' = "batch"
  BY <1>1, <1>2, SMT DEF TypeOK
<1>7. phase \notin Over /\ phase' \notin Over
  BY <1>6, SMT DEF Over, Charging
<1>8. Concluded'
  BY <1>1, <1>2, <1>7, Zenon DEF Concluded, Over
<1>9. Outcome' = Outcome
  BY <1>7, Zenon DEF Outcome, Over
<1>10. Schedule!Finish(s, result)
  BY <1>2, <1>9, Zenon DEF Schedule!Finish
<1> QED
  BY <1>1, <1>2, <1>3, <1>5, <1>8, <1>10, Zenon DEF Kept, IInv, BatchKept, Schedule!Next

\* A batch has ended: the next one is launched, or the loop persists.
LEMMA SettleKeeps ==
  ASSUME IInv, Settle
  PROVE  Kept
<1>1. TypeOK /\ DependenciesFirst /\ BatchKept /\ Concluded
  BY Zenon DEF IInv
<1>2. phase = "batch" /\ NoneRuns /\ UNCHANGED <<deps, spent, ctl, charges>>
  BY <1>1, Idle, Zenon DEF Settle
<1>3. CASE Launch(waiting)
  <2>1. waiting \in SUBSET Ready
    BY <1>1, WaitingReady, Zenon
  <2> QED
    BY <1>2, <1>3, <2>1, LaunchKeeps, SMT
<1>4. CASE ~Launch(waiting)
  <2>1. /\ waiting = {} /\ batch' = {} /\ phase' = "saving" /\ Persist(status)
        /\ UNCHANGED <<steps, waiting, status, totalTokens>>
    BY <1>4, Zenon DEF Settle
  <2>2. stored' \in Statuses \cup {"none"} /\ faults' \in 0..MaxFaults
    BY <1>1, <2>1, PersistFacts, Zenon DEF TypeOK
  <2>3. TypeOK'
    BY <1>1, <1>2, <2>1, <2>2, SMT DEF TypeOK, NoneRuns, Phases, ctl, charges
  <2>4. DependenciesFirst' /\ Completed' = Completed
    BY <1>1, <1>2, <2>1, Zenon DEF DependenciesFirst, Completed
  <2>5. BatchKept'
    BY <2>1, FS_EmptySet, WorkflowAssumption, SMT DEF BatchKept
  <2>6. phase \notin Over /\ phase' \notin Over
    BY <1>2, <2>1, SMT DEF Over, Charging
  <2>7. Concluded'
    BY <1>1, <1>2, <2>1, <2>6, Zenon DEF Concluded, Over, charges
  <2>8. Outcome' = Outcome
    BY <2>1, <2>6, OutcomeKept, Zenon
  <2> QED
    BY <1>2, <2>1, <2>3, <2>4, <2>5, <2>7, <2>8, Zenon DEF Kept, IInv
<1> QED
  BY <1>3, <1>4

\* What moves on among the charges and the last persisting: the steps stand still.
LEMMA OverKeeps ==
  ASSUME IInv, phase \in Over, phase' \in Over,
         phase' \in Charging => phase \in Charging,
         charged' \subseteq charged \cup {phase}, phase \notin Charging => charged' = charged,
         charged' \subseteq Charging,
         stored' \in Statuses \cup {"none"}, faults' \in 0..MaxFaults,
         active' \in BOOLEAN, totalTokens' \in Nat, billed' \in Nat,
         UNCHANGED <<deps, steps, waiting, batch, status, cancelling, spent, controls>>
  PROVE  Kept
<1>1. TypeOK /\ DependenciesFirst /\ BatchKept /\ Concluded
  BY Zenon DEF IInv
<1>2. Over \subseteq Phases /\ "batch" \notin Over
  BY SMT DEF Over, Charging, Phases
<1>3. \A s \in Steps : steps'[s] = "running" => s \in batch' /\ phase' = "batch"
  BY <1>1, <1>2, Zenon DEF TypeOK
<1>4. waiting' \subseteq { s \in Steps : steps'[s] = "pending" }
  BY <1>1, Zenon DEF TypeOK
<1>5. TypeOK'
  BY <1>1, <1>2, <1>3, <1>4, Zenon DEF TypeOK
<1>6. DependenciesFirst' /\ BatchKept' /\ Completed' = Completed
  BY <1>1, Zenon DEF DependenciesFirst, BatchKept, Completed
<1>7. Outcome' = Outcome
  BY OutcomeKept, Zenon
<1>8. charged' # {} => Completed = Steps
  BY <1>1, SMT DEF Concluded
<1>9. Concluded'
  BY <1>1, <1>6, <1>7, <1>8, Zenon DEF Concluded
<1> QED
  BY <1>5, <1>6, <1>7, <1>9, Zenon DEF Kept, IInv

\* A charge is made.
LEMMA ChargeKeeps ==
  ASSUME IInv, Charge
  PROVE  Kept
<1>1. TypeOK /\ Cardinality(spent) \in Nat
  BY StepsCounted, Zenon DEF IInv, TypeOK
<1>2. /\ phase \in Charging
      /\ charged' = charged \cup {phase}
      /\ billed' = totalTokens \/ billed' = billed
      /\ UNCHANGED <<deps, steps, waiting, batch, spent, active, cancelling, controls>>
  BY Zenon DEF Charge, ctl
<1>3. \/ totalTokens' = Cardinality(spent) /\ Close(status)
      \/ /\ phase # "traces" /\ phase' = AfterCharge[phase]
         /\ UNCHANGED <<status, stored, faults, totalTokens>>
  BY Zenon DEF Charge
<1>4. stored' \in Statuses \cup {"none"} /\ faults' \in 0..MaxFaults /\ totalTokens' \in Nat
      /\ status' = status
  <2>1. CASE Close(status)
    <3>1. stored' \in Statuses \cup {"none"} /\ faults' \in 0..MaxFaults
      BY <1>1, <2>1, PersistFacts, Zenon DEF TypeOK, Close
    <3>2. status' = status
      BY <2>1, Zenon DEF Close
    <3> QED
      BY <1>1, <1>3, <3>1, <3>2, Zenon DEF TypeOK
  <2>2. CASE ~Close(status)
    BY <1>1, <1>3, <2>2, Zenon DEF TypeOK
  <2> QED
    BY <2>1, <2>2
<1>5. phase' \in Over /\ phase \in Over
  <2>1. CASE Close(status)
    BY <1>2, <2>1, SMT DEF Close, Over
  <2>2. CASE ~Close(status)
    <3>1. phase = "tokens" \/ phase = "request"
      BY <1>2, <1>3, <2>2, Zenon DEF Charging
    <3>2. AfterCharge["tokens"] = "request" /\ AfterCharge["request"] = "traces"
      BY SMT DEF AfterCharge
    <3> QED
      BY <1>2, <1>3, <2>2, <3>1, <3>2, Zenon DEF Over, Charging
  <2> QED
    BY <2>1, <2>2
<1>6. charged' \subseteq Charging /\ active' \in BOOLEAN /\ billed' \in Nat
  <2>1. charged' \subseteq Charging
    BY <1>1, <1>2, SMT DEF TypeOK
  <2> QED
    BY <1>1, <1>2, <2>1, Zenon DEF TypeOK
<1>7. charged' \subseteq charged \cup {phase}
  BY <1>2, Zenon
<1> QED
  BY <1>2, <1>4, <1>5, <1>6, <1>7, OverKeeps, Zenon

\* A charge throws.
LEMMA ChargeFailsKeeps ==
  ASSUME IInv, ChargeFails
  PROVE  Kept
<1>1. TypeOK /\ Cardinality(spent) \in Nat
  BY StepsCounted, Zenon DEF IInv, TypeOK
<1>2. /\ phase \in Charging /\ Close(status) /\ totalTokens' \in Nat
      /\ UNCHANGED <<deps, steps, waiting, batch, spent, active, cancelling, controls,
                     charged, billed>>
  BY <1>1, Zenon DEF ChargeFails, ctl
<1>3. stored' \in Statuses \cup {"none"} /\ faults' \in 0..MaxFaults /\ status' = status
  BY <1>1, <1>2, PersistFacts, Zenon DEF TypeOK, Close
<1>4. phase \in Over /\ phase' \in Over
  BY <1>2, SMT DEF Close, Over
<1>5. charged' \subseteq Charging /\ active' \in BOOLEAN /\ billed' \in Nat
  BY <1>1, <1>2, Zenon DEF TypeOK
<1>6. charged' \subseteq charged \cup {phase}
  BY <1>2, Zenon
<1> QED
  BY <1>2, <1>3, <1>4, <1>5, <1>6, OverKeeps, Zenon

\* The execution leaves activeExecutions.
LEMMA EndKeeps ==
  ASSUME IInv, End
  PROVE  Kept
<1>1. TypeOK
  BY Zenon DEF IInv
<1>2. /\ phase = "closing" /\ phase' = "ended" /\ active' = FALSE
      /\ UNCHANGED <<deps, steps, waiting, batch, status, stored, cancelling, spent,
                     totalTokens, charged, billed, controls, faults>>
  BY Zenon DEF End, charges
<1>3. phase \in Over /\ phase' \in Over /\ phase' \notin Charging
  BY <1>2, SMT DEF Over, Charging
<1>4. /\ charged' \subseteq Charging /\ active' \in BOOLEAN /\ billed' \in Nat
      /\ totalTokens' \in Nat
      /\ stored' \in Statuses \cup {"none"} /\ faults' \in 0..MaxFaults
  BY <1>1, <1>2, Zenon DEF TypeOK
<1>5. charged' \subseteq charged \cup {phase}
  BY <1>2, Zenon
<1> QED
  BY <1>2, <1>3, <1>4, <1>5, OverKeeps, Zenon

\* A control overwrites the status, never with an outcome.
LEMMA ControlKeeps ==
  ASSUME IInv, NEW st \in {"paused", "running", "cancelled"}, Controlled(st),
         cancelling' \in BOOLEAN
  PROVE  Kept
<1>1. TypeOK /\ DependenciesFirst /\ BatchKept /\ Concluded
  BY Zenon DEF IInv
<1>2. /\ controls < MaxControls /\ controls' = controls + 1 /\ status' = st /\ Persist(st)
      /\ UNCHANGED <<deps, steps, waiting, batch, phase, active, spent, totalTokens,
                     charged, billed>>
  BY Zenon DEF Controlled, charges
<1>3. st \in Statuses /\ st \notin {"completed", "failed"}
  BY SMT DEF Statuses
<1>4. stored' \in Statuses \cup {"none"} /\ faults' \in 0..MaxFaults
  BY <1>1, <1>2, <1>3, PersistFacts, Zenon
<1>5. controls' \in 0..MaxControls
  BY <1>1, <1>2, WorkflowAssumption, SMT DEF TypeOK
<1>6. TypeOK'
  BY <1>1, <1>2, <1>3, <1>4, <1>5, Zenon DEF TypeOK
<1>7. DependenciesFirst' /\ BatchKept' /\ Completed' = Completed
  BY <1>1, <1>2, Zenon DEF DependenciesFirst, BatchKept, Completed
<1>8. Outcome' = Outcome
  BY <1>2, OutcomeKept, Zenon
<1>9. Concluded'
  BY <1>1, <1>2, <1>3, <1>7, Zenon DEF Concluded
<1> QED
  BY <1>2, <1>6, <1>7, <1>8, <1>9, Zenon DEF Kept, IInv

\* Steps that change nothing but membership in activeExecutions.
LEMMA FinishCancelKeeps ==
  ASSUME IInv, FinishCancel
  PROVE  Kept
<1>1. TypeOK /\ DependenciesFirst /\ BatchKept /\ Concluded
  BY Zenon DEF IInv
<1>2. /\ cancelling' = FALSE /\ active' = FALSE
      /\ UNCHANGED <<deps, steps, waiting, batch, phase, status, stored, spent, totalTokens,
                     charged, billed, controls, faults>>
  BY Zenon DEF FinishCancel, charges
<1>3. TypeOK'
  BY <1>1, <1>2, Zenon DEF TypeOK
<1>4. DependenciesFirst' /\ BatchKept' /\ Completed' = Completed
  BY <1>1, <1>2, Zenon DEF DependenciesFirst, BatchKept, Completed
<1>5. Outcome' = Outcome
  BY <1>2, OutcomeKept, Zenon
<1>6. Concluded'
  BY <1>1, <1>2, <1>4, <1>5, Zenon DEF Concluded
<1> QED
  BY <1>2, <1>3, <1>4, <1>5, <1>6, Zenon DEF Kept, IInv

LEMMA StepKept ==
  IInv /\ [Next]_vars => IInv' /\ [Schedule!Next]_(Schedule!vars)
<1> SUFFICES ASSUME IInv, [Next]_vars
             PROVE  IInv' /\ [Schedule!Next]_(Schedule!vars)
  OBVIOUS
<1>0. ASSUME Kept PROVE IInv' /\ [Schedule!Next]_(Schedule!vars)
  BY <1>0, Zenon DEF Kept, Schedule!vars
<1>1. CASE Continue
  <2>1. /\ phase \in {"created", "saving"} /\ UNCHANGED <<deps, spent, ctl, charges>>
        /\ Launch(Ready) \/ (Ready = {} /\ Conclude)
    BY <1>1, Zenon DEF Continue, Select
  <2>2. CASE Launch(Ready)
    <3>1. NoneRuns
      BY <2>1, Idle, SMT DEF IInv
    <3>2. Kept
      BY <2>1, <2>2, <3>1, LaunchKeeps, SMT
    <3> QED
      BY <1>0, <3>2
  <2>3. CASE Ready = {} /\ Conclude
    BY <1>0, <2>1, <2>3, ConcludeKeeps, Zenon
  <2> QED
    BY <2>1, <2>2, <2>3
<1>2. CASE Settle
  BY <1>0, <1>2, SettleKeeps, Zenon
<1>3. CASE Charge
  BY <1>0, <1>3, ChargeKeeps, Zenon
<1>4. CASE ChargeFails
  BY <1>0, <1>4, ChargeFailsKeeps, Zenon
<1>5. CASE End
  BY <1>0, <1>5, EndKeeps, Zenon
<1>6. ASSUME NEW s \in Steps, NEW result \in {"completed", "failed"}, FinishStep(s, result)
      PROVE  Kept
  BY <1>6, FinishKeeps, Zenon
<1>7. CASE PauseWorkflow \/ ResumeWorkflow \/ CancelWorkflow
  <2>1. PICK st \in {"paused", "running", "cancelled"} :
          Controlled(st) /\ cancelling' \in {cancelling, TRUE}
    BY <1>7, Zenon DEF PauseWorkflow, ResumeWorkflow, CancelWorkflow
  <2>2. cancelling' \in BOOLEAN
    BY <2>1, Zenon DEF IInv, TypeOK
  <2>3. Kept
    BY <2>1, <2>2, ControlKeeps, Zenon
  <2> QED
    BY <1>0, <2>3
<1>8. CASE FinishCancel
  BY <1>0, <1>8, FinishCancelKeeps, Zenon
<1>9. CASE UNCHANGED vars
  <2>1. UNCHANGED <<deps, steps, waiting, batch, phase, status, active, stored, cancelling,
                    spent, totalTokens, charged, billed, controls, faults>>
    BY <1>9, Zenon DEF vars
  <2>2. TypeOK' /\ DependenciesFirst' /\ BatchKept' /\ Completed' = Completed
    BY <2>1, Zenon DEF IInv, TypeOK, DependenciesFirst, BatchKept, Completed
  <2>3. Outcome' = Outcome
    BY <2>1, OutcomeKept, Zenon
  <2>4. Concluded'
    BY <2>1, <2>2, <2>3, Zenon DEF IInv, Concluded
  <2>5. Kept
    BY <2>1, <2>2, <2>3, <2>4, Zenon DEF Kept, IInv
  <2> QED
    BY <1>0, <2>5
<1> QED
  BY <1>0, <1>1, <1>2, <1>3, <1>4, <1>5, <1>6, <1>7, <1>8, <1>9, Zenon DEF Next, Run

LEMMA InitKept ==
  Init => IInv /\ Schedule!Init
<1> SUFFICES ASSUME Init PROVE IInv /\ Schedule!Init
  OBVIOUS
<1>1. TypeOK
  <2>1. faults \in 0..MaxFaults /\ controls \in 0..MaxControls
    BY WorkflowAssumption, SMT DEF Init
  <2>2. /\ steps \in [Steps -> StepStatus]
        /\ stored \in Statuses \cup {"none"} /\ status \in Statuses /\ phase \in Phases
        /\ totalTokens \in Nat /\ billed \in Nat
        /\ \A s \in Steps : steps[s] # "running"
    BY SMT DEF Init, StepStatus, Phases, Statuses
  <2>3. active \in BOOLEAN /\ cancelling \in BOOLEAN
    BY Zenon DEF Init
  <2>4. /\ deps \in Templates /\ batch \subseteq Steps /\ spent \subseteq Steps
        /\ waiting \subseteq { s \in Steps : steps[s] = "pending" }
        /\ charged \subseteq Charging
    BY Zenon DEF Init
  <2> QED
    BY <2>1, <2>2, <2>3, <2>4, Zenon DEF TypeOK
<1>2. DependenciesFirst
  BY SMT DEF Init, DependenciesFirst
<1>3. BatchKept
  BY FS_EmptySet, WorkflowAssumption, SMT DEF Init, BatchKept
<1>4. phase \notin Over
  BY SMT DEF Init, Over, Charging
<1>5. Concluded
  BY <1>4, SMT DEF Init, Concluded, Over
<1>6. Outcome = "running"
  BY <1>4, Zenon DEF Outcome, Over
<1> QED
  BY <1>1, <1>2, <1>3, <1>5, <1>6, Zenon DEF IInv, Init, Schedule!Init

-----------------------------------------------------------------------------
(* The theorems *)

\* The invariant, and the implementation of the schedule, hold of every behaviour.
LEMMA Invariance == Spec => []IInv
<1>1. Init => IInv
  BY InitKept
<1>2. IInv /\ [Next]_vars => IInv'
  BY StepKept
<1> QED
  BY <1>1, <1>2, PTL DEF Spec

\* Every variable keeps its type; only steps of the awaited batch run.
THEOREM TypeCorrect == Spec => []TypeOK
<1>1. IInv => TypeOK
  BY Zenon DEF IInv
<1> QED
  BY <1>1, Invariance, PTL

\* No step of executeStep leaves "pending" before its dependencies completed.
THEOREM DependenciesComeFirst == Spec => []DependenciesFirst
<1>1. IInv => DependenciesFirst
  BY Zenon DEF IInv
<1> QED
  BY <1>1, Invariance, PTL

\* No more than settings.parallelism steps of an execution run at a time.
THEOREM ParallelismBounded == Spec => []ParallelismKept
<1>1. IInv => ParallelismKept
  <2> SUFFICES ASSUME IInv PROVE ParallelismKept
    OBVIOUS
  <2> DEFINE running == { s \in Steps : steps[s] = "running" }
  <2>1. running \subseteq batch /\ batch \subseteq Steps
    BY SMT DEF IInv, TypeOK
  <2>2. IsFiniteSet(batch) /\ Cardinality(batch) \in Nat
    BY <2>1, StepsCounted, Zenon
  <2>3. Cardinality(running) \in Nat
    BY StepsCounted, Zenon
  <2>4. Cardinality(running) <= Cardinality(batch)
    BY <2>1, <2>2, FS_Subset, Zenon
  <2>5. Cardinality(batch) <= Parallelism
    BY Zenon DEF IInv, BatchKept
  <2> HIDE DEF running
  <2>6. Cardinality(running) <= Parallelism
    BY <2>2, <2>3, <2>4, <2>5, WorkflowAssumption, SMT
  <2> QED
    BY <2>6, Zenon DEF running, ParallelismKept
<1> QED
  BY <1>1, Invariance, PTL

\* Whatever pause, resume and cancel do to the status: what it reports of the end
\* is true, and only completed executions are charged.
THEOREM OutcomeReported == Spec => []ReportedOutcome
<1>1. IInv => ReportedOutcome
  <2> SUFFICES ASSUME IInv PROVE ReportedOutcome
    OBVIOUS
  <2>1. charged # {} => Outcome = "completed"
    BY Zenon DEF IInv, Concluded, Outcome, Over
  <2> QED
    BY <2>1, Zenon DEF IInv, Concluded, ReportedOutcome
<1> QED
  BY <1>1, Invariance, PTL

\* The run and the controls overwrite each other's status, but each of them stores
\* the status it sets: without a refused write, Redis has the last one in the end.
THEOREM StoredLast == Spec => []StoredInTheEnd
<1> DEFINE Inv == phase \in {"closing", "ended"} /\ faults = 0 => stored = status
<1>1. Init => Inv
  BY SMT DEF Init
<1>2. IInv /\ Inv /\ [Next]_vars => Inv'
  <2> SUFFICES ASSUME IInv, Inv, [Next]_vars PROVE Inv'
    OBVIOUS
  <2>1. faults \in Nat
    BY SMT DEF IInv, TypeOK
  <2>2. ASSUME NEW st, Persist(st), status' = st PROVE Inv'
    BY <2>1, <2>2, SMT DEF Persist
  <2>3. CASE Continue
    <3>1. CASE Launch(Ready)
      <4>1. phase' = "batch"
        BY <3>1, Zenon DEF Launch
      <4> QED BY <4>1, SMT
    <3>2. CASE Conclude
      <4>1. phase' = "tokens" \/ Close("failed")
        BY <3>2, Zenon DEF Conclude
      <4> QED BY <2>2, <4>1, SMT DEF Close
    <3> QED BY <2>3, <3>1, <3>2, Zenon DEF Continue, Select
  <2>4. CASE Settle
    <3>1. phase' \in {"batch", "saving"}
      BY <2>4, SMT DEF Settle, Launch
    <3> QED BY <3>1, SMT
  <2>5. CASE Charge
    <3>1. phase' \in Charging \/ Close(status)
      <4>1. CASE phase = "traces"
        BY <2>5, <4>1, Zenon DEF Charge
      <4>2. CASE phase # "traces"
        BY <2>5, <4>2, SMT DEF Charge, AfterCharge, Charging
      <4> QED BY <4>1, <4>2
    <3> QED BY <2>2, <3>1, SMT DEF Close, Charging
  <2>6. CASE ChargeFails
    BY <2>2, <2>6, Zenon DEF ChargeFails, Close
  <2>7. CASE End \/ FinishCancel
    BY <2>7, SMT DEF End, FinishCancel
  <2>8. ASSUME NEW s \in Steps, NEW result \in {"completed", "failed"}, FinishStep(s, result)
        PROVE  Inv'
    <3>1. UNCHANGED <<phase, status, stored, faults>>
      BY <2>8, Zenon DEF FinishStep
    <3> QED BY <3>1
  <2>9. CASE PauseWorkflow \/ ResumeWorkflow \/ CancelWorkflow
    BY <2>2, <2>9, Zenon DEF PauseWorkflow, ResumeWorkflow, CancelWorkflow, Controlled
  <2>10. CASE UNCHANGED vars
    BY <2>10, Zenon DEF vars
  <2> QED
    BY <2>3, <2>4, <2>5, <2>6, <2>7, <2>8, <2>9, <2>10, Zenon DEF Next, Run
<1>3. Inv => StoredInTheEnd
  BY SMT DEF StoredInTheEnd
<1> QED
  BY <1>1, <1>2, <1>3, Invariance, PTL DEF Spec

\* runWorkflowExecution with its batches and the user's controls takes only steps
\* of the abstract schedule.
THEOREM SchedulesFaithfully == Spec => Schedule!Safety
<1>1. Init => Schedule!Init
  BY InitKept
<1>2. IInv /\ [Next]_vars => [Schedule!Next]_(Schedule!vars)
  BY StepKept
<1> QED
  BY <1>1, <1>2, Invariance, PTL DEF Spec, Schedule!Safety

-----------------------------------------------------------------------------
(* What is charged *)

\* consumeTokens is called with metadata.totalTokens (workflow-orchestrator.service.ts:529)
\* before calculateExecutionMetrics fills it (546): whatever its steps used, no
\* execution is ever charged a token.
THEOREM TokensNeverCharged == Spec => [](billed = 0)
<1> DEFINE Inv == billed = 0 /\ (phase \notin {"closing", "ended"} => totalTokens = 0)
<1>1. Init => Inv
  BY SMT DEF Init
<1>2. Inv /\ [Next]_vars => Inv'
  <2> SUFFICES ASSUME Inv, [Next]_vars PROVE Inv'
    OBVIOUS
  <2>1. CASE Continue
    <3>0. billed' = billed /\ phase \in {"created", "saving"}
      BY <2>1, Zenon DEF Continue, charges
    <3>1. CASE Launch(Ready)
      <4>1. totalTokens' = totalTokens
        BY <3>1, Zenon DEF Launch
      <4> QED BY <3>0, <4>1, SMT
    <3>2. CASE Conclude
      <4>1. totalTokens' = totalTokens \/ phase' = "closing"
        BY <3>2, Zenon DEF Conclude, Close
      <4> QED BY <3>0, <4>1, SMT
    <3> QED BY <2>1, <3>1, <3>2, Zenon DEF Continue, Select
  <2>2. CASE Settle
    <3>1. billed' = billed /\ phase = "batch" /\ totalTokens' = totalTokens
      BY <2>2, Zenon DEF Settle, Launch, charges
    <3> QED BY <3>1, SMT
  <2>3. CASE Charge
    <3>1. phase \notin {"closing", "ended"}
      BY <2>3, Zenon DEF Charge, Charging
    <3>2. billed' = totalTokens \/ billed' = billed
      BY <2>3, Zenon DEF Charge
    <3>3. phase' = "closing" \/ totalTokens' = totalTokens
      BY <2>3, Zenon DEF Charge, Close
    <3> QED BY <3>1, <3>2, <3>3, SMT
  <2>4. CASE ChargeFails
    <3>1. billed' = billed /\ phase' = "closing"
      BY <2>4, Zenon DEF ChargeFails, Close
    <3> QED BY <3>1
  <2>5. CASE End \/ FinishCancel
    <3>1. /\ billed' = billed /\ totalTokens' = totalTokens
          /\ phase = phase' \/ phase' = "ended"
      BY <2>5, Zenon DEF End, FinishCancel, charges
    <3> QED BY <3>1
  <2>6. ASSUME NEW s \in Steps, NEW result \in {"completed", "failed"}, FinishStep(s, result)
        PROVE  Inv'
    <3>1. UNCHANGED <<phase, totalTokens, billed>>
      BY <2>6, Zenon DEF FinishStep, charges
    <3> QED BY <3>1
  <2>7. CASE PauseWorkflow \/ ResumeWorkflow \/ CancelWorkflow
    <3>1. UNCHANGED <<phase, totalTokens, billed>>
      BY <2>7, Zenon DEF PauseWorkflow, ResumeWorkflow, CancelWorkflow, Controlled, charges
    <3> QED BY <3>1
  <2>8. CASE UNCHANGED vars
    <3>1. UNCHANGED <<phase, totalTokens, billed>>
      BY <2>8, Zenon DEF vars, charges
    <3> QED BY <3>1
  <2> QED
    BY <2>1, <2>2, <2>3, <2>4, <2>5, <2>6, <2>7, <2>8, Zenon DEF Next, Run
<1> QED
  BY <1>1, <1>2, PTL DEF Spec
=============================================================================
