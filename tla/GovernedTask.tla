---------------------------- MODULE GovernedTask ----------------------------
(***************************************************************************)
(* A governed task (src/src/modules/governed-agent): one MongoDB document  *)
(* that the analysis of its scope, the generation of its plan, any number  *)
(* of executions of it and its user's requests all load, think about, and  *)
(* save.  A save writes the fields that differ from what was loaded, so    *)
(* handlers overwrite each other field by field.  An action is the code    *)
(* between two awaits, that is one database command or one answer of a     *)
(* model or tool.                                                          *)
(***************************************************************************)
EXTENDS Naturals

CONSTANTS
    Calls,        \* bound: handlers running at once
    Plans,        \* the plans the generator or a modification may come up with
    NoPlan,
    Size,         \* the number of steps of a plan, numbered across its phases
    Heads,        \* the steps a phase starts with
    Critical,     \* the steps of phases of high risk
    Needs,        \* the steps each step depends on
    MaxRequests,  \* bound: requests of the user
    MaxFaults     \* bound: database commands that throw, and deaths of processes

ASSUME GovernedAssumption ==
    /\ NoPlan \notin Plans
    /\ Size \in [Plans -> Nat]
    /\ Heads \in [Plans -> SUBSET Nat]
    /\ Critical \in [Plans -> SUBSET Nat]
    /\ \A p \in Plans : Needs[p] \in [1..Size[p] -> SUBSET Nat]
    /\ MaxRequests \in Nat
    /\ MaxFaults \in Nat

VARIABLES
    route,     \* classification.route, "none" until the task is created
    task,      \* the mode, status and plan of the document
    calls,     \* the handlers in flight
    requests, faults,
    lost,      \* history: a fault kept the end of a handler from being stored
    approved,  \* history: a request of the user has taken the task from PLAN to BUILD
    ranThrough,  \* history: an execution came to the end of its plan
    late       \* history: steps an execution began since the task is cancelled

vars == <<route, task, calls, requests, faults, lost, approved, ranThrough, late>>

-----------------------------------------------------------------------------
(* Data *)

Modes == {"SCOPE", "CLARIFY", "PLAN", "BUILD", "VERIFY", "DONE"}
Before == [SCOPE |-> 1, CLARIFY |-> 2, PLAN |-> 3, BUILD |-> 4, VERIFY |-> 5, DONE |-> 6]
Statuses == {"pending", "in_progress", "completed", "failed", "cancelled"}

Task == [mode : Modes, status : Statuses, plan : Plans \cup {NoPlan}]
NewTask == [mode |-> "SCOPE", status |-> "pending", plan |-> NoPlan]

\* An execution that has started: it found nothing to stop it since.
Loop == {"phase", "check", "ready", "running", "recording", "breaking", "verifying",
         "closing", "reclosing"}
Stages == Loop \cup
    {"idle", "directing", "scoping", "analysing", "answering", "planning",
     "generating", "failing", "modifying", "building", "starting", "excepting", "excepted",
     "cancelling", "returning", "navigating"}

\* `base` is the document as loaded or last saved; `at` and `done` are the
\* stepIndex and completedSteps of an execution, `target` where to navigate.
Call == [stage : Stages, base : Task, at : Nat, done : SUBSET Nat, target : Modes]
Idle == [stage |-> "idle", base |-> NewTask, at |-> 0, done |-> {}, target |-> "SCOPE"]

\* An execution is at a step of a plan it has.
InPlan(call) ==
    /\ call.stage \in Loop \cup {"starting"} => call.base.plan \in Plans
    /\ call.stage \in {"phase", "check", "ready", "running", "recording", "breaking"} =>
          call.at \in 1..Size[call.base.plan]

TypeOK ==
    /\ route \in {"none", "direct", "governed"}
    /\ task \in Task
    /\ calls \in [Calls -> Call]
    /\ requests \in Nat /\ faults \in Nat
    /\ lost \in BOOLEAN /\ approved \in BOOLEAN /\ ranThrough \in BOOLEAN
    /\ late \in [Calls -> Nat]
    /\ \A c \in Calls : InPlan(calls[c])

Init ==
    /\ route = "none"
    /\ task = NewTask
    /\ calls = [c \in Calls |-> Idle]
    /\ requests = 0 /\ faults = 0
    /\ lost = FALSE /\ approved = FALSE /\ ranThrough = FALSE
    /\ late = [c \in Calls |-> 0]

-----------------------------------------------------------------------------
(* Shared steps *)

Becomes(c, call) == calls' = [calls EXCEPT ![c] = call]
Goes(c, stage) == Becomes(c, [calls[c] EXCEPT !.stage = stage])
Loaded(c, stage) == Becomes(c, [Idle EXCEPT !.stage = stage, !.base = task])
End(c) == Becomes(c, Idle)

\* document.save(): the fields the handler changed since it loaded or saved.
Merged(base, new) ==
    [mode   |-> IF new.mode = base.mode THEN task.mode ELSE new.mode,
     status |-> IF new.status = base.status THEN task.status ELSE new.status,
     plan   |-> IF new.plan = base.plan THEN task.plan ELSE new.plan]

\* Steps begun are counted as long as the task stays cancelled.
Stored(new) ==
    /\ task' = new
    /\ late' = IF new.status = "cancelled" THEN late ELSE [c \in Calls |-> 0]

Save(c, new) == Stored(Merged(calls[c].base, new))

Fault == faults < MaxFaults /\ faults' = faults + 1
NoFault == UNCHANGED <<faults, lost>>
Request == requests < MaxRequests /\ requests' = requests + 1

Untouched == UNCHANGED <<task, late>>
Rest == UNCHANGED <<route, requests, approved, ranThrough>>

\* A request's handler loads the task first; an exception there is only answered.
Arrives(c) ==
    /\ calls[c].stage = "idle"
    /\ route # "none"
    /\ Request

-----------------------------------------------------------------------------
(* initiateTask and analyzeScope *)

Create(c) ==
    /\ route = "none"
    /\ route' \in {"direct", "governed"}
    /\ Loaded(c, IF route' = "direct" THEN "directing" ELSE "scoping")
    /\ Untouched /\ NoFault /\ UNCHANGED <<requests, approved, ranThrough>>

\* The direct route is put in progress, and left at that.
Direct(c) ==
    /\ calls[c].stage = "directing"
    /\ \/ /\ Save(c, [calls[c].base EXCEPT !.mode = "BUILD", !.status = "in_progress"])
          /\ NoFault
       \/ Fault /\ Untouched /\ UNCHANGED lost
    /\ End(c)
    /\ Rest

LoadScope(c) ==
    /\ calls[c].stage = "scoping"
    /\ \/ task.mode = "SCOPE" /\ Loaded(c, "analysing") /\ NoFault
       \/ task.mode # "SCOPE" /\ Goes(c, "failing") /\ NoFault
       \/ Fault /\ Goes(c, "failing") /\ UNCHANGED lost
    /\ Untouched /\ Rest

\* The model has questions, or integrations are missing; else planning starts.
SaveScope(c) ==
    /\ calls[c].stage = "analysing"
    /\ \/ /\ Save(c, [calls[c].base EXCEPT !.mode = "CLARIFY"])
          /\ End(c) /\ NoFault
       \/ /\ Save(c, [calls[c].base EXCEPT !.mode = "PLAN"])
          /\ Becomes(c, [Idle EXCEPT !.stage = "planning"]) /\ NoFault
       \/ Fault /\ Goes(c, "failing") /\ Untouched /\ UNCHANGED lost
    /\ Rest

-----------------------------------------------------------------------------
(* submitClarifyingAnswers and generatePlan *)

Answer(c) ==
    /\ Arrives(c)
    /\ task.mode = "CLARIFY"
    /\ Loaded(c, "answering")
    /\ NoFault /\ Untouched /\ UNCHANGED <<route, approved, ranThrough>>

SaveAnswers(c) ==
    /\ calls[c].stage = "answering"
    /\ \/ /\ Save(c, [calls[c].base EXCEPT !.mode = "PLAN"])
          /\ Becomes(c, [Idle EXCEPT !.stage = "planning"]) /\ NoFault
       \/ Fault /\ End(c) /\ Untouched /\ UNCHANGED lost
    /\ Rest

\* request-plan, request-changes and generate-plan call generatePlan again.
RequestPlan(c) ==
    /\ Arrives(c)
    /\ Becomes(c, [Idle EXCEPT !.stage = "planning"])
    /\ NoFault /\ Untouched /\ UNCHANGED <<route, approved, ranThrough>>

LoadForPlan(c) ==
    /\ calls[c].stage = "planning"
    /\ \/ task.mode = "PLAN" /\ Loaded(c, "generating") /\ NoFault
       \/ task.mode # "PLAN" /\ Goes(c, "failing") /\ NoFault
       \/ Fault /\ Goes(c, "failing") /\ UNCHANGED lost
    /\ Untouched /\ Rest

\* The generator answers or throws.  The mode is what it was when loaded.
SavePlan(c) ==
    /\ calls[c].stage = "generating"
    /\ \/ /\ \E p \in Plans :
                Save(c, [calls[c].base EXCEPT !.plan = p, !.status = "pending"])
          /\ End(c) /\ NoFault
       \/ Goes(c, "failing") /\ Untouched /\ NoFault
       \/ Fault /\ Goes(c, "failing") /\ Untouched /\ UNCHANGED lost
    /\ Rest

\* The catch of analyzeScope and generatePlan: findOneAndUpdate.
MarkFailed(c) ==
    /\ calls[c].stage = "failing"
    /\ \/ Stored([task EXCEPT !.status = "failed"]) /\ NoFault
       \/ Fault /\ Untouched /\ UNCHANGED lost
    /\ End(c)
    /\ Rest

ModifyPlan(c) ==
    /\ Arrives(c)
    /\ task.mode = "PLAN"
    /\ Loaded(c, "modifying")
    /\ NoFault /\ Untouched /\ UNCHANGED <<route, approved, ranThrough>>

\* Steps are edited in place: if the plan has been replaced or edited since, the save may
\* also throw Mongoose's VersionError.
SaveModified(c) ==
    /\ calls[c].stage = "modifying"
    /\ \/ /\ calls[c].base.plan # NoPlan
          /\ \E p \in Plans : Save(c, [calls[c].base EXCEPT !.plan = p])
          /\ NoFault
       \/ calls[c].base.plan = NoPlan /\ Untouched /\ NoFault
       \/ task.plan # calls[c].base.plan /\ Untouched /\ NoFault
       \/ Fault /\ Untouched /\ UNCHANGED lost
    /\ End(c)
    /\ Rest

-----------------------------------------------------------------------------
(* executePlan *)

Approve(c) ==
    /\ Arrives(c)
    /\ \/ task.mode = "PLAN" /\ Loaded(c, "building") /\ NoFault
       \/ /\ task.mode = "BUILD"
          /\ Loaded(c, IF task.plan = NoPlan THEN "excepting" ELSE "starting")
          /\ NoFault
       \/ task.mode \notin {"PLAN", "BUILD"} /\ Loaded(c, "excepting") /\ NoFault
    /\ Untouched /\ UNCHANGED <<route, approved, ranThrough>>

Excepts(c) == Fault /\ Goes(c, "excepting") /\ Untouched /\ UNCHANGED lost

\* PLAN becomes BUILD, before the code looks for a plan.
SaveBuild(c) ==
    LET built == [calls[c].base EXCEPT !.mode = "BUILD"] IN
    /\ calls[c].stage = "building"
    /\ \/ /\ Save(c, built)
          /\ Becomes(c, [calls[c] EXCEPT !.base = built,
                !.stage = IF built.plan = NoPlan THEN "excepting" ELSE "starting"])
          /\ approved' = TRUE /\ NoFault
       \/ Excepts(c) /\ UNCHANGED approved
    /\ UNCHANGED <<route, requests, ranThrough>>

\* Where the loops over phases and steps go on: the status is read before each
\* phase and before each step.
\* (Mutants: one step too many; no check before a step.)
LoopAtLong(plan, at) ==
    IF at > Size[plan] + 1 THEN "verifying" ELSE IF at \in Heads[plan] THEN "phase" ELSE "check"
LoopAtUnchecked(plan, at) ==
    IF at > Size[plan] THEN "verifying" ELSE IF at \in Heads[plan] THEN "phase" ELSE "ready"
LoopAt(plan, at) ==
    IF at > Size[plan] THEN "verifying" ELSE IF at \in Heads[plan] THEN "phase" ELSE "check"

ContinueAt(c, at, done) ==
    Becomes(c, [calls[c] EXCEPT !.stage = LoopAt(calls[c].base.plan, at),
                                !.at = at, !.done = done])

Start(c) ==
    LET started == [calls[c].base EXCEPT !.status = "in_progress"] IN
    /\ calls[c].stage = "starting"
    /\ \/ /\ Save(c, started)
          /\ Becomes(c, [calls[c] EXCEPT !.base = started, !.at = 1, !.done = {},
                                         !.stage = LoopAt(started.plan, 1)])
          /\ NoFault
       \/ Excepts(c)
    /\ Rest

\* findOne: a cancelled task ends the execution.
Check(c) ==
    /\ calls[c].stage \in {"phase", "check"}
    /\ \/ task.status = "cancelled" /\ End(c) /\ Untouched /\ NoFault
       \/ /\ task.status # "cancelled"
          /\ Goes(c, IF calls[c].stage = "phase" THEN "check" ELSE "ready")
          /\ Untouched /\ NoFault
       \/ Excepts(c)
    /\ Rest

\* The save before a step has nothing new to write: the local copy of the progress
\* is not the one in the document.  Steps with unmet dependencies are skipped.
BeginStep(c) ==
    LET call == calls[c] IN
    /\ call.stage = "ready"
    /\ \/ /\ ~(Needs[call.base.plan][call.at] \subseteq call.done)
          /\ ContinueAt(c, call.at + 1, call.done)
          /\ Untouched /\ NoFault
       \/ /\ Needs[call.base.plan][call.at] \subseteq call.done
          /\ Goes(c, "running")
          /\ late' = IF task.status = "cancelled" THEN [late EXCEPT ![c] = @ + 1] ELSE late
          /\ UNCHANGED task /\ NoFault
       \/ Excepts(c)
    /\ Rest

\* executeStep catches its errors; one in a phase of high risk ends the execution.
EndStep(c) ==
    LET call == calls[c] IN
    /\ call.stage = "running"
    /\ \/ Becomes(c, [call EXCEPT !.stage = "recording", !.done = @ \cup {call.at}])
       \/ Goes(c, IF call.at \in Critical[call.base.plan] THEN "breaking" ELSE "recording")
    /\ Untouched /\ NoFault /\ Rest

\* The results are pushed to the document.
SaveStep(c) ==
    /\ calls[c].stage = "recording"
    /\ \/ /\ ContinueAt(c, calls[c].at + 1, calls[c].done)
          /\ Untouched /\ NoFault
       \/ Excepts(c)
    /\ Rest

SaveBroken(c) ==
    /\ calls[c].stage = "breaking"
    /\ \/ Save(c, [calls[c].base EXCEPT !.status = "failed"]) /\ Goes(c, "excepting") /\ NoFault
       \/ Excepts(c)
    /\ Rest

SaveVerify(c) ==
    LET verified == [calls[c].base EXCEPT !.mode = "VERIFY"] IN
    /\ calls[c].stage = "verifying"
    /\ \/ /\ Save(c, verified)
          /\ Becomes(c, [calls[c] EXCEPT !.base = verified, !.stage = "closing"])
          /\ ranThrough' = TRUE /\ NoFault
       \/ Excepts(c) /\ UNCHANGED ranThrough
    /\ UNCHANGED <<route, requests, approved>>

\* (Mutant: the status is left in progress.)
DoneInMode(base) == [base EXCEPT !.mode = "DONE"]
Done(base) == [base EXCEPT !.mode = "DONE", !.status = "completed"]

\* A failing verification is a result; if this save throws, it is tried again.
SaveDone(c) ==
    /\ calls[c].stage \in {"closing", "reclosing"}
    /\ \/ /\ Save(c, Done(calls[c].base))
          /\ End(c) /\ NoFault
       \/ /\ Fault
          /\ Goes(c, IF calls[c].stage = "closing" THEN "reclosing" ELSE "excepting")
          /\ Untouched /\ UNCHANGED lost
    /\ Rest

\* (Mutant: the exception is only logged.)
LoadFailedLogged(c) ==
    /\ calls[c].stage = "excepting"
    /\ End(c) /\ NoFault /\ Untouched /\ Rest

\* The catch of executePlan loads the task again and saves it as failed.
LoadFailed(c) ==
    /\ calls[c].stage = "excepting"
    /\ \/ Loaded(c, "excepted") /\ NoFault
       \/ Fault /\ End(c) /\ lost' = TRUE
    /\ Untouched /\ Rest

SaveFailed(c) ==
    /\ calls[c].stage = "excepted"
    /\ \/ Save(c, [calls[c].base EXCEPT !.status = "failed"]) /\ NoFault
       \/ Fault /\ Untouched /\ lost' = TRUE
    /\ End(c)
    /\ Rest

-----------------------------------------------------------------------------
(* cancelTask, goBackToPreviousMode and navigateToMode *)

Cancel(c) ==
    /\ Arrives(c)
    /\ task.status \notin {"completed", "failed"}
    /\ Loaded(c, "cancelling")
    /\ NoFault /\ Untouched /\ UNCHANGED <<route, approved, ranThrough>>

SaveCancelled(c) ==
    /\ calls[c].stage = "cancelling"
    /\ \/ Save(c, [calls[c].base EXCEPT !.status = "cancelled"]) /\ NoFault
       \/ Fault /\ Untouched /\ UNCHANGED lost
    /\ End(c)
    /\ Rest

GoBack(c) ==
    /\ Arrives(c)
    /\ task.mode \notin {"SCOPE", "CLARIFY"}
    /\ Loaded(c, "returning")
    /\ NoFault /\ Untouched /\ UNCHANGED <<route, approved, ranThrough>>

Returned(base) ==
    CASE base.mode = "PLAN"  -> [base EXCEPT !.mode = "SCOPE", !.plan = NoPlan]
      [] base.mode = "BUILD" -> [base EXCEPT !.mode = "PLAN", !.status = "pending"]
      [] base.mode = "VERIFY" -> [base EXCEPT !.mode = "BUILD"]
      [] OTHER -> [base EXCEPT !.mode = "VERIFY"]

SaveReturned(c) ==
    /\ calls[c].stage = "returning"
    /\ \/ Save(c, Returned(calls[c].base)) /\ NoFault
       \/ Fault /\ Untouched /\ UNCHANGED lost
    /\ End(c)
    /\ Rest

\* (Mutant: any mode may be navigated to.)
NavigableAnywhere(from, to) == TRUE
Navigable(from, to) == Before[to] <= Before[from]

Navigate(c) ==
    /\ Arrives(c)
    /\ \E mode \in Modes :
          /\ Navigable(task.mode, mode)
          /\ Becomes(c, [Idle EXCEPT !.stage = "navigating", !.base = task, !.target = mode])
    /\ NoFault /\ Untouched /\ UNCHANGED <<route, approved, ranThrough>>

Navigated(base, target) ==
    IF target = base.mode THEN base
    ELSE [mode |-> target, status |-> "pending",
          plan |-> IF target = "SCOPE" THEN NoPlan ELSE base.plan]

SaveNavigated(c) ==
    /\ calls[c].stage = "navigating"
    /\ \/ Save(c, Navigated(calls[c].base, calls[c].target)) /\ NoFault
       \/ Fault /\ Untouched /\ UNCHANGED lost
    /\ End(c)
    /\ Rest

-----------------------------------------------------------------------------
\* The process that runs some of the handlers dies; nothing resumes them.
Crash ==
    /\ Fault
    /\ \E dead \in SUBSET Calls :
          /\ \E c \in dead : calls[c].stage # "idle"
          /\ calls' = [c \in Calls |-> IF c \in dead THEN Idle ELSE calls[c]]
    /\ lost' = TRUE
    /\ Untouched /\ Rest

Handled(c) ==
    \/ Direct(c) \/ LoadScope(c) \/ SaveScope(c) \/ SaveAnswers(c)
    \/ LoadForPlan(c) \/ SavePlan(c) \/ MarkFailed(c) \/ SaveModified(c)
    \/ SaveBuild(c) \/ Start(c) \/ Check(c) \/ BeginStep(c) \/ EndStep(c) \/ SaveStep(c)
    \/ SaveBroken(c) \/ SaveVerify(c) \/ SaveDone(c) \/ LoadFailed(c) \/ SaveFailed(c)
    \/ SaveCancelled(c) \/ SaveReturned(c) \/ SaveNavigated(c)

Requested(c) ==
    \/ Create(c) \/ Answer(c) \/ RequestPlan(c) \/ ModifyPlan(c) \/ Approve(c)
    \/ Cancel(c) \/ GoBack(c) \/ Navigate(c)

Next == (\E c \in Calls : Handled(c) \/ Requested(c)) \/ Crash

Spec == Init /\ [][Next]_vars

\* Handlers go on: database commands end, models and tools answer or time out.
\* Nothing makes the user act or a process die.
FairSpec == Spec /\ \A c \in Calls : WF_vars(Handled(c))

-----------------------------------------------------------------------------
(* Properties *)

\* A call that will move a task in progress on: an execution, or its catch unless it
\* has read a failure.
Minds(call) ==
    \/ call.stage \in Loop \cup {"excepting"}
    \/ call.stage = "excepted" /\ call.base.status # "failed"

\* Whatever requests interleave with it, a planned task in progress is minded by an
\* execution, unless a fault kept the outcome from being stored (executePlan).
InProgressIsMinded ==
    task.status = "in_progress" /\ route = "governed" /\ ~lost =>
        \E c \in Calls : Minds(calls[c])

\* "Check for cancellation before each step": an execution begins at most one step of
\* a task that is cancelled and that no other handler takes back.
CancelStops == \A c \in Calls : late[c] <= 1

\* No stale copy puts a planned task into a mode it has not earned: building waits for
\* the approval, verification for the end of the plan (navigateToMode, generatePlan).
ModeEarned ==
    /\ task.mode \in {"BUILD", "VERIFY", "DONE"} /\ route = "governed" => approved
    /\ task.mode \in {"VERIFY", "DONE"} => ranThrough

\* A planned task does not stay in progress.
InProgressEnds ==
    (task.status = "in_progress" /\ route = "governed") ~>
        (task.status # "in_progress" \/ lost)
=============================================================================
