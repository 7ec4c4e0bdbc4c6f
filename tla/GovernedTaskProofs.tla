------------------------- MODULE GovernedTaskProofs -------------------------
(***************************************************************************)
(* Theorems about GovernedTask, for every value of its constants: types, a *)
(* task in progress is minded, cancellation stops an execution within a    *)
(* step, and modes are earned.                                             *)
(***************************************************************************)
EXTENDS GovernedTask, TLAPS

(* The inductive invariant: what a handler's copy of the document promises *)

\* A task that is not routed past the modes has been approved.
Approval == route = "governed" => approved

Earned(mode) ==
    /\ mode \in {"BUILD", "VERIFY", "DONE"} => Approval
    /\ mode \in {"VERIFY", "DONE"} => ranThrough

CallOk(call) ==
    /\ call.stage \in Loop => call.base.status = "in_progress"
    /\ call.stage \in Loop \cup {"starting"} => Approval
    /\ call.stage \in {"closing", "reclosing"} => ranThrough
    /\ call.stage = "directing" => route = "direct"
    /\ Earned(call.base.mode)
    /\ call.stage = "navigating" => Earned(call.target)
    /\ call.stage = "returning" => call.base.mode \notin {"SCOPE", "CLARIFY"}

LateOk(c) ==
    /\ late[c] \in 0..1
    /\ task.status # "cancelled" => late[c] = 0
    /\ calls[c].stage = "ready" => late[c] = 0

Inv ==
    /\ TypeOK
    /\ \A c \in Calls : CallOk(calls[c])
    /\ \A c \in Calls : LateOk(c)
    /\ Earned(task.mode)
    /\ route = "none" => task = NewTask /\ calls = [c \in Calls |-> Idle]
    /\ InProgressIsMinded

-----------------------------------------------------------------------------
(* The calls and documents the actions build *)

LEMMA TaskTypes ==
    /\ NewTask \in Task
    /\ \A base \in Task, m \in Modes : [base EXCEPT !.mode = m] \in Task
    /\ \A base \in Task, s \in Statuses : [base EXCEPT !.status = s] \in Task
    /\ \A base \in Task, p \in Plans \cup {NoPlan} : [base EXCEPT !.plan = p] \in Task
BY DEF NewTask, Task, Modes, Statuses

LEMMA StageKnown ==
    Loop \cup {"idle", "directing", "scoping", "analysing", "answering", "planning",
               "generating", "failing", "modifying", "building", "starting", "excepting",
               "excepted", "cancelling", "returning", "navigating"} \subseteq Stages
BY DEF Stages

\* An idle slot, and what the handlers put there.
LEMMA IdleType == Idle \in Call /\ Idle.stage = "idle" /\ Idle.base = NewTask
BY TaskTypes DEF Idle, Call, Modes, Stages

LEMMA CallTypes ==
    ASSUME NEW call \in Call, NEW s \in Stages
    PROVE  /\ [call EXCEPT !.stage = s] \in Call
           /\ [call EXCEPT !.stage = s].stage = s
           /\ [call EXCEPT !.stage = s].base = call.base
           /\ [call EXCEPT !.stage = s].at = call.at
BY DEF Call

LEMMA LoadedTypes ==
    ASSUME NEW base \in Task, NEW s \in Stages
    PROVE  /\ [Idle EXCEPT !.stage = s, !.base = base] \in Call
           /\ [Idle EXCEPT !.stage = s, !.base = base].stage = s
           /\ [Idle EXCEPT !.stage = s, !.base = base].base = base
BY IdleType DEF Call

LEMMA MergedType ==
    ASSUME task \in Task, NEW base \in Task, NEW new \in Task
    PROVE  Merged(base, new) \in Task
BY DEF Merged, Task

LEMMA SavedTypes ==
    ASSUME NEW base \in Task, TypeOK, NEW new \in Task
    PROVE  Merged(base, new) \in Task
BY MergedType DEF TypeOK

-----------------------------------------------------------------------------
(* One step of one handler *)

\* Histories only grow, and the route is chosen once.
Grows ==
    /\ route' \in {"direct", "governed"}
    /\ route # "none" => route' = route
    /\ approved' \in BOOLEAN /\ ranThrough' \in BOOLEAN /\ lost' \in BOOLEAN
    /\ approved => approved'
    /\ ranThrough => ranThrough'
    /\ lost => lost'
    /\ requests' \in Nat /\ faults' \in Nat

\* The task was not in progress, or the handler did not mind it, or still does.
StillMinded(c, call) ==
    task'.status = "in_progress" /\ route' = "governed" /\ ~lost' =>
        Minds(call) \/ (task.status = "in_progress" /\ ~Minds(calls[c]))

LEMMA ApprovalGrows ==
    ASSUME Grows, Approval, route # "none"
    PROVE  Approval'
BY DEF Grows, Approval

LEMMA EarnedGrows ==
    ASSUME Inv, Grows, NEW mode, Earned(mode), route # "none"
    PROVE  Earned(mode)'
BY ApprovalGrows DEF Grows, Earned

LEMMA CallOkGrows ==
    ASSUME Inv, Grows, NEW call, CallOk(call), route # "none"
    PROVE  CallOk(call)'
<1>1. Earned(call.base.mode)' /\ (call.stage = "navigating" => Earned(call.target)')
  BY EarnedGrows DEF CallOk
<1>2. Approval => Approval'
  BY ApprovalGrows
<1> QED BY <1>1, <1>2 DEF CallOk, Grows

LEMMA BecomesFacts ==
    ASSUME TypeOK, NEW c \in Calls, NEW call \in Call, Becomes(c, call)
    PROVE  /\ calls' \in [Calls -> Call]
           /\ calls'[c] = call
           /\ \A d \in Calls : d # c => calls'[d] = calls[d]
BY DEF Becomes, TypeOK

LEMMA MindedKept ==
    ASSUME Inv, Grows, NEW c \in Calls, NEW call \in Call, Becomes(c, call),
           StillMinded(c, call), route # "none"
    PROVE  InProgressIsMinded'
<1> SUFFICES ASSUME task'.status = "in_progress", route' = "governed", ~lost'
             PROVE  \E d \in Calls : Minds(calls'[d])
  BY DEF InProgressIsMinded, Minds
<1>1. CASE Minds(call)
  BY <1>1, BecomesFacts DEF Inv
<1>2. CASE task.status = "in_progress" /\ ~Minds(calls[c])
  <2>1. route = "governed" /\ ~lost
    BY DEF Grows
  <2>2. PICK d \in Calls : Minds(calls[d])
    BY <1>2, <2>1 DEF Inv, InProgressIsMinded
  <2>3. d # c
    BY <1>2, <2>2
  <2> QED BY <2>2, <2>3, BecomesFacts DEF Inv
<1> QED BY <1>1, <1>2 DEF StillMinded

LEMMA LateKept ==
    ASSUME Inv, NEW c \in Calls, NEW call \in Call, Becomes(c, call),
           Untouched \/ (\E new : Stored(new)),
           call.stage = "ready" => task.status # "cancelled" /\ Untouched
    PROVE  late' \in [Calls -> Nat] /\ \A d \in Calls : LateOk(d)'
<1>0. late \in [Calls -> Nat] /\ \A d \in Calls : LateOk(d)
  BY DEF Inv, TypeOK
<1>1. CASE Untouched
  <2> SUFFICES ASSUME NEW d \in Calls PROVE LateOk(d)'
    BY <1>0, <1>1 DEF Untouched
  <2>1. CASE d = c
    BY <1>0, <1>1, <2>1, BecomesFacts DEF Inv, Untouched, LateOk
  <2>2. CASE d # c
    BY <1>0, <1>1, <2>2, BecomesFacts DEF Inv, Untouched, LateOk
  <2> QED BY <2>1, <2>2
<1>2. CASE ~Untouched
  <2>1. PICK new : Stored(new)
    BY <1>2
  <2>2. CASE new.status = "cancelled"
    <3>1. late' = late /\ task' = new
      BY <2>1, <2>2 DEF Stored
    <3> SUFFICES ASSUME NEW d \in Calls PROVE LateOk(d)'
      BY <1>0, <3>1
    <3>2. calls'[d].stage = "ready" => calls[d].stage = "ready"
      BY <1>2, BecomesFacts DEF Inv
    <3> QED BY <1>0, <2>2, <3>1, <3>2 DEF LateOk
  <2>3. CASE new.status # "cancelled"
    BY <2>1, <2>3 DEF Stored, LateOk
  <2> QED BY <2>2, <2>3
<1> QED BY <1>1, <1>2

\* A step with no new count of late steps keeps the invariant.
LEMMA StepKeeps ==
    ASSUME Inv, Grows, route # "none", NEW c \in Calls, NEW call \in Call, Becomes(c, call),
           InPlan(call), CallOk(call)', StillMinded(c, call),
           task' \in Task, Earned(task.mode)',
           late' \in [Calls -> Nat], \A d \in Calls : LateOk(d)'
    PROVE  Inv'
<1>1. calls' \in [Calls -> Call] /\ \A d \in Calls : InPlan(calls'[d])
  BY BecomesFacts DEF Inv, TypeOK
<1>2. TypeOK'
  <2>1. \A d \in Calls : InPlan(calls[d])'
    BY <1>1 DEF InPlan
  <2> QED BY <1>1, <2>1 DEF TypeOK, Grows
<1>3. ASSUME NEW d \in Calls PROVE CallOk(calls[d])'
  <2>1. CASE d = c
    <3>1. calls'[d] = call
      BY <2>1, BecomesFacts DEF Inv
    <3> QED BY <3>1 DEF CallOk, Earned
  <2>2. CASE d # c
    <3>1. PICK k : k = calls[d]
      OBVIOUS
    <3>2. CallOk(k)'
      BY <3>1, CallOkGrows DEF Inv
    <3>3. calls'[d] = k
      BY <2>2, <3>1, BecomesFacts DEF Inv
    <3> QED BY <3>2, <3>3 DEF CallOk, Earned
  <2> QED BY <2>1, <2>2
<1>4. InProgressIsMinded'
  BY MindedKept
<1>5. route' # "none"
  BY DEF Grows
<1> QED BY <1>2, <1>3, <1>4, <1>5 DEF Inv

-----------------------------------------------------------------------------
(* Steps that store nothing, and steps that store a document *)

LEMMA QuietKeeps ==
    ASSUME Inv, Grows, route # "none", NEW c \in Calls, NEW call \in Call, Becomes(c, call),
           InPlan(call), CallOk(call)', Untouched,
           call.stage = "ready" => task.status # "cancelled",
           Minds(calls[c]) => Minds(call) \/ lost' \/ task.status # "in_progress"
    PROVE  Inv'
<1>1. late' \in [Calls -> Nat] /\ \A d \in Calls : LateOk(d)'
  BY LateKept
<1>2. task' = task
  BY DEF Untouched
<1>3. StillMinded(c, call)
  BY <1>2 DEF StillMinded
<1>4. PICK mode : mode = task.mode
  OBVIOUS
<1>5. Earned(mode)'
  BY <1>4, EarnedGrows DEF Inv
<1>6. Earned(task.mode)' /\ task' \in Task
  BY <1>2, <1>4, <1>5 DEF Earned, Inv, TypeOK
<1> QED BY <1>1, <1>3, <1>6, StepKeeps

LEMMA StoredKeeps ==
    ASSUME Inv, Grows, route # "none", NEW c \in Calls, NEW call \in Call, Becomes(c, call),
           InPlan(call), CallOk(call)', NEW new \in Task, Stored(new),
           call.stage # "ready", Earned(new.mode)',
           \/ route = "direct" \/ Minds(call) \/ new.status # "in_progress"
           \/ task.status = "in_progress" /\ ~Minds(calls[c])
    PROVE  Inv'
<1>1. late' \in [Calls -> Nat] /\ \A d \in Calls : LateOk(d)'
  BY LateKept
<1>2. task' = new
  BY DEF Stored
<1>3. StillMinded(c, call)
  BY <1>2 DEF StillMinded, Grows
<1>4. Earned(task.mode)' /\ task' \in Task
  BY <1>2 DEF Earned
<1> QED BY <1>1, <1>3, <1>4, StepKeeps

\* save() writes a mode the handler had or chose, and a status likewise.
LEMMA SaveKeeps ==
    ASSUME Inv, Grows, route # "none", NEW c \in Calls, NEW call \in Call, Becomes(c, call),
           InPlan(call), CallOk(call)', NEW new \in Task, Save(c, new),
           call.stage # "ready", Earned(new.mode)',
           \/ route = "direct" \/ Minds(call)
           \/ new.status # "in_progress" /\ new.status # calls[c].base.status
           \/ ~Minds(calls[c]) /\ new.status \in {calls[c].base.status} \cup (Statuses \ {"in_progress"})
    PROVE  Inv'
<1>1. PICK merged : merged = Merged(calls[c].base, new)
  OBVIOUS
<1>2. merged \in Task
  <2>1. calls[c].base \in Task /\ TypeOK
    BY DEF Inv, TypeOK, Call
  <2> QED BY <1>1, <2>1, SavedTypes
<1>3. Stored(merged)
  BY <1>1 DEF Save
<1>4. merged.mode \in {task.mode, new.mode}
  BY <1>1 DEF Merged
<1>5. merged.status = IF new.status = calls[c].base.status THEN task.status ELSE new.status
  BY <1>1 DEF Merged
<1>6. PICK mode : mode = task.mode
  OBVIOUS
<1>7. Earned(mode)'
  BY <1>6, EarnedGrows DEF Inv
<1>8. Earned(merged.mode)'
  BY <1>4, <1>6, <1>7
<1> QED BY <1>2, <1>3, <1>5, <1>8, StoredKeeps

\* Stages of handlers that are no execution: the copy need only have an earned mode.
Plain == {"idle", "scoping", "analysing", "answering", "planning", "generating", "failing",
          "modifying", "excepting", "excepted", "cancelling"}

LEMMA PlainOk ==
    ASSUME Inv, Grows, route # "none", NEW c \in Calls, NEW call \in Call, call.stage \in Plain,
           call.base = NewTask \/ call.base = task \/ call.base = calls[c].base
    PROVE  InPlan(call) /\ CallOk(call)' /\ call.stage # "ready"
<1>1. InPlan(call) /\ call.stage # "ready"
  BY DEF Plain, InPlan, Loop
<1>2. PICK mode : mode = call.base.mode
  OBVIOUS
<1>3. Earned(mode)
  BY <1>2 DEF Inv, CallOk, Earned, NewTask
<1>4. Earned(mode)'
  BY <1>3, EarnedGrows
<1>5. call.stage \notin Loop \cup {"building", "starting", "closing", "reclosing",
                                   "directing", "navigating", "returning"}
  BY DEF Plain, Loop
<1>6. Earned(call.base.mode)'
  BY <1>2, <1>4
<1> QED BY <1>1, <1>5, <1>6 DEF CallOk

LEMMA PlainQuiet ==
    ASSUME Inv, Grows, route # "none", NEW c \in Calls, NEW call \in Call, Becomes(c, call),
           call.stage \in Plain, Untouched,
           call.base = NewTask \/ call.base = task \/ call.base = calls[c].base,
           Minds(calls[c]) => Minds(call) \/ lost' \/ task.status # "in_progress"
    PROVE  Inv'
BY PlainOk, QuietKeeps

LEMMA PlainSave ==
    ASSUME Inv, Grows, route # "none", NEW c \in Calls, NEW call \in Call, Becomes(c, call),
           call.stage \in Plain, NEW new \in Task, Save(c, new), Earned(new.mode)',
           call.base = NewTask \/ call.base = task \/ call.base = calls[c].base,
           \/ route = "direct" \/ Minds(call)
           \/ new.status # "in_progress" /\ new.status # calls[c].base.status
           \/ ~Minds(calls[c]) /\ new.status \in {calls[c].base.status} \cup (Statuses \ {"in_progress"})
    PROVE  Inv'
BY PlainOk, SaveKeeps

-----------------------------------------------------------------------------
(* The handlers before and beside an execution *)

\* A handler that runs has a task, and its effects on the rest only grow.
LEMMA Running ==
    ASSUME Inv, NEW c \in Calls, calls[c].stage # "idle"
    PROVE  route # "none"
BY IdleType DEF Inv

LEMMA RestGrows ==
    ASSUME Inv, route # "none", Rest,
           NoFault \/ (Fault /\ UNCHANGED lost) \/ (Fault /\ lost' = TRUE)
    PROVE  Grows
<1>1. faults' \in Nat
  BY DEF NoFault, Fault, Inv, TypeOK
<1>2. lost' \in BOOLEAN /\ (lost => lost')
  BY DEF NoFault, Fault, Inv, TypeOK
<1>3. /\ route' = route /\ requests' = requests
      /\ approved' = approved /\ ranThrough' = ranThrough
  BY DEF Rest
<1> QED BY <1>1, <1>2, <1>3 DEF Grows, Inv, TypeOK

LEMMA RequestGrows ==
    ASSUME Inv, route # "none", Request, NoFault, UNCHANGED <<route, approved, ranThrough>>
    PROVE  Grows
<1>1. requests' \in Nat
  BY DEF Request, Inv, TypeOK
<1>2. lost' = lost /\ faults' = faults
  BY DEF NoFault
<1> QED BY <1>1, <1>2 DEF Grows, Inv, TypeOK

\* What a call in a stage that is no execution's does not do.
LEMMA NotMinding ==
    ASSUME NEW call, call.stage \notin Loop \cup {"excepting", "excepted"}
    PROVE  ~Minds(call)
BY DEF Minds

\* A handler's own document, a mode it had, and an idle slot.
LEMMA BaseFacts ==
    ASSUME Inv, NEW c \in Calls
    PROVE  /\ calls[c] \in Call /\ calls[c].base \in Task /\ task \in Task
           /\ CallOk(calls[c]) /\ InPlan(calls[c]) /\ Earned(task.mode)
BY DEF Inv, TypeOK, Call

LEMMA GoesPlain ==
    ASSUME Inv, Grows, route # "none", NEW c \in Calls, NEW s \in Plain \cap Stages, Goes(c, s),
           Untouched, s = "excepting" \/ ~Minds(calls[c])
    PROVE  Inv'
<1>1. PICK call : call = [calls[c] EXCEPT !.stage = s]
  OBVIOUS
<1>2. call \in Call /\ call.stage = s /\ call.base = calls[c].base
  BY <1>1, BaseFacts, CallTypes
<1>3. Becomes(c, call)
  BY <1>1 DEF Goes
<1>4. Minds(calls[c]) => Minds(call)
  BY <1>2 DEF Minds
<1> QED BY <1>2, <1>3, <1>4, PlainQuiet

LEMMA LoadedPlain ==
    ASSUME Inv, Grows, route # "none", NEW c \in Calls, NEW s \in Plain \cap Stages, Loaded(c, s),
           Untouched, ~Minds(calls[c])
    PROVE  Inv'
<1>1. PICK call : call = [Idle EXCEPT !.stage = s, !.base = task]
  OBVIOUS
<1>2. call \in Call /\ call.stage = s /\ call.base = task
  BY <1>1, BaseFacts, LoadedTypes
<1>3. Becomes(c, call)
  BY <1>1 DEF Loaded
<1> QED BY <1>2, <1>3, PlainQuiet

LEMMA IdleStage ==
    ASSUME NEW s \in Stages
    PROVE  /\ [Idle EXCEPT !.stage = s] \in Call
           /\ [Idle EXCEPT !.stage = s].stage = s
           /\ [Idle EXCEPT !.stage = s].base = NewTask
BY IdleType, CallTypes

LEMMA EndPlain ==
    ASSUME Inv, Grows, route # "none", NEW c \in Calls, End(c), Untouched,
           ~Minds(calls[c]) \/ lost' \/ task.status # "in_progress"
    PROVE  Inv'
<1>1. PICK call : call = Idle
  OBVIOUS
<1>2. call \in Call /\ call.stage = "idle" /\ call.base = NewTask /\ Becomes(c, call)
  BY <1>1, IdleType DEF End
<1> QED BY <1>2, PlainQuiet DEF Plain

LEMMA EndSaved ==
    ASSUME Inv, Grows, route # "none", NEW c \in Calls, End(c),
           NEW new \in Task, Save(c, new), Earned(new.mode)',
           \/ route = "direct"
           \/ new.status # "in_progress" /\ new.status # calls[c].base.status
           \/ ~Minds(calls[c]) /\ new.status \in {calls[c].base.status} \cup (Statuses \ {"in_progress"})
    PROVE  Inv'
<1>1. PICK call : call = Idle
  OBVIOUS
<1>2. call \in Call /\ call.stage = "idle" /\ call.base = NewTask /\ Becomes(c, call)
  BY <1>1, IdleType DEF End
<1> QED BY <1>2, PlainSave DEF Plain

LEMMA EarnedAlways ==
    ASSUME NEW mode \in {"SCOPE", "CLARIFY", "PLAN"}
    PROVE  Earned(mode) /\ Earned(mode)'
BY DEF Earned

\* The three ways a document a handler changed keeps a mode that is earned.
LEMMA BaseEarned ==
    ASSUME Inv, Grows, route # "none", NEW c \in Calls, NEW new, new.mode = calls[c].base.mode
    PROVE  Earned(new.mode)'
<1>1. PICK mode : mode = new.mode
  OBVIOUS
<1>2. Earned(mode)
  BY <1>1, BaseFacts DEF CallOk
<1> QED BY <1>1, <1>2, EarnedGrows

LEMMA PlainStages == Plain \subseteq Stages
BY DEF Plain, Stages

\* Facts of a task the handler changed one field of.
LEMMA Changed ==
    ASSUME NEW base \in Task
    PROVE  /\ \A m \in Modes : /\ [base EXCEPT !.mode = m] \in Task
                               /\ [base EXCEPT !.mode = m].mode = m
                               /\ [base EXCEPT !.mode = m].status = base.status
                               /\ [base EXCEPT !.mode = m].plan = base.plan
           /\ \A s \in Statuses : /\ [base EXCEPT !.status = s] \in Task
                                  /\ [base EXCEPT !.status = s].mode = base.mode
                                  /\ [base EXCEPT !.status = s].status = s
                                  /\ [base EXCEPT !.status = s].plan = base.plan
           /\ \A p \in Plans : /\ [base EXCEPT !.plan = p] \in Task
                               /\ [base EXCEPT !.plan = p].mode = base.mode
                               /\ [base EXCEPT !.plan = p].status = base.status
BY TaskTypes DEF Task

LEMMA Names ==
    /\ \A m \in {"SCOPE", "CLARIFY", "PLAN", "BUILD", "VERIFY", "DONE"} : m \in Modes
    /\ \A s \in {"pending", "in_progress", "completed", "failed", "cancelled"} : s \in Statuses
BY DEF Modes, Statuses

LEMMA DirectKeeps == ASSUME Inv, NEW c \in Calls, Direct(c) PROVE Inv'
<1>1. route # "none" /\ ~Minds(calls[c])
  BY Running, NotMinding DEF Direct, Loop
<1>2. Grows
  BY <1>1, RestGrows DEF Direct
<1>3. route = "direct" /\ route' = route
  BY BaseFacts DEF Direct, CallOk, Rest
<1>4. CASE Untouched
  BY <1>1, <1>2, <1>4, EndPlain DEF Direct
<1>5. CASE Save(c, [calls[c].base EXCEPT !.mode = "BUILD", !.status = "in_progress"])
  <2>1. PICK new : new = [calls[c].base EXCEPT !.mode = "BUILD", !.status = "in_progress"]
    OBVIOUS
  <2>2. new \in Task /\ new.mode = "BUILD"
    BY <2>1, BaseFacts, Names DEF Task
  <2>3. Earned(new.mode)'
    BY <1>3, <2>2 DEF Earned, Approval
  <2>4. End(c) /\ Save(c, new)
    BY <1>5, <2>1 DEF Direct
  <2> QED BY <1>1, <1>2, <1>3, <2>2, <2>3, <2>4, EndSaved
<1> QED BY <1>4, <1>5 DEF Direct

LEMMA LoadScopeKeeps == ASSUME Inv, NEW c \in Calls, LoadScope(c) PROVE Inv'
<1>1. route # "none" /\ ~Minds(calls[c])
  BY Running, NotMinding DEF LoadScope, Loop
<1>2. Grows /\ Untouched
  BY <1>1, RestGrows DEF LoadScope
<1>3. Loaded(c, "analysing") \/ Goes(c, "failing")
  BY DEF LoadScope
<1>4. "analysing" \in Plain \cap Stages /\ "failing" \in Plain \cap Stages
  BY PlainStages DEF Plain
<1> QED BY <1>1, <1>2, <1>3, <1>4, LoadedPlain, GoesPlain

\* A handler that chose the mode CLARIFY or PLAN, and goes on to planning or ends.
LEMMA SavedMode ==
    ASSUME Inv, Grows, route # "none", NEW c \in Calls, ~Minds(calls[c]),
           NEW m \in {"CLARIFY", "PLAN"}, Save(c, [calls[c].base EXCEPT !.mode = m]),
           End(c) \/ Becomes(c, [Idle EXCEPT !.stage = "planning"])
    PROVE  Inv'
<1>1. PICK new : new = [calls[c].base EXCEPT !.mode = m]
  OBVIOUS
<1>2. new \in Task /\ new.mode = m /\ new.status = calls[c].base.status /\ Save(c, new)
  BY <1>1, BaseFacts, Changed, Names
<1>3. Earned(new.mode)'
  BY <1>2, EarnedAlways
<1>4. CASE End(c)
  BY <1>2, <1>3, <1>4, EndSaved
<1>5. CASE Becomes(c, [Idle EXCEPT !.stage = "planning"])
  <2>1. PICK call : call = [Idle EXCEPT !.stage = "planning"]
    OBVIOUS
  <2>2. call \in Call /\ call.stage = "planning" /\ call.base = NewTask /\ Becomes(c, call)
    BY <1>5, <2>1, IdleStage, PlainStages DEF Plain
  <2> QED BY <1>2, <1>3, <2>2, PlainSave DEF Plain
<1> QED BY <1>4, <1>5

LEMMA SaveScopeKeeps == ASSUME Inv, NEW c \in Calls, SaveScope(c) PROVE Inv'
<1>1. route # "none" /\ ~Minds(calls[c])
  BY Running, NotMinding DEF SaveScope, Loop
<1>2. Grows
  BY <1>1, RestGrows DEF SaveScope
<1>3. CASE Goes(c, "failing") /\ Untouched
  BY <1>1, <1>2, <1>3, GoesPlain, PlainStages DEF Plain
<1>4. CASE Save(c, [calls[c].base EXCEPT !.mode = "CLARIFY"]) /\ End(c)
  BY <1>1, <1>2, <1>4, SavedMode
<1>5. CASE /\ Save(c, [calls[c].base EXCEPT !.mode = "PLAN"])
           /\ Becomes(c, [Idle EXCEPT !.stage = "planning"])
  BY <1>1, <1>2, <1>5, SavedMode
<1> QED BY <1>3, <1>4, <1>5 DEF SaveScope

LEMMA SaveAnswersKeeps == ASSUME Inv, NEW c \in Calls, SaveAnswers(c) PROVE Inv'
<1>1. route # "none" /\ ~Minds(calls[c])
  BY Running, NotMinding DEF SaveAnswers, Loop
<1>2. Grows
  BY <1>1, RestGrows DEF SaveAnswers
<1>3. CASE End(c) /\ Untouched
  BY <1>1, <1>2, <1>3, EndPlain
<1>4. CASE /\ Save(c, [calls[c].base EXCEPT !.mode = "PLAN"])
           /\ Becomes(c, [Idle EXCEPT !.stage = "planning"])
  BY <1>1, <1>2, <1>4, SavedMode
<1> QED BY <1>3, <1>4 DEF SaveAnswers

LEMMA LoadForPlanKeeps == ASSUME Inv, NEW c \in Calls, LoadForPlan(c) PROVE Inv'
<1>1. route # "none" /\ ~Minds(calls[c])
  BY Running, NotMinding DEF LoadForPlan, Loop
<1>2. Grows /\ Untouched
  BY <1>1, RestGrows DEF LoadForPlan
<1>3. Loaded(c, "generating") \/ Goes(c, "failing")
  BY DEF LoadForPlan
<1>4. "generating" \in Plain \cap Stages /\ "failing" \in Plain \cap Stages
  BY PlainStages DEF Plain
<1> QED BY <1>1, <1>2, <1>3, <1>4, LoadedPlain, GoesPlain

LEMMA SavePlanKeeps == ASSUME Inv, NEW c \in Calls, SavePlan(c) PROVE Inv'
<1>1. route # "none" /\ ~Minds(calls[c])
  BY Running, NotMinding DEF SavePlan, Loop
<1>2. Grows
  BY <1>1, RestGrows DEF SavePlan
<1>3. CASE Goes(c, "failing") /\ Untouched
  BY <1>1, <1>2, <1>3, GoesPlain, PlainStages DEF Plain
<1>4. ASSUME NEW p \in Plans, End(c),
             Save(c, [calls[c].base EXCEPT !.plan = p, !.status = "pending"])
      PROVE  Inv'
  <2>1. PICK new : new = [calls[c].base EXCEPT !.plan = p, !.status = "pending"]
    OBVIOUS
  <2>2. new \in Task /\ new.mode = calls[c].base.mode /\ new.status = "pending"
    BY <2>1, BaseFacts DEF Task, Statuses
  <2>3. Earned(new.mode)'
    BY <1>1, <1>2, <2>2, BaseEarned
  <2>4. Save(c, new)
    BY <1>4, <2>1
  <2> QED BY <1>1, <1>2, <1>4, <2>2, <2>3, <2>4, EndSaved DEF Statuses
<1> QED BY <1>3, <1>4 DEF SavePlan

LEMMA MarkFailedKeeps == ASSUME Inv, NEW c \in Calls, MarkFailed(c) PROVE Inv'
<1>1. route # "none" /\ ~Minds(calls[c])
  BY Running, NotMinding DEF MarkFailed, Loop
<1>2. Grows /\ End(c)
  BY <1>1, RestGrows DEF MarkFailed
<1>3. CASE Untouched
  BY <1>1, <1>2, <1>3, EndPlain
<1>4. CASE Stored([task EXCEPT !.status = "failed"])
  <2>1. PICK new : new = [task EXCEPT !.status = "failed"]
    OBVIOUS
  <2>2. new \in Task /\ new.mode = task.mode /\ new.status = "failed" /\ Stored(new)
    BY <1>4, <2>1, BaseFacts, Changed, Names
  <2>3. PICK mode : mode = new.mode
    OBVIOUS
  <2>4. Earned(mode)'
    BY <1>1, <1>2, <2>2, <2>3, BaseFacts, EarnedGrows
  <2>5. PICK call : call = Idle
    OBVIOUS
  <2>6. call \in Call /\ call.stage = "idle" /\ call.base = NewTask /\ Becomes(c, call)
    BY <1>2, <2>5, IdleType DEF End
  <2>7. InPlan(call) /\ CallOk(call)' /\ call.stage # "ready"
    BY <1>1, <1>2, <2>6, PlainOk DEF Plain
  <2> QED BY <1>1, <1>2, <2>2, <2>3, <2>4, <2>6, <2>7, StoredKeeps
<1> QED BY <1>3, <1>4 DEF MarkFailed

LEMMA SaveModifiedKeeps == ASSUME Inv, NEW c \in Calls, SaveModified(c) PROVE Inv'
<1>1. route # "none" /\ ~Minds(calls[c])
  BY Running, NotMinding DEF SaveModified, Loop
<1>2. Grows /\ End(c)
  BY <1>1, RestGrows DEF SaveModified
<1>3. CASE Untouched
  BY <1>1, <1>2, <1>3, EndPlain
<1>4. ASSUME NEW p \in Plans, Save(c, [calls[c].base EXCEPT !.plan = p])
      PROVE  Inv'
  <2>1. PICK new : new = [calls[c].base EXCEPT !.plan = p]
    OBVIOUS
  <2>2. /\ new \in Task /\ new.mode = calls[c].base.mode
        /\ new.status = calls[c].base.status /\ Save(c, new)
    BY <1>4, <2>1, BaseFacts, Changed
  <2>3. Earned(new.mode)'
    BY <1>1, <1>2, <2>2, BaseEarned
  <2> QED BY <1>1, <1>2, <2>2, <2>3, EndSaved
<1> QED BY <1>3, <1>4 DEF SaveModified

LEMMA SaveCancelledKeeps == ASSUME Inv, NEW c \in Calls, SaveCancelled(c) PROVE Inv'
<1>1. route # "none" /\ ~Minds(calls[c])
  BY Running, NotMinding DEF SaveCancelled, Loop
<1>2. Grows /\ End(c)
  BY <1>1, RestGrows DEF SaveCancelled
<1>3. CASE Untouched
  BY <1>1, <1>2, <1>3, EndPlain
<1>4. CASE Save(c, [calls[c].base EXCEPT !.status = "cancelled"])
  <2>1. PICK new : new = [calls[c].base EXCEPT !.status = "cancelled"]
    OBVIOUS
  <2>2. /\ new \in Task /\ new.mode = calls[c].base.mode
        /\ new.status = "cancelled" /\ Save(c, new)
    BY <1>4, <2>1, BaseFacts, Changed, Names
  <2>3. Earned(new.mode)'
    BY <1>1, <1>2, <2>2, BaseEarned
  <2> QED BY <1>1, <1>2, <2>2, <2>3, EndSaved DEF Statuses
<1> QED BY <1>3, <1>4 DEF SaveCancelled

\* Going back keeps a mode earned, and puts nothing in progress.
LEMMA ReturnedFacts ==
    ASSUME NEW base \in Task, base.mode \notin {"SCOPE", "CLARIFY"}, Earned(base.mode)'
    PROVE  /\ Returned(base) \in Task
           /\ Earned(Returned(base).mode)'
           /\ Returned(base).status \in {base.status, "pending"}
<1>1. CASE base.mode = "PLAN"
  BY <1>1 DEF Returned, Task, Modes, Earned
<1>2. CASE base.mode = "BUILD"
  BY <1>2 DEF Returned, Task, Modes, Statuses, Earned
<1>3. CASE base.mode = "VERIFY"
  BY <1>3 DEF Returned, Task, Modes, Earned
<1>4. CASE base.mode = "DONE"
  BY <1>4 DEF Returned, Task, Modes, Earned
<1> QED BY <1>1, <1>2, <1>3, <1>4 DEF Task, Modes

LEMMA SaveReturnedKeeps == ASSUME Inv, NEW c \in Calls, SaveReturned(c) PROVE Inv'
<1>1. route # "none" /\ ~Minds(calls[c])
  BY Running, NotMinding DEF SaveReturned, Loop
<1>2. Grows /\ End(c)
  BY <1>1, RestGrows DEF SaveReturned
<1>3. CASE Untouched
  BY <1>1, <1>2, <1>3, EndPlain
<1>4. CASE Save(c, Returned(calls[c].base))
  <2>1. PICK base : base = calls[c].base
    OBVIOUS
  <2>2. base \in Task /\ base.mode \notin {"SCOPE", "CLARIFY"}
    BY <2>1, BaseFacts DEF SaveReturned, CallOk
  <2>3. Earned(base.mode)'
    BY <1>1, <1>2, <2>1, BaseEarned
  <2>4. PICK new : new = Returned(base)
    OBVIOUS
  <2>5. /\ new \in Task /\ Earned(new.mode)'
        /\ new.status \in {base.status, "pending"} /\ Save(c, new)
    BY <1>4, <2>1, <2>2, <2>3, <2>4, ReturnedFacts
  <2> QED BY <1>1, <1>2, <2>1, <2>5, EndSaved DEF Statuses
<1> QED BY <1>3, <1>4 DEF SaveReturned

LEMMA SaveNavigatedKeeps == ASSUME Inv, NEW c \in Calls, SaveNavigated(c) PROVE Inv'
<1>1. route # "none" /\ ~Minds(calls[c])
  BY Running, NotMinding DEF SaveNavigated, Loop
<1>2. Grows /\ End(c)
  BY <1>1, RestGrows DEF SaveNavigated
<1>3. CASE Untouched
  BY <1>1, <1>2, <1>3, EndPlain
<1>4. CASE Save(c, Navigated(calls[c].base, calls[c].target))
  <2>1. PICK base : base = calls[c].base
    OBVIOUS
  <2>2. PICK target : target = calls[c].target
    OBVIOUS
  <2>3. base \in Task /\ target \in Modes /\ Earned(target)
    BY <2>1, <2>2, BaseFacts DEF SaveNavigated, CallOk, Call
  <2>4. Earned(base.mode)' /\ Earned(target)'
    BY <1>1, <1>2, <2>1, <2>3, BaseEarned, EarnedGrows
  <2>5. PICK new : new = Navigated(base, target)
    OBVIOUS
  <2>6. new \in Task /\ new.mode = target /\ new.status \in {base.status, "pending"}
    BY <2>3, <2>5 DEF Navigated, Task, Statuses
  <2>7. Save(c, new)
    BY <1>4, <2>1, <2>2, <2>5
  <2> QED BY <1>1, <1>2, <2>1, <2>4, <2>6, <2>7, EndSaved DEF Statuses
<1> QED BY <1>3, <1>4 DEF SaveNavigated

-----------------------------------------------------------------------------
(* The requests that start a handler *)

LEMMA Arrival ==
    ASSUME Inv, NEW c \in Calls, Arrives(c), NoFault, UNCHANGED <<route, approved, ranThrough>>
    PROVE  route # "none" /\ Grows /\ ~Minds(calls[c])
<1>1. route # "none" /\ Request /\ calls[c].stage = "idle"
  BY DEF Arrives
<1>2. Grows
  BY <1>1, RequestGrows
<1> QED BY <1>1, <1>2, NotMinding DEF Loop

LEMMA RequestKeeps ==
    ASSUME Inv, NEW c \in Calls, Answer(c) \/ RequestPlan(c) \/ ModifyPlan(c) \/ Cancel(c)
    PROVE  Inv'
<1>1. Arrives(c) /\ NoFault /\ Untouched /\ UNCHANGED <<route, approved, ranThrough>>
  BY DEF Answer, RequestPlan, ModifyPlan, Cancel
<1>2. route # "none" /\ Grows /\ ~Minds(calls[c])
  BY <1>1, Arrival
<1>3. CASE \E s \in {"answering", "modifying", "cancelling"} : Loaded(c, s)
  <2>1. PICK s \in {"answering", "modifying", "cancelling"} : Loaded(c, s)
    BY <1>3
  <2>2. s \in Plain \cap Stages
    BY <2>1, PlainStages DEF Plain
  <2> QED BY <1>1, <1>2, <2>1, <2>2, LoadedPlain
<1>4. CASE Becomes(c, [Idle EXCEPT !.stage = "planning"])
  <2>1. PICK call : call = [Idle EXCEPT !.stage = "planning"]
    OBVIOUS
  <2>2. call \in Call /\ call.stage = "planning" /\ call.base = NewTask /\ Becomes(c, call)
    BY <1>4, <2>1, IdleStage, PlainStages DEF Plain
  <2> QED BY <1>1, <1>2, <2>2, PlainQuiet DEF Plain
<1> QED BY <1>3, <1>4 DEF Answer, RequestPlan, ModifyPlan, Cancel

\* A stage that promises more of the loaded document.
LEMMA LoadedKeeps ==
    ASSUME Inv, Grows, route # "none", NEW c \in Calls, Untouched, ~Minds(calls[c]),
           NEW s \in {"returning", "building", "starting", "excepting"}, Loaded(c, s),
           s = "returning" => task.mode \notin {"SCOPE", "CLARIFY"},
           s = "starting" => Approval',
           s = "starting" => task.plan \in Plans
    PROVE  Inv'
<1>1. PICK call : call = [Idle EXCEPT !.stage = s, !.base = task]
  OBVIOUS
<1>2. s \in Stages
  BY DEF Stages
<1>3. call \in Call /\ call.stage = s /\ call.base = task /\ Becomes(c, call)
  BY <1>1, <1>2, BaseFacts, LoadedTypes DEF Loaded
<1>4. InPlan(call)
  BY <1>3 DEF InPlan, Loop
<1>5. PICK mode : mode = call.base.mode
  OBVIOUS
<1>6. Earned(mode)'
  BY <1>3, <1>5, BaseFacts, EarnedGrows
<1>7. Earned(call.base.mode)'
  BY <1>5, <1>6
<1>8. CallOk(call)'
  BY <1>3, <1>7 DEF CallOk, Loop
<1> QED BY <1>3, <1>4, <1>8, QuietKeeps

LEMMA ApproveKeeps == ASSUME Inv, NEW c \in Calls, Approve(c) PROVE Inv'
<1>1. Arrives(c) /\ NoFault /\ Untouched /\ UNCHANGED <<route, approved, ranThrough>>
  BY DEF Approve
<1>2. route # "none" /\ Grows /\ ~Minds(calls[c])
  BY <1>1, Arrival
<1>3. PICK s \in {"building", "starting", "excepting"} :
          Loaded(c, s) /\ (s = "starting" => task.plan # NoPlan /\ task.mode = "BUILD")
  BY DEF Approve
<1>4. s = "starting" => task.plan \in Plans
  BY <1>3, BaseFacts DEF Task
<1>5. s = "starting" => Approval'
  BY <1>2, <1>3, BaseFacts, ApprovalGrows DEF Earned
<1> QED BY <1>1, <1>2, <1>3, <1>4, <1>5, LoadedKeeps

LEMMA GoBackKeeps == ASSUME Inv, NEW c \in Calls, GoBack(c) PROVE Inv'
<1>1. /\ Arrives(c) /\ NoFault /\ Untouched /\ UNCHANGED <<route, approved, ranThrough>>
      /\ task.mode \notin {"SCOPE", "CLARIFY"} /\ Loaded(c, "returning")
  BY DEF GoBack
<1>2. route # "none" /\ Grows /\ ~Minds(calls[c])
  BY <1>1, Arrival
<1> QED BY <1>1, <1>2, LoadedKeeps

\* navigateToMode allows no mode beyond the task's, and earlier modes are earned.
LEMMA NavigableEarned ==
    ASSUME NEW from \in Modes, NEW to \in Modes, Navigable(from, to), Earned(from)
    PROVE  Earned(to)
BY DEF Navigable, Before, Modes, Earned

LEMMA NavigateKeeps == ASSUME Inv, NEW c \in Calls, Navigate(c) PROVE Inv'
<1>1. Arrives(c) /\ NoFault /\ Untouched /\ UNCHANGED <<route, approved, ranThrough>>
  BY DEF Navigate
<1>2. route # "none" /\ Grows /\ ~Minds(calls[c])
  BY <1>1, Arrival
<1>3. PICK mode \in Modes :
        /\ Navigable(task.mode, mode)
        /\ Becomes(c, [Idle EXCEPT !.stage = "navigating", !.base = task, !.target = mode])
  BY DEF Navigate
<1>4. PICK call : call = [Idle EXCEPT !.stage = "navigating", !.base = task, !.target = mode]
  OBVIOUS
<1>5. "navigating" \in Stages /\ task \in Task /\ task.mode \in Modes
  BY BaseFacts DEF Stages, Task
<1>6. call \in Call /\ call.stage = "navigating" /\ call.base = task /\ call.target = mode
  BY <1>4, <1>5, IdleType DEF Call
<1>7. Earned(task.mode) /\ Earned(mode)
  BY <1>3, <1>5, BaseFacts, NavigableEarned
<1>8. PICK from : from = task.mode
  OBVIOUS
<1>9. Earned(from)' /\ Earned(mode)'
  BY <1>2, <1>7, <1>8, EarnedGrows
<1>10. CallOk(call)' /\ InPlan(call)
  BY <1>6, <1>8, <1>9 DEF CallOk, InPlan, Loop
<1> QED BY <1>1, <1>2, <1>3, <1>4, <1>6, <1>10, QuietKeeps

-----------------------------------------------------------------------------
(* executePlan *)

\* The stages of an execution that is at one of its steps.
AtStep == {"phase", "check", "ready", "running", "recording", "breaking"}

LEMMA LoopFacts ==
    ASSUME Inv, NEW c \in Calls, calls[c].stage \in Loop
    PROVE  /\ calls[c].base.plan \in Plans /\ calls[c].base.status = "in_progress"
           /\ Approval /\ Minds(calls[c])
           /\ calls[c].stage \in AtStep => calls[c].at \in 1..Size[calls[c].base.plan]
<1>1. InPlan(calls[c]) /\ CallOk(calls[c])
  BY BaseFacts
<1> QED BY <1>1 DEF InPlan, CallOk, Minds, AtStep

\* A call of an execution, built from the one before it.
LEMMA ExecutionOk ==
    ASSUME Inv, Grows, route # "none", NEW c \in Calls, NEW call \in Call,
           call.stage \in Loop, Approval', call.stage \notin {"closing", "reclosing"},
           call.base.plan \in Plans, call.base.status = "in_progress",
           call.base.mode = calls[c].base.mode,
           call.stage \in AtStep => call.at \in 1..Size[call.base.plan]
    PROVE  InPlan(call) /\ CallOk(call)' /\ Minds(call)
<1>1. InPlan(call) /\ Minds(call)
  BY DEF InPlan, Minds, AtStep, Loop
<1>2. Earned(call.base.mode)'
  <2>1. PICK base : base = call.base
    OBVIOUS
  <2>2. Earned(base.mode)'
    BY <2>1, BaseEarned
  <2> QED BY <2>1, <2>2
<1>3. call.stage \notin {"directing", "navigating", "returning"}
  BY DEF Loop
<1> QED BY <1>1, <1>2, <1>3 DEF CallOk

LEMMA LoopAtFacts ==
    ASSUME NEW plan \in Plans, NEW at \in Nat \ {0}
    PROVE  /\ LoopAt(plan, at) \in {"verifying", "phase", "check"}
           /\ LoopAt(plan, at) # "verifying" => at \in 1..Size[plan]
BY GovernedAssumption DEF LoopAt

LEMMA ContinueKeeps ==
    ASSUME Inv, Grows, route # "none", NEW c \in Calls, calls[c].stage \in Loop \cap AtStep,
           NEW done \in SUBSET Nat, ContinueAt(c, calls[c].at + 1, done), Untouched
    PROVE  Inv'
<1>1. /\ calls[c] \in Call /\ calls[c].base.plan \in Plans /\ Approval
      /\ calls[c].base.status = "in_progress"
  BY BaseFacts, LoopFacts
<1>2. calls[c].at + 1 \in Nat \ {0}
  BY <1>1 DEF Call
<1>3. PICK plan, at : plan = calls[c].base.plan /\ at = calls[c].at + 1
  OBVIOUS
<1>4. PICK s : s = LoopAt(plan, at)
  OBVIOUS
<1>5. s \in {"verifying", "phase", "check"} /\ (s # "verifying" => at \in 1..Size[plan])
  BY <1>1, <1>2, <1>3, <1>4, LoopAtFacts
<1>6. s \in Stages /\ s \in Loop /\ (s \in AtStep => s # "verifying")
  BY <1>5 DEF Stages, Loop, AtStep
<1>7. PICK call : call = [calls[c] EXCEPT !.stage = s, !.at = at, !.done = done]
  OBVIOUS
<1>8. /\ call \in Call /\ call.stage = s /\ call.base = calls[c].base /\ call.at = at
  BY <1>1, <1>2, <1>3, <1>6, <1>7 DEF Call
<1>9. Becomes(c, call)
  BY <1>3, <1>4, <1>7 DEF ContinueAt
<1>10. Approval'
  BY <1>1, ApprovalGrows
<1>11. InPlan(call) /\ CallOk(call)' /\ Minds(call)
  BY <1>1, <1>3, <1>5, <1>6, <1>8, <1>10, ExecutionOk
<1> QED BY <1>5, <1>8, <1>9, <1>11, QuietKeeps

\* The next stage within a step, with or without one more step done.
LEMMA WithinStep ==
    ASSUME Inv, Grows, route # "none", NEW c \in Calls, calls[c].stage \in Loop \cap AtStep,
           NEW call \in Call, Becomes(c, call), call.stage \in Loop \cap AtStep,
           call.base = calls[c].base, call.at = calls[c].at, Untouched,
           call.stage = "ready" => task.status # "cancelled"
    PROVE  Inv'
<1>1. /\ calls[c].base.plan \in Plans /\ Approval
      /\ calls[c].base.status = "in_progress"
      /\ calls[c].at \in 1..Size[calls[c].base.plan]
  BY LoopFacts
<1>2. Approval'
  BY <1>1, ApprovalGrows
<1>3. call.stage \notin {"closing", "reclosing"}
  BY DEF AtStep
<1>4. InPlan(call) /\ CallOk(call)' /\ Minds(call)
  BY <1>1, <1>2, <1>3, ExecutionOk
<1> QED BY <1>4, QuietKeeps

LEMMA ExceptsKeeps ==
    ASSUME Inv, Grows, route # "none", NEW c \in Calls, Excepts(c)
    PROVE  Inv'
BY GoesPlain, PlainStages DEF Excepts, Plain

LEMMA CheckKeeps == ASSUME Inv, NEW c \in Calls, Check(c) PROVE Inv'
<1>1. route # "none" /\ calls[c].stage \in Loop \cap AtStep
  BY Running DEF Check, Loop, AtStep
<1>2. Grows
  BY <1>1, RestGrows DEF Check, Excepts
<1>3. CASE task.status = "cancelled" /\ End(c) /\ Untouched
  BY <1>1, <1>2, <1>3, EndPlain
<1>4. ASSUME NEW s \in {"check", "ready"}, task.status # "cancelled", Goes(c, s), Untouched
      PROVE  Inv'
  <2>1. PICK call : call = [calls[c] EXCEPT !.stage = s]
    OBVIOUS
  <2>2. s \in Stages /\ s \in Loop \cap AtStep
    BY DEF Stages, Loop, AtStep
  <2>3. /\ call \in Call /\ call.stage = s /\ call.base = calls[c].base
        /\ call.at = calls[c].at /\ Becomes(c, call)
    BY <1>4, <2>1, <2>2, BaseFacts, CallTypes DEF Goes
  <2> QED BY <1>1, <1>2, <1>4, <2>2, <2>3, WithinStep
<1>5. CASE Excepts(c)
  BY <1>1, <1>2, <1>5, ExceptsKeeps
<1> QED BY <1>3, <1>4, <1>5 DEF Check

\* A step begun counts as late when the task is cancelled: the count was 0 since
\* the execution found it was not.
LEMMA BegunKeeps ==
    ASSUME Inv, Grows, route # "none", NEW c \in Calls, calls[c].stage = "ready",
           Goes(c, "running"), UNCHANGED task,
           late' = IF task.status = "cancelled" THEN [late EXCEPT ![c] = @ + 1] ELSE late
    PROVE  Inv'
<1>1. PICK call : call = [calls[c] EXCEPT !.stage = "running"]
  OBVIOUS
<1>2. "running" \in Stages /\ "running" \in Loop \cap AtStep /\ calls[c].stage \in Loop \cap AtStep
  BY DEF Stages, Loop, AtStep
<1>3. /\ call \in Call /\ call.stage = "running" /\ call.base = calls[c].base
      /\ call.at = calls[c].at /\ Becomes(c, call)
  BY <1>1, <1>2, BaseFacts, CallTypes DEF Goes
<1>4. /\ calls[c].base.plan \in Plans /\ Approval
      /\ calls[c].base.status = "in_progress"
      /\ calls[c].at \in 1..Size[calls[c].base.plan]
  BY <1>2, LoopFacts
<1>5. Approval'
  BY <1>4, Running, ApprovalGrows
<1>6. InPlan(call) /\ CallOk(call)' /\ Minds(call)
  BY <1>2, <1>3, <1>4, <1>5, ExecutionOk
<1>7. PICK mode : mode = task.mode
  OBVIOUS
<1>8. Earned(mode)'
  BY <1>7, BaseFacts, EarnedGrows
<1>9. Earned(task.mode)' /\ task' \in Task
  BY <1>7, <1>8, BaseFacts
<1>10. late \in [Calls -> Nat] /\ \A d \in Calls : LateOk(d)
  BY DEF Inv, TypeOK
<1>11. late[c] = 0
  BY <1>10 DEF LateOk
<1>12. late' \in [Calls -> Nat] /\ (\A d \in Calls : d # c => late'[d] = late[d])
       /\ late'[c] \in 0..1 /\ (task.status # "cancelled" => late'[c] = 0)
  BY <1>10, <1>11
<1>13. ASSUME NEW d \in Calls PROVE LateOk(d)'
  <2>1. CASE d = c
    <3>1. calls'[c].stage # "ready"
      BY <1>3, BecomesFacts DEF Inv
    <3> QED BY <1>12, <2>1, <3>1 DEF LateOk
  <2>2. CASE d # c
    <3>1. calls'[d] = calls[d]
      BY <1>3, <2>2, BecomesFacts DEF Inv
    <3> QED BY <1>10, <1>12, <2>2, <3>1 DEF LateOk
  <2> QED BY <2>1, <2>2
<1>14. StillMinded(c, call)
  BY <1>6 DEF StillMinded
<1> QED BY <1>3, <1>6, <1>9, <1>12, <1>13, <1>14, StepKeeps

LEMMA BeginStepKeeps == ASSUME Inv, NEW c \in Calls, BeginStep(c) PROVE Inv'
<1>1. route # "none" /\ calls[c].stage \in Loop \cap AtStep /\ calls[c].stage = "ready"
  BY Running DEF BeginStep, Loop, AtStep
<1>2. Grows
  BY <1>1, RestGrows DEF BeginStep, Excepts
<1>3. CASE ContinueAt(c, calls[c].at + 1, calls[c].done) /\ Untouched
  <2>1. calls[c].done \in SUBSET Nat
    BY BaseFacts DEF Call
  <2> QED BY <1>1, <1>2, <1>3, <2>1, ContinueKeeps
<1>4. CASE Excepts(c)
  BY <1>1, <1>2, <1>4, ExceptsKeeps
<1>5. CASE /\ Goes(c, "running") /\ UNCHANGED task
           /\ late' = IF task.status = "cancelled" THEN [late EXCEPT ![c] = @ + 1] ELSE late
  BY <1>1, <1>2, <1>5, BegunKeeps
<1> QED BY <1>3, <1>4, <1>5 DEF BeginStep

LEMMA EndStepKeeps == ASSUME Inv, NEW c \in Calls, EndStep(c) PROVE Inv'
<1>1. route # "none" /\ calls[c].stage \in Loop \cap AtStep
  BY Running DEF EndStep, Loop, AtStep
<1>2. Grows /\ Untouched
  BY <1>1, RestGrows DEF EndStep
<1>3. {"recording", "breaking"} \subseteq Stages \cap Loop \cap AtStep
  BY DEF Stages, Loop, AtStep
<1>4. CASE Becomes(c, [calls[c] EXCEPT !.stage = "recording", !.done = @ \cup {calls[c].at}])
  <2>1. PICK call : call = [calls[c] EXCEPT !.stage = "recording", !.done = @ \cup {calls[c].at}]
    OBVIOUS
  <2>2. /\ call \in Call /\ call.stage = "recording" /\ call.base = calls[c].base
        /\ call.at = calls[c].at
    BY <1>3, <2>1, BaseFacts DEF Call
  <2>3. Becomes(c, call)
    BY <1>4, <2>1
  <2> QED BY <1>1, <1>2, <1>3, <2>2, <2>3, WithinStep
<1>5. ASSUME NEW s \in {"recording", "breaking"}, Goes(c, s) PROVE Inv'
  <2>1. PICK call : call = [calls[c] EXCEPT !.stage = s]
    OBVIOUS
  <2>2. /\ call \in Call /\ call.stage = s /\ call.base = calls[c].base
        /\ call.at = calls[c].at /\ Becomes(c, call)
    BY <1>3, <1>5, <2>1, BaseFacts, CallTypes DEF Goes
  <2> QED BY <1>1, <1>2, <1>3, <2>2, WithinStep
<1> QED BY <1>4, <1>5 DEF EndStep

LEMMA SaveStepKeeps == ASSUME Inv, NEW c \in Calls, SaveStep(c) PROVE Inv'
<1>1. route # "none" /\ calls[c].stage \in Loop \cap AtStep
  BY Running DEF SaveStep, Loop, AtStep
<1>2. Grows
  BY <1>1, RestGrows DEF SaveStep, Excepts
<1>3. CASE ContinueAt(c, calls[c].at + 1, calls[c].done) /\ Untouched
  <2>1. calls[c].done \in SUBSET Nat
    BY BaseFacts DEF Call
  <2> QED BY <1>1, <1>2, <1>3, <2>1, ContinueKeeps
<1>4. CASE Excepts(c)
  BY <1>1, <1>2, <1>4, ExceptsKeeps
<1> QED BY <1>3, <1>4 DEF SaveStep

LEMMA BuildGrows ==
    ASSUME Inv, NEW c \in Calls, SaveBuild(c)
    PROVE  Grows
<1>1. route # "none"
  BY Running DEF SaveBuild
<1>2. faults' \in Nat
  BY DEF SaveBuild, NoFault, Excepts, Fault, Inv, TypeOK
<1>3. lost' = lost
  BY DEF SaveBuild, NoFault, Excepts
<1>4. approved' \in BOOLEAN /\ (approved => approved')
  BY DEF SaveBuild, Inv, TypeOK
<1>5. route' = route /\ requests' = requests /\ ranThrough' = ranThrough
  BY DEF SaveBuild
<1> QED BY <1>1, <1>2, <1>3, <1>4, <1>5 DEF Grows, Inv, TypeOK

LEMMA SaveBuildKeeps == ASSUME Inv, NEW c \in Calls, SaveBuild(c) PROVE Inv'
<1>1. route # "none" /\ ~Minds(calls[c])
  BY Running, NotMinding DEF SaveBuild, Loop
<1>2. Grows
  BY BuildGrows
<1>3. CASE Excepts(c)
  BY <1>1, <1>2, <1>3, ExceptsKeeps
<1>4. PICK built : built = [calls[c].base EXCEPT !.mode = "BUILD"]
  OBVIOUS
<1>5. CASE /\ Save(c, built) /\ approved'
           /\ Becomes(c, [calls[c] EXCEPT !.base = built,
                 !.stage = IF built.plan = NoPlan THEN "excepting" ELSE "starting"])
  <2>1. built \in Task /\ built.mode = "BUILD" /\ built.status = calls[c].base.status
    BY <1>4, BaseFacts, Changed, Names
  <2>2. PICK s : s = IF built.plan = NoPlan THEN "excepting" ELSE "starting"
    OBVIOUS
  <2>3. s \in {"excepting", "starting"} /\ (s = "starting" => built.plan \in Plans)
    BY <2>1, <2>2 DEF Task
  <2>4. s \in Stages
    BY <2>3 DEF Stages
  <2>5. PICK call : call = [calls[c] EXCEPT !.base = built, !.stage = s]
    OBVIOUS
  <2>6. call \in Call /\ call.stage = s /\ call.base = built
    BY <2>1, <2>4, <2>5, BaseFacts DEF Call
  <2>7. Becomes(c, call)
    BY <1>5, <2>2, <2>5
  <2>8. Approval' /\ Earned(built.mode)'
    BY <1>5, <2>1 DEF Earned, Approval
  <2>9. InPlan(call) /\ CallOk(call)'
    <3>1. call.stage \notin Loop \cup {"building", "directing", "navigating", "returning"}
      BY <2>3, <2>6 DEF Loop
    <3>2. InPlan(call)
      BY <2>3, <2>6, <3>1 DEF InPlan, Loop
    <3>3. Earned(call.base.mode)'
      BY <2>6, <2>8
    <3>4. call.stage \notin {"closing", "reclosing"}
      BY <2>3, <2>6
    <3> QED BY <2>8, <3>1, <3>2, <3>3, <3>4 DEF CallOk
  <2> QED BY <1>1, <1>2, <1>5, <2>1, <2>3, <2>6, <2>7, <2>8, <2>9, SaveKeeps
<1> QED BY <1>3, <1>4, <1>5 DEF SaveBuild

LEMMA StartKeeps == ASSUME Inv, NEW c \in Calls, Start(c) PROVE Inv'
<1>1. route # "none" /\ Approval /\ calls[c].base.plan \in Plans
  BY Running, BaseFacts DEF Start, CallOk, InPlan
<1>2. Grows
  BY <1>1, RestGrows DEF Start, Excepts
<1>3. CASE Excepts(c)
  BY <1>1, <1>2, <1>3, ExceptsKeeps
<1>4. PICK started : started = [calls[c].base EXCEPT !.status = "in_progress"]
  OBVIOUS
<1>5. CASE /\ Save(c, started)
           /\ Becomes(c, [calls[c] EXCEPT !.base = started, !.at = 1, !.done = {},
                                          !.stage = LoopAt(started.plan, 1)])
  <2>1. /\ started \in Task /\ started.mode = calls[c].base.mode
        /\ started.status = "in_progress" /\ started.plan = calls[c].base.plan
    BY <1>4, BaseFacts, Changed, Names
  <2>2. PICK s : s = LoopAt(started.plan, 1)
    OBVIOUS
  <2>3. s \in {"verifying", "phase", "check"} /\ (s # "verifying" => 1 \in 1..Size[started.plan])
    BY <1>1, <2>1, <2>2, LoopAtFacts
  <2>4. s \in Stages /\ s \in Loop /\ (s \in AtStep => s # "verifying")
        /\ s \notin {"closing", "reclosing", "ready"}
    BY <2>3 DEF Stages, Loop, AtStep
  <2>5. PICK call : call = [calls[c] EXCEPT !.base = started, !.at = 1, !.done = {}, !.stage = s]
    OBVIOUS
  <2>6. call \in Call /\ call.stage = s /\ call.base = started /\ call.at = 1
    BY <2>1, <2>4, <2>5, BaseFacts DEF Call
  <2>7. Becomes(c, call)
    BY <1>5, <2>2, <2>5
  <2>8. Approval' /\ Earned(started.mode)'
    BY <1>1, <1>2, <2>1, BaseEarned, ApprovalGrows
  <2>9. InPlan(call) /\ CallOk(call)' /\ Minds(call)
    BY <1>1, <1>2, <2>1, <2>3, <2>4, <2>6, <2>8, ExecutionOk
  <2> QED BY <1>1, <1>2, <1>5, <2>1, <2>4, <2>6, <2>7, <2>8, <2>9, SaveKeeps
<1> QED BY <1>3, <1>4, <1>5 DEF Start

LEMMA SaveBrokenKeeps == ASSUME Inv, NEW c \in Calls, SaveBroken(c) PROVE Inv'
<1>1. route # "none"
  BY Running DEF SaveBroken
<1>2. Grows
  BY <1>1, RestGrows DEF SaveBroken, Excepts
<1>3. CASE Excepts(c)
  BY <1>1, <1>2, <1>3, ExceptsKeeps
<1>4. CASE Save(c, [calls[c].base EXCEPT !.status = "failed"]) /\ Goes(c, "excepting")
  <2>1. PICK new : new = [calls[c].base EXCEPT !.status = "failed"]
    OBVIOUS
  <2>2. /\ new \in Task /\ new.mode = calls[c].base.mode /\ Save(c, new)
    BY <1>4, <2>1, BaseFacts, Changed, Names
  <2>3. Earned(new.mode)'
    BY <1>1, <1>2, <2>2, BaseEarned
  <2>4. PICK call : call = [calls[c] EXCEPT !.stage = "excepting"]
    OBVIOUS
  <2>5. call \in Call /\ call.stage = "excepting" /\ call.base = calls[c].base /\ Becomes(c, call)
    BY <1>4, <2>4, BaseFacts, CallTypes, PlainStages DEF Plain, Goes
  <2>6. Minds(call)
    BY <2>5 DEF Minds
  <2> QED BY <1>1, <1>2, <2>2, <2>3, <2>5, <2>6, PlainSave DEF Plain
<1> QED BY <1>3, <1>4 DEF SaveBroken

LEMMA VerifyGrows ==
    ASSUME Inv, NEW c \in Calls, SaveVerify(c)
    PROVE  Grows
<1>1. route # "none"
  BY Running DEF SaveVerify
<1>2. faults' \in Nat
  BY DEF SaveVerify, NoFault, Excepts, Fault, Inv, TypeOK
<1>3. lost' = lost
  BY DEF SaveVerify, NoFault, Excepts
<1>4. ranThrough' \in BOOLEAN /\ (ranThrough => ranThrough')
  BY DEF SaveVerify, Inv, TypeOK
<1>5. route' = route /\ requests' = requests /\ approved' = approved
  BY DEF SaveVerify
<1> QED BY <1>1, <1>2, <1>3, <1>4, <1>5 DEF Grows, Inv, TypeOK

LEMMA SaveVerifyKeeps == ASSUME Inv, NEW c \in Calls, SaveVerify(c) PROVE Inv'
<1>1. route # "none" /\ calls[c].stage \in Loop
  BY Running DEF SaveVerify, Loop
<1>2. Grows
  BY VerifyGrows
<1>3. CASE Excepts(c)
  BY <1>1, <1>2, <1>3, ExceptsKeeps
<1>4. PICK verified : verified = [calls[c].base EXCEPT !.mode = "VERIFY"]
  OBVIOUS
<1>5. CASE /\ Save(c, verified) /\ ranThrough'
           /\ Becomes(c, [calls[c] EXCEPT !.base = verified, !.stage = "closing"])
  <2>1. /\ verified \in Task /\ verified.mode = "VERIFY"
        /\ verified.status = calls[c].base.status /\ verified.plan = calls[c].base.plan
    BY <1>4, BaseFacts, Changed, Names
  <2>2. PICK call : call = [calls[c] EXCEPT !.base = verified, !.stage = "closing"]
    OBVIOUS
  <2>3. "closing" \in Stages /\ "closing" \in Loop
    BY DEF Stages, Loop
  <2>4. call \in Call /\ call.stage = "closing" /\ call.base = verified
    BY <2>1, <2>2, <2>3, BaseFacts DEF Call
  <2>5. Becomes(c, call)
    BY <1>5, <2>2
  <2>6. calls[c].base.plan \in Plans /\ calls[c].base.status = "in_progress" /\ Approval
    BY <1>1, LoopFacts
  <2>7. Approval' /\ Earned(verified.mode)'
    BY <1>1, <1>2, <1>5, <2>1, <2>6, ApprovalGrows DEF Earned
  <2>8. InPlan(call) /\ Minds(call)
    BY <2>1, <2>3, <2>4, <2>6 DEF InPlan, Minds
  <2>9. CallOk(call)'
    <3>1. Earned(call.base.mode)'
      BY <2>4, <2>7
    <3> QED BY <1>5, <2>1, <2>4, <2>6, <2>7, <3>1 DEF CallOk
  <2> QED BY <1>1, <1>2, <1>5, <2>1, <2>4, <2>5, <2>7, <2>8, <2>9, SaveKeeps
<1> QED BY <1>3, <1>4, <1>5 DEF SaveVerify

LEMMA SaveDoneKeeps == ASSUME Inv, NEW c \in Calls, SaveDone(c) PROVE Inv'
<1>1. /\ route # "none" /\ calls[c].stage \in {"closing", "reclosing"}
      /\ calls[c].stage \in Loop
  BY Running DEF SaveDone, Loop
<1>2. Grows
  BY <1>1, RestGrows DEF SaveDone
<1>3. /\ calls[c].base.plan \in Plans /\ calls[c].base.status = "in_progress"
      /\ Approval /\ ranThrough
  BY <1>1, LoopFacts, BaseFacts DEF CallOk
<1>4. Approval' /\ ranThrough'
  BY <1>1, <1>2, <1>3, ApprovalGrows DEF Grows
<1>5. CASE Save(c, Done(calls[c].base)) /\ End(c)
  <2>1. PICK new : new = Done(calls[c].base)
    OBVIOUS
  <2>2. new \in Task /\ new.mode = "DONE" /\ new.status = "completed"
    BY <2>1, BaseFacts DEF Done, Task, Modes, Statuses
  <2>3. Earned(new.mode)' /\ Save(c, new)
    BY <1>4, <1>5, <2>1 DEF Earned
  <2> QED BY <1>1, <1>2, <1>3, <1>5, <2>2, <2>3, EndSaved
<1>6. CASE Goes(c, "reclosing") /\ Untouched
  <2>1. PICK call : call = [calls[c] EXCEPT !.stage = "reclosing"]
    OBVIOUS
  <2>2. "reclosing" \in Stages /\ "reclosing" \in Loop
    BY DEF Stages, Loop
  <2>3. /\ call \in Call /\ call.stage = "reclosing" /\ call.base = calls[c].base
        /\ Becomes(c, call)
    BY <1>6, <2>1, <2>2, BaseFacts, CallTypes DEF Goes
  <2>4. InPlan(call) /\ Minds(call)
    BY <1>3, <2>2, <2>3 DEF InPlan, Minds
  <2>5. CallOk(call)'
    <3>1. PICK base : base = call.base
      OBVIOUS
    <3>2. Earned(base.mode)'
      BY <1>1, <1>2, <2>3, <3>1, BaseEarned
    <3>3. Earned(call.base.mode)'
      BY <3>1, <3>2
    <3>4. call.base.status = "in_progress"
      BY <1>3, <2>3
    <3>5. call.stage \notin {"directing", "navigating", "returning"}
      BY <2>3
    <3> QED BY <1>4, <3>3, <3>4, <3>5 DEF CallOk
  <2> QED BY <1>1, <1>2, <1>6, <2>3, <2>4, <2>5, QuietKeeps
<1>7. CASE Goes(c, "excepting") /\ Untouched
  BY <1>1, <1>2, <1>7, GoesPlain, PlainStages DEF Plain
<1> QED BY <1>5, <1>6, <1>7 DEF SaveDone

\* The catch reads the task: in progress, and this call minds it; or it is not.
LEMMA LoadFailedKeeps == ASSUME Inv, NEW c \in Calls, LoadFailed(c) PROVE Inv'
<1>1. route # "none"
  BY Running DEF LoadFailed
<1>2. Grows /\ Untouched
  BY <1>1, RestGrows DEF LoadFailed
<1>3. CASE End(c) /\ lost'
  BY <1>1, <1>2, <1>3, EndPlain
<1>4. CASE Loaded(c, "excepted")
  <2>1. PICK call : call = [Idle EXCEPT !.stage = "excepted", !.base = task]
    OBVIOUS
  <2>2. "excepted" \in Plain /\ "excepted" \in Stages
    BY DEF Plain, Stages
  <2>3. call \in Call /\ call.stage = "excepted" /\ call.base = task /\ Becomes(c, call)
    BY <1>4, <2>1, <2>2, BaseFacts, LoadedTypes DEF Loaded
  <2>4. Minds(call) \/ task.status # "in_progress"
    BY <2>3 DEF Minds
  <2> QED BY <1>1, <1>2, <2>2, <2>3, <2>4, PlainQuiet
<1> QED BY <1>3, <1>4 DEF LoadFailed

LEMMA SaveFailedKeeps == ASSUME Inv, NEW c \in Calls, SaveFailed(c) PROVE Inv'
<1>1. route # "none"
  BY Running DEF SaveFailed
<1>2. Grows /\ End(c)
  BY <1>1, RestGrows DEF SaveFailed
<1>3. CASE Untouched /\ lost'
  BY <1>1, <1>2, <1>3, EndPlain
<1>4. CASE Save(c, [calls[c].base EXCEPT !.status = "failed"])
  <2>1. PICK new : new = [calls[c].base EXCEPT !.status = "failed"]
    OBVIOUS
  <2>2. /\ new \in Task /\ new.mode = calls[c].base.mode
        /\ new.status = "failed" /\ Save(c, new)
    BY <1>4, <2>1, BaseFacts, Changed, Names
  <2>3. Earned(new.mode)'
    BY <1>1, <1>2, <2>2, BaseEarned
  <2>4. calls[c].base.status = "failed" => ~Minds(calls[c])
    BY DEF SaveFailed, Minds, Loop
  <2> QED BY <1>1, <1>2, <2>2, <2>3, <2>4, EndSaved DEF Statuses
<1> QED BY <1>3, <1>4 DEF SaveFailed

-----------------------------------------------------------------------------
(* The task's creation, and the death of a process *)

LEMMA CreateKeeps == ASSUME Inv, NEW c \in Calls, Create(c) PROVE Inv'
<1>1. task = NewTask /\ calls = [d \in Calls |-> Idle] /\ route = "none"
  BY DEF Create, Inv
<1>2. /\ route' \in {"direct", "governed"} /\ task' = task /\ late' = late
      /\ UNCHANGED <<requests, faults, lost, approved, ranThrough>>
  BY DEF Create, Untouched, NoFault
<1>3. PICK s : s = IF route' = "direct" THEN "directing" ELSE "scoping"
  OBVIOUS
<1>4. s \in {"directing", "scoping"} /\ (s = "directing" => route' = "direct") /\ Loaded(c, s)
  BY <1>2, <1>3 DEF Create
<1>5. s \in Stages
  BY <1>4 DEF Stages
<1>6. PICK call : call = [Idle EXCEPT !.stage = s, !.base = task]
  OBVIOUS
<1>7. call \in Call /\ call.stage = s /\ call.base = NewTask /\ Becomes(c, call)
  BY <1>1, <1>4, <1>5, <1>6, BaseFacts, LoadedTypes DEF Loaded
<1>8. calls' \in [Calls -> Call] /\ \A d \in Calls : calls'[d] = IF d = c THEN call ELSE Idle
  <2>1. \A d \in Calls : calls[d] = Idle
    BY <1>1
  <2> QED BY <1>7, <2>1, BecomesFacts DEF Inv
<1>9. NewTask.mode = "SCOPE" /\ NewTask.status = "pending"
  BY DEF NewTask
<1>10. \A d \in Calls : calls'[d].stage \in {"idle", s} /\ calls'[d].base = NewTask
  BY <1>7, <1>8, IdleType
<1>11. ASSUME NEW d \in Calls PROVE InPlan(calls'[d]) /\ CallOk(calls[d])'
  <2>1. calls'[d].stage \in {"idle", "directing", "scoping"}
    BY <1>4, <1>10
  <2>2. calls'[d].stage \notin Loop \cup {"building", "starting", "closing", "reclosing",
                                          "navigating", "returning"}
    BY <2>1 DEF Loop
  <2>3. InPlan(calls'[d])
    BY <2>1 DEF InPlan, Loop
  <2>4. Earned(calls[d].base.mode)'
    BY <1>9, <1>10 DEF Earned
  <2>5. calls'[d].stage = "directing" => route' = "direct"
    BY <1>4, <1>10
  <2> QED BY <2>2, <2>3, <2>4, <2>5 DEF CallOk
<1>12. TypeOK'
  <2>1. \A d \in Calls : InPlan(calls[d])'
    BY <1>11 DEF InPlan
  <2> QED BY <1>2, <1>8, <2>1 DEF TypeOK, Inv
<1>13. ASSUME NEW d \in Calls PROVE LateOk(d)'
  <2>1. calls'[d].stage # "ready"
    BY <1>4, <1>10
  <2>2. LateOk(d)
    BY DEF Inv
  <2> QED BY <1>2, <2>1, <2>2 DEF LateOk
<1>14. Earned(task.mode)'
  BY <1>1, <1>2, <1>9 DEF Earned
<1>15. InProgressIsMinded' /\ route' # "none"
  BY <1>1, <1>2, <1>9 DEF InProgressIsMinded
<1>16. \A d \in Calls : CallOk(calls[d])'
  BY <1>11
<1> QED BY <1>12, <1>13, <1>14, <1>15, <1>16 DEF Inv

LEMMA CrashKeeps == ASSUME Inv, Crash PROVE Inv'
<1>1. PICK dead \in SUBSET Calls :
        /\ \E c \in dead : calls[c].stage # "idle"
        /\ calls' = [c \in Calls |-> IF c \in dead THEN Idle ELSE calls[c]]
  BY DEF Crash
<1>2. route # "none"
  BY <1>1, Running
<1>3. lost' /\ Untouched /\ Rest
  BY DEF Crash
<1>4. Grows
  BY <1>2, RestGrows DEF Crash
<1>5. calls' \in [Calls -> Call] /\ \A d \in Calls : calls'[d] \in {Idle, calls[d]}
  BY <1>1, IdleType DEF Inv, TypeOK
<1>6. ASSUME NEW d \in Calls PROVE InPlan(calls'[d]) /\ CallOk(calls[d])' /\ LateOk(d)'
  <2>1. PICK k : k = calls'[d]
    OBVIOUS
  <2>2. InPlan(k) /\ CallOk(k)
    <3>1. CASE k = calls[d]
      BY <3>1, BaseFacts
    <3>2. CASE k = Idle
      <4>1. k.stage = "idle" /\ k.base.mode = "SCOPE"
        BY <3>2, IdleType DEF NewTask
      <4> QED BY <4>1 DEF InPlan, CallOk, Earned, Loop
    <3> QED BY <1>5, <2>1, <3>1, <3>2
  <2>3. CallOk(k)'
    BY <1>2, <1>4, <2>2, CallOkGrows
  <2>4. CallOk(calls[d])'
    BY <2>1, <2>3 DEF CallOk, Earned
  <2>5. calls'[d].stage = "ready" => calls[d].stage = "ready"
    BY <1>5, IdleType
  <2>6. LateOk(d)'
    BY <1>3, <2>5 DEF Inv, LateOk, Untouched
  <2> QED BY <2>1, <2>2, <2>4, <2>6
<1>7. TypeOK'
  <2>1. \A d \in Calls : InPlan(calls[d])'
    BY <1>6 DEF InPlan
  <2> QED BY <1>3, <1>5, <1>4, <2>1 DEF TypeOK, Inv, Grows, Untouched
<1>8. PICK mode : mode = task.mode
  OBVIOUS
<1>9. Earned(mode)
  BY <1>8 DEF Inv
<1>10. Earned(mode)'
  BY <1>2, <1>4, <1>9, EarnedGrows
<1>11. Earned(task.mode)'
  BY <1>3, <1>8, <1>10 DEF Untouched
<1>12. InProgressIsMinded' /\ route' # "none"
  BY <1>2, <1>3 DEF InProgressIsMinded, Rest
<1>13. \A d \in Calls : CallOk(calls[d])' /\ LateOk(d)'
  BY <1>6
<1> QED BY <1>7, <1>11, <1>12, <1>13 DEF Inv

-----------------------------------------------------------------------------
(* The invariant *)

LEMMA InitInv == Init => Inv
<1> SUFFICES ASSUME Init PROVE Inv
  OBVIOUS
<1>1. NewTask.mode = "SCOPE" /\ NewTask.status = "pending" /\ NewTask \in Task
  BY TaskTypes DEF NewTask
<1>2. \A c \in Calls : calls[c] = Idle
  BY DEF Init
<1>3. InPlan(Idle) /\ CallOk(Idle) /\ Idle.stage # "ready"
  <2>1. Idle.stage = "idle" /\ Idle.base.mode = "SCOPE"
    BY <1>1, IdleType
  <2> QED BY <2>1 DEF InPlan, CallOk, Earned, Loop
<1>4. TypeOK
  BY <1>1, <1>2, <1>3, IdleType DEF Init, TypeOK
<1>5. ASSUME NEW c \in Calls PROVE CallOk(calls[c]) /\ LateOk(c)
  <2>1. calls[c] = Idle /\ late[c] = 0
    BY <1>2 DEF Init
  <2> QED BY <1>3, <2>1 DEF LateOk
<1>6. Earned(task.mode) /\ InProgressIsMinded
  BY <1>1 DEF Init, Earned, InProgressIsMinded
<1> QED BY <1>4, <1>5, <1>6 DEF Init, Inv

LEMMA HandledKeeps == ASSUME Inv, NEW c \in Calls, Handled(c) PROVE Inv'
BY DirectKeeps, LoadScopeKeeps, SaveScopeKeeps, SaveAnswersKeeps, LoadForPlanKeeps,
   SavePlanKeeps, MarkFailedKeeps, SaveModifiedKeeps, SaveBuildKeeps, StartKeeps, CheckKeeps,
   BeginStepKeeps, EndStepKeeps, SaveStepKeeps, SaveBrokenKeeps, SaveVerifyKeeps, SaveDoneKeeps,
   LoadFailedKeeps, SaveFailedKeeps, SaveCancelledKeeps, SaveReturnedKeeps, SaveNavigatedKeeps
   DEF Handled

LEMMA RequestedKeeps == ASSUME Inv, NEW c \in Calls, Requested(c) PROVE Inv'
BY CreateKeeps, RequestKeeps, ApproveKeeps, GoBackKeeps, NavigateKeeps DEF Requested

LEMMA StutterKeeps == ASSUME Inv, UNCHANGED vars PROVE Inv'
<1> USE DEF vars
<1>1. TypeOK'
  BY DEF Inv, TypeOK, InPlan
<1>2. Earned(task.mode)' /\ \A c \in Calls : CallOk(calls[c])'
  BY DEF Inv, CallOk, Earned, Approval
<1>3. \A c \in Calls : LateOk(c)'
  BY DEF Inv, LateOk
<1>4. InProgressIsMinded'
  BY DEF Inv, InProgressIsMinded, Minds
<1> QED BY <1>1, <1>2, <1>3, <1>4 DEF Inv

\* Every step of every handler keeps what the handlers' copies promise.
THEOREM Invariance == Spec => []Inv
<1>1. Inv /\ [Next]_vars => Inv'
  BY HandledKeeps, RequestedKeeps, CrashKeeps, StutterKeeps DEF Next
<1> QED BY InitInv, <1>1, PTL DEF Spec

\* Types, and an execution is at a step its plan has.
THEOREM TypeCorrect == Spec => []TypeOK
<1>1. Inv => TypeOK
  BY DEF Inv
<1> QED BY <1>1, Invariance, PTL

\* A planned task in progress is minded by an execution, unless a fault intervened.
THEOREM ProgressMinded == Spec => []InProgressIsMinded
<1>1. Inv => InProgressIsMinded
  BY DEF Inv
<1> QED BY <1>1, Invariance, PTL

\* An execution begins at most one step of a task that is and stays cancelled.
THEOREM CancelStopsExecution == Spec => []CancelStops
<1>1. ASSUME Inv PROVE CancelStops
  <2>1. \A c \in Calls : late[c] \in 0..1
    BY <1>1 DEF Inv, LateOk
  <2>2. ASSUME NEW c \in Calls PROVE late[c] <= 1
    BY <2>1
  <2> QED BY <2>2 DEF CancelStops
<1> QED BY <1>1, Invariance, PTL

\* Building waits for an approval, and verification for the end of the plan.
THEOREM ModesEarned == Spec => []ModeEarned
<1>1. Inv => ModeEarned
  BY DEF Inv, Earned, Approval, ModeEarned
<1> QED BY <1>1, Invariance, PTL

=============================================================================
