------------------------ MODULE MCWorkflowExecution ------------------------
(* Templates over three steps: independent steps, a chain, a fork, a join, a *)
(* fork one branch of which is stuck behind an unknown id, and a circle      *)
(* beside a step that can run.                                               *)
EXTENDS WorkflowExecution, TLC

CONSTANTS a, b, c, unknown

MCSteps == {a, b, c}

MCTemplates ==
  { [s \in MCSteps |-> {}],
    (a :> {} @@ b :> {a} @@ c :> {b}),
    (a :> {} @@ b :> {a} @@ c :> {a}),
    (a :> {} @@ b :> {} @@ c :> {a, b}),
    (a :> {} @@ b :> {a} @@ c :> {a, unknown}),
    (a :> {} @@ b :> {c} @@ c :> {b}) }
=============================================================================
