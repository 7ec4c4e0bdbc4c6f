--------------------------- MODULE MCGovernedTask ---------------------------
(* Two plans: a phase of one step and a risky one of two, the first of     *)
(* which needs that step; and a single step.                               *)
EXTENDS GovernedTask, TLC

CONSTANTS long, short

MCSize == long :> 3 @@ short :> 1
MCHeads == long :> {1, 2} @@ short :> {1}
MCCritical == long :> {2, 3} @@ short :> {}
MCNeeds == long :> (1 :> {} @@ 2 :> {1} @@ 3 :> {}) @@ short :> (1 :> {})
=============================================================================
