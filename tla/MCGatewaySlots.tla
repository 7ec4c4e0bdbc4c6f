--------------------------- MODULE MCGatewaySlots ---------------------------
(* Timestamps exceed the weight of a priority in the score, as in the code  *)
(* (1.7 * 10^12 and 10^12), and their difference does not.                  *)
EXTENDS GatewaySlots, TLC

MCPriorities == {1, 2}
MCTimes == {17, 18}

Symmetry == Permutations(Requests)
=============================================================================
