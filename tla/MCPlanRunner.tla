---------------------------- MODULE MCPlanRunner ----------------------------
(***************************************************************************)
(* PlanRunner for TLC: a two-step plan that enters with a resting buy and  *)
(* exits with a market sell.                                               *)
(***************************************************************************)
EXTENDS PlanRunner

L(side) == [side |-> side, type |-> "limit"]
M(side) == [side |-> side, type |-> "market"]

MixedOnly == {<<L("buy"), M("sell")>>}
=============================================================================
