----------------------------- MODULE MCPlanStore -----------------------------
(* PlanStore on a small instance: the constants come from the cfg files.   *)
EXTENDS PlanStore
=============================================================================
