----------------------------- MODULE MCPlanSync -----------------------------
(* PlanSync on a small instance: the constants come from the cfg files.    *)
EXTENDS PlanSync, TLC

(* Tabs are interchangeable; used by the runs without liveness.            *)
TabsAlike == Permutations(Tabs)
=============================================================================
