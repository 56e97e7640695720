---------------------------- MODULE MCNoirProver ----------------------------
(* Model values for NoirProver and the recipes of its jobs.                *)
EXTENDS NoirProver

CONSTANTS j1, j2, j3, j4

\* NOIR_TEMPLATES against the directories of circuits/.
Templates == {"blend_utilization_policy", "sdex_exit_policy", "aqua_route_policy"}
CircuitDirs == Templates \ {"aqua_route_policy"}

RecipeDirs ==
  [j \in Jobs |-> CASE j = j3 -> "sdex_exit_policy"
                   [] j = j4 -> "aqua_route_policy"
                   [] OTHER  -> "blend_utilization_policy"]
=============================================================================
