------------------------------ MODULE MCPhases ------------------------------
(* The canonical plan, each phase after the one before it. *)
EXTENDS PhasesLife

MCPlan == <<"PLAN", "IMPLEMENT", "VALIDATE", "REVIEW", "CONSOLIDATE">>
MCDepends == [i \in DOMAIN MCPlan |-> IF i = 1 THEN {} ELSE {i - 1}]
=============================================================================
