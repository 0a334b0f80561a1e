------------------------------- MODULE MCGoals -------------------------------
(* Two missions that want the one GPU, and an exclusive one after the first. *)
EXTENDS Goals

MCDepends == [n \in Nodes |-> IF n = 3 THEN {1} ELSE {}]
MCPriority == [n \in Nodes |-> IF n = 2 THEN 1 ELSE 0]
MCDemand == [n \in Nodes |-> [cpu |-> 1, gpu |-> IF n = 3 THEN 0 ELSE 1]]
MCCapacity == [cpu |-> 2, gpu |-> 1]
MCSubrunBudget == [n \in Nodes |-> IF n = 3 THEN 2 ELSE 1]
MCMaxAttempts == [n \in Nodes |-> 1]
=============================================================================
