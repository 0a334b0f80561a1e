------------------------------ MODULE MCSerial ------------------------------
(* The tools one at a time: the operator runs a command only while nothing *)
(* else runs, sessions and reconstructions exclude each other by the lock. *)
EXTENDS RunsRefinement

CONSTANTS j1, j2, j3

(* No job waits. *)
MCDeps == [j \in Jobs |-> {}]

(* j2 waits for j1, j3 for nothing. *)
MCChain == [j \in Jobs |-> IF j = j2 THEN {j1} ELSE {}]
=============================================================================
