--------------------------- MODULE MCPlatformQueue ---------------------------
(* Missions for TLC: m2 waits for m1 and is the only one that needs no GPU; *)
(* MCPriority ranks it ahead of its elders, MCKeen beyond what ageing makes *)
(* up for.                                                                  *)
EXTENDS PlatformQueue

CONSTANTS m1, m2, m3

MCPriority == [m \in Missions |-> IF m = m2 THEN 1 ELSE 0]
MCKeen == [m \in Missions |-> IF m = m2 THEN 5 ELSE 0]
MCDepends == [m \in Missions |-> IF m = m2 THEN {m1} ELSE {}]
MCCpu == [m \in Missions |-> 1]
MCGpu == [m \in Missions |-> IF m = m2 THEN 0 ELSE 1]
=============================================================================
