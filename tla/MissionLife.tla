----------------------------- MODULE MissionLife -----------------------------
(***************************************************************************)
(* One mission as schedulers see it (graph/evidence.py,                    *)
(* graph/scheduler/evidence.py): how far its document is, and whether a    *)
(* phase of it is RUNNING.  Phases implements this; Goals relies on it.    *)
(***************************************************************************)

(* Not started, in PLANNING, in one of the states the goal loop continues, *)
(* COMPLETE, or BLOCKED or FAILED.                                         *)
Stages == {"new", "planning", "working", "complete", "blocked"}

Lives == [stage : Stages, open : BOOLEAN]

Unborn == [stage |-> "new", open |-> FALSE]

Terminal(l) == l.stage \in {"complete", "blocked"}

(* Started and not terminal: it owns its resources. *)
Active(l) == l.stage \in {"planning", "working"}

(* PLANNING is never entered again. *)
Stays(l) == IF l.stage = "working" THEN {"working"} ELSE {"planning", "working"}

(* A sub-run is begun, never beside one that is open. *)
Launched(l) ==
  IF Terminal(l) \/ l.open THEN {} ELSE [stage : Stays(l), open : {TRUE}]

(* The sub-run in flight is recorded, by its session or a reconstruction. *)
Recorded(l) ==
  IF Active(l) /\ l.open
    THEN [stage : Stays(l) \cup {"complete", "blocked"}, open : {FALSE}]
    ELSE {}

(* A guard, a budget or the evidence stops the mission. *)
Stopped(l) == IF Terminal(l) THEN {} ELSE {[l EXCEPT !.stage = "blocked"]}

Successors(l) == Launched(l) \cup Recorded(l) \cup Stopped(l)
=============================================================================
