----------------------------- MODULE PhasesLife -----------------------------
(* A mission document lives the life its schedulers count on. *)
EXTENDS Phases, MissionLife

(* MissionRuntimeEvidence of the document. *)
LifeOf(d) ==
  [stage |-> CASE d.state = "COMPLETE"             -> "complete"
               [] d.state \in {"BLOCKED", "FAILED"} -> "blocked"
               [] d.state \notin Ended /\ ~d.begun  -> "new"
               [] d.state = "PLANNING" /\ d.begun   -> "planning"
               [] OTHER                             -> "working",
   open |-> \E i \in DOMAIN d.phases : d.phases[i].state = "RUNNING"]

(* Whatever a session, a reconstruction or a crash does to the mission     *)
(* document, a scheduler that reads it sees one of the steps of            *)
(* MissionLife: a terminal mission stays so, PLANNING is never entered     *)
(* again, and only a recorded sub-run or a reconstruction closes a phase.  *)
LivesAsPromised ==
  /\ LifeOf(mission) = Unborn
  /\ [][LifeOf(mission)' \in Successors(LifeOf(mission)) \cup {LifeOf(mission)}]_mission
=============================================================================
