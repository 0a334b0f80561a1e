----------------------------- MODULE MissionProofs -----------------------------
(***************************************************************************)
(* Proofs about Mission, for any contents of the workspace and any bounds: *)
(* the types however many runners there are; and, for the one runner a     *)
(* mission is meant to have, that its execution is over once finalized and *)
(* that its closure says ready of what a review has passed only.           *)
(***************************************************************************)
EXTENDS Mission, TLAPS

------------------------------------------------------------------------------
(* Types. *)

(* A rejected attempt leaves a repair, or ends the run.                    *)
Repairable ==
  \A r \in Runners :
    pc[r] \notin {"complete", "verdict", "run_stop", "gate", "close"} =>
      mem[r].attempt <= MaxRepairs

Typed == MissionTypeOK /\ Repairable

LEMMA StatusTypes ==
  /\ \A ready \in Readiness : Status("COMPLETE", ready) \in Statuses
  /\ \A life \in {"NONE", "ACTIVE"} :
       Status(life, "INDETERMINATE") \in Statuses
BY DEF Status, Statuses, Readiness, Final, Patches, NoPatch

LEMMA BlankType == Blank \in Memories /\ Blank.attempt <= MaxRepairs
<1>1. Status("NONE", "INDETERMINATE") \in Statuses
  BY StatusTypes
<1>2. (CHOOSE w \in Contents : TRUE) \in Contents
  BY MissionAssumption
<1> QED BY <1>1, <1>2, MissionAssumption
    DEF Blank, Memories, Readiness, Patches, NoPatch

(* A runner's step: its types follow from those of the label it goes to    *)
(* and of the memory it keeps.                                             *)
LEMMA GotoTyped ==
  ASSUME Typed, NEW r \in Runners, NEW from, NEW to \in Steps,
         NEW keep \in Memories, Goto(r, from, to, keep),
         to \notin {"complete", "verdict", "run_stop", "gate", "close"}
           => keep.attempt <= MaxRepairs
  PROVE  /\ pc' \in [Runners -> Steps] /\ mem' \in [Runners -> Memories]
         /\ Repairable' /\ UNCHANGED operator
BY DEF Goto, Typed, MissionTypeOK, Repairable

LEMMA StepTyped ==
  ASSUME Typed, NEW r \in Runners, NEW from \in Steps, NEW to \in Steps,
         Step(r, from, to),
         from \in {"complete", "verdict", "run_stop", "gate", "close"} =>
           to \in {"idle", "complete", "verdict", "run_stop", "gate", "close"}
  PROVE  /\ pc' \in [Runners -> Steps] /\ mem' \in [Runners -> Memories]
         /\ Repairable' /\ UNCHANGED operator
<1> DEFINE keep == IF to = "idle" THEN Blank ELSE mem[r]
<1>1. keep \in Memories
  BY BlankType DEF Typed, MissionTypeOK
<1>2. Goto(r, from, to, keep) /\ pc[r] = from
  BY DEF Step, Goto
<1>3. to \notin {"complete", "verdict", "run_stop", "gate", "close"}
        => keep.attempt <= MaxRepairs
  BY <1>2, BlankType DEF Typed, Repairable
<1> HIDE DEF keep
<1> QED BY <1>1, <1>2, <1>3, GotoTyped

LateSteps == {"complete", "verdict", "run_stop", "gate", "close"}

LEMMA LookTyped ==
  ASSUME Typed, NEW r \in Runners, NEW from \in Steps, NEW to \in Steps,
         Look(r, from, to), from \in LateSteps => to \in {"idle"} \cup LateSteps
  PROVE  Typed'
<1>1. Step(r, from, to) /\ UNCHANGED <<documents, workspace, history>>
  BY DEF Look
<1>2. /\ pc' \in [Runners -> Steps] /\ mem' \in [Runners -> Memories]
      /\ Repairable' /\ UNCHANGED operator
  BY <1>1, StepTyped DEF LateSteps
<1> QED BY <1>1, <1>2
    DEF Typed, MissionTypeOK, documents, history, operator

LEMMA ReportTyped ==
  ASSUME Typed, NEW r \in Runners, NEW from \in Steps, NEW to \in Steps,
         NEW s \in Statuses, Report(r, from, to, s),
         from \in LateSteps => to \in {"idle"} \cup LateSteps
  PROVE  Typed'
<1>1. /\ pc' \in [Runners -> Steps] /\ mem' \in [Runners -> Memories]
      /\ Repairable' /\ UNCHANGED operator
  BY StepTyped DEF Report, LateSteps
<1> QED BY <1>1 DEF Report, Typed, MissionTypeOK, history, operator

(* A runner that keeps a memory of its own.                                *)
LEMMA KeepTyped ==
  ASSUME Typed, NEW r \in Runners, NEW from, NEW to \in Steps,
         NEW keep \in Memories, Goto(r, from, to, keep),
         to \notin LateSteps => keep.attempt <= MaxRepairs,
         UNCHANGED <<created, planned, preflighted, latch, workspace, crashes,
                     torn>>,
         completed' \in Readiness \cup {"NONE"}, evidence' \in Events,
         status' \in Statuses, closure' \in Statuses, passed' \subseteq Patches
  PROVE  Typed'
<1>1. /\ pc' \in [Runners -> Steps] /\ mem' \in [Runners -> Memories]
      /\ Repairable' /\ UNCHANGED operator
  BY GotoTyped DEF LateSteps
<1> QED BY <1>1 DEF Typed, MissionTypeOK, operator

LEMMA RunningType ==
  ASSUME Typed, NEW r \in Runners, NEW p \in Patches, NEW q \in Patches
  PROVE  Running(r, p, q) \in Statuses
<1>1. mem[r] \in Memories
  BY DEF Typed, MissionTypeOK
<1> QED BY <1>1 DEF Running, Statuses, Memories, Readiness, Final

(* The phases of the mission.                                              *)
LEMMA PhaseTyped ==
  ASSUME Typed, NEW r \in Runners, Start(r) \/ Resume(r) \/ PhaseStep(r)
  PROVE  Typed'
<1>0. mem[r] \in Memories /\ mem[r].status \in Statuses
  BY DEF Typed, MissionTypeOK, Memories
<1>1. CASE Start(r) \/ Phases(r) \/ StopAfterPreflight(r) \/ StopAfterPlan(r)
           \/ Execute(r) \/ StopAfterRun(r)
  <2>1. \E from, to \in Steps :
          /\ Look(r, from, to)
          /\ from \in LateSteps => to \in {"idle"} \cup LateSteps
    BY <1>1 DEF Start, Phases, StopAfterPreflight, StopAfterPlan, Execute,
       StopAfterRun, Steps, LateSteps
  <2> QED BY <2>1, LookTyped
<1>2. CASE WriteCreated(r) \/ Preflight(r) \/ Planned(r) \/ Interrupt(r)
  <2>1. \E from, to \in Steps :
          /\ Report(r, from, to, Status("ACTIVE", "INDETERMINATE"))
          /\ from \notin LateSteps
    BY <1>2 DEF WriteCreated, Preflight, Planned, Interrupt, Steps, LateSteps
  <2> QED BY <2>1, ReportTyped, StatusTypes
<1>3. CASE WriteMission(r) \/ ClearLatch(r) \/ Preflighted(r) \/ Plan(r)
  <2>1. \E from, to \in Steps : Step(r, from, to) /\ from \notin LateSteps
    BY <1>3 DEF WriteMission, ClearLatch, Preflighted, Plan, Steps, LateSteps
  <2>2. /\ pc' \in [Runners -> Steps] /\ mem' \in [Runners -> Memories]
        /\ Repairable' /\ UNCHANGED operator
    BY <2>1, StepTyped DEF LateSteps
  <2> QED BY <1>3, <2>2
      DEF WriteMission, ClearLatch, Preflighted, Plan, Typed, MissionTypeOK,
          history, operator
<1>4. CASE Resume(r)
  <2>1. [Blank EXCEPT !.point = ResumePoint] \in Memories
        /\ [Blank EXCEPT !.point = ResumePoint].attempt <= MaxRepairs
    BY BlankType DEF Memories, ResumePoint
  <2>2. Goto(r, "idle", "latch", [Blank EXCEPT !.point = ResumePoint])
    BY <1>4 DEF Resume
  <2> QED BY <1>4, <2>1, <2>2, KeepTyped
      DEF Resume, Steps, documents, history, Typed, MissionTypeOK
<1>5. CASE PreflightRejected(r)
  <2> DEFINE s == Status("COMPLETE", "BLOCKED")
  <2>1. s \in Statuses
    BY StatusTypes DEF Readiness, Final
  <2> HIDE DEF s
  <2>2. [mem[r] EXCEPT !.status = s] \in Memories
    BY <1>0, <2>1 DEF Memories
  <2>3. Goto(r, "rejected", "close", [mem[r] EXCEPT !.status = s]) /\ status' = s
    BY <1>5 DEF PreflightRejected, s
  <2> QED BY <1>5, <2>1, <2>2, <2>3, KeepTyped
      DEF PreflightRejected, Steps, LateSteps, history, Typed, MissionTypeOK
<1>6. CASE LoadStatus(r)
  <2>1. [mem[r] EXCEPT !.status = status] \in Memories
    BY <1>0 DEF Memories, Typed, MissionTypeOK
  <2>2. \E from, to \in Steps : /\ to \in LateSteps
          /\ Goto(r, from, to, [mem[r] EXCEPT !.status = status])
    BY <1>6 DEF LoadStatus, Steps, LateSteps
  <2> QED BY <1>6, <2>1, <2>2, KeepTyped
      DEF LoadStatus, documents, history, Typed, MissionTypeOK
<1>7. CASE HumanGate(r)
  <2>1. CASE Look(r, "gate", "close")
    BY <2>1, LookTyped DEF Steps, LateSteps
  <2>2. CASE ~Look(r, "gate", "close")
    <3>1. /\ [mem[r] EXCEPT !.status.ready = "BLOCKED"] \in Memories
          /\ [mem[r].status EXCEPT !.ready = "BLOCKED"] \in Statuses
      BY <1>0 DEF Memories, Statuses, Readiness, Final
    <3>2. /\ Goto(r, "gate", "close", [mem[r] EXCEPT !.status.ready = "BLOCKED"])
          /\ status' = [mem[r].status EXCEPT !.ready = "BLOCKED"]
          /\ UNCHANGED <<created, planned, preflighted, completed, evidence,
                         closure, latch, workspace, history>>
      BY <1>7, <2>2 DEF HumanGate
    <3> QED BY <3>1, <3>2, KeepTyped
        DEF Steps, LateSteps, history, Typed, MissionTypeOK
  <2> QED BY <2>1, <2>2
<1>8. CASE Close(r)
  <2>1. /\ pc' \in [Runners -> Steps] /\ mem' \in [Runners -> Memories]
        /\ Repairable' /\ UNCHANGED operator
    BY <1>8, StepTyped DEF Close, Steps
  <2> QED BY <1>0, <1>8, <2>1
      DEF Close, Typed, MissionTypeOK, history, operator
<1> QED BY <1>1, <1>2, <1>3, <1>4, <1>5, <1>6, <1>7, <1>8 DEF PhaseStep

(* The attempts of the run.                                                *)
LEMMA RunTyped ==
  ASSUME Typed, NEW r \in Runners, RunStep(r) PROVE Typed'
<1>0. /\ mem[r] \in Memories /\ mem[r].status \in Statuses
      /\ mem[r].patch \in Patches /\ mem[r].reviewed \in Patches
      /\ mem[r].current \in Patches /\ NoPatch \in Patches
      /\ <<mem[r].base, workspace>> \in Patches
      /\ mem[r].attempt \in Nat /\ MaxRepairs \in Nat
  BY MissionAssumption DEF Typed, MissionTypeOK, Memories, Patches
<1>1. CASE RunPreflight(r) \/ Implement(r) \/ Validate(r) \/ Review(r)
           \/ Repair(r) \/ Verdict(r)
  <2>1. \E from, to \in Steps, s \in Statuses :
          /\ Report(r, from, to, s)
          /\ from \in LateSteps => to \in LateSteps
    <3>1. CASE RunPreflight(r)
      BY <1>0, <3>1, RunningType DEF RunPreflight, Steps, LateSteps
    <3>2. CASE Implement(r)
      BY <1>0, <3>2, RunningType DEF Implement, Steps, LateSteps
    <3>3. CASE Validate(r)
      BY <1>0, <3>3, RunningType DEF Validate, Steps, LateSteps
    <3>4. CASE Review(r)
      BY <1>0, <3>4, RunningType DEF Review, Steps, LateSteps
    <3>5. CASE Repair(r)
      BY <1>0, <3>5, RunningType DEF Repair, Steps, LateSteps
    <3>6. CASE Verdict(r)
      BY <1>0, <3>6 DEF Verdict, Steps, LateSteps
    <3> QED BY <1>1, <3>1, <3>2, <3>3, <3>4, <3>5, <3>6
  <2> QED BY <2>1, ReportTyped
<1>2. CASE RunPreflighted(r) \/ AgentEdits(r)
  <2>1. \E from, to \in Steps : Step(r, from, to) /\ from \notin LateSteps
    BY <1>2 DEF RunPreflighted, AgentEdits, Steps, LateSteps
  <2>2. /\ pc' \in [Runners -> Steps] /\ mem' \in [Runners -> Memories]
        /\ Repairable' /\ UNCHANGED operator
    BY <2>1, StepTyped DEF LateSteps
  <2> QED BY <1>2, <2>2
      DEF RunPreflighted, AgentEdits, documents, Typed, MissionTypeOK, history,
          operator
<1>3. CASE RunRejected(r)
  <2> DEFINE s == Status("COMPLETE", "BLOCKED")
  <2>1. s \in Statuses
    BY StatusTypes DEF Readiness, Final
  <2> HIDE DEF s
  <2>2. [mem[r] EXCEPT !.status = s] \in Memories
    BY <1>0, <2>1 DEF Memories
  <2>3. /\ Goto(r, "run_rejected", "run_stop", [mem[r] EXCEPT !.status = s])
        /\ status' = s
    BY <1>3 DEF RunRejected, s
  <2> QED BY <1>3, <2>1, <2>2, <2>3, KeepTyped
      DEF RunRejected, Steps, LateSteps, history, Typed, MissionTypeOK
<1>4. CASE Baseline(r)
  <2>1. [mem[r] EXCEPT !.base = workspace] \in Memories
        /\ [mem[r] EXCEPT !.base = workspace].attempt = mem[r].attempt
    BY <1>0 DEF Memories, Typed, MissionTypeOK
  <2>2. Goto(r, "baseline", "implement", [mem[r] EXCEPT !.base = workspace])
        /\ mem[r].attempt <= MaxRepairs
    BY <1>4 DEF Baseline, Goto, Typed, Repairable
  <2> QED BY <1>4, <2>1, <2>2, KeepTyped
      DEF Baseline, Steps, documents, history, Typed, MissionTypeOK
<1>5. CASE CapturePatch(r)
  <2> DEFINE patch == <<mem[r].base, workspace>>
  <2>1. /\ [mem[r] EXCEPT !.patch = patch] \in Memories
        /\ [mem[r] EXCEPT !.patch = patch].attempt = mem[r].attempt
        /\ Ended(r, "FAILED", patch) \in Memories
    BY <1>0 DEF Ended, Memories, Readiness, Final
  <2> HIDE DEF patch
  <2>2. /\ \/ Goto(r, "capture", "validate", [mem[r] EXCEPT !.patch = patch])
           \/ Goto(r, "capture", "complete", Ended(r, "FAILED", patch))
        /\ evidence' = [kind |-> "PATCH_CAPTURED", patch |-> patch, pass |-> FALSE]
    BY <1>5 DEF CapturePatch, Record, patch
  <2>3. mem[r].attempt <= MaxRepairs
    BY <2>2 DEF Goto, Typed, Repairable
  <2>4. evidence' \in Events
    BY <1>0, <2>2 DEF Events, patch
  <2> QED BY <1>5, <2>1, <2>2, <2>3, <2>4, KeepTyped
      DEF CapturePatch, Record, Steps, LateSteps, Typed, MissionTypeOK
<1>6. CASE Validated(r)
  <2>1. Ended(r, "FAILED", mem[r].patch) \in Memories
    BY <1>0 DEF Ended, Memories, Readiness, Final
  <2>2. \/ Goto(r, "validated", "review", mem[r])
        \/ Goto(r, "validated", "complete", Ended(r, "FAILED", mem[r].patch))
    BY <1>6 DEF Validated, Step
  <2>3. mem[r].attempt <= MaxRepairs
    BY <2>2 DEF Goto, Typed, Repairable
  <2>4. evidence' \in Events
    BY <1>0, <1>6 DEF Validated, Record, Events
  <2> QED BY <1>0, <1>6, <2>1, <2>2, <2>3, <2>4, KeepTyped
      DEF Validated, Record, Steps, LateSteps, Typed, MissionTypeOK
<1>7. CASE ReviewPasses(r)
  <2> DEFINE keep == [Ended(r, "READY_FOR_COMMIT", mem[r].patch) EXCEPT
                        !.active = TRUE, !.reviewed = mem[r].patch]
  <2>1. keep \in Memories
    BY <1>0 DEF Ended, Memories, Readiness, Final
  <2>2. Goto(r, "reviewed", "complete", keep)
    BY <1>7 DEF ReviewPasses
  <2> HIDE DEF keep
  <2>3. evidence' \in Events
    BY <1>0, <1>7 DEF ReviewPasses, Record, Events
  <2> QED BY <1>0, <1>7, <2>1, <2>2, <2>3, KeepTyped
      DEF ReviewPasses, Record, Steps, LateSteps, Typed, MissionTypeOK
<1>8. CASE ReviewFails(r)
  <2>1. PICK active \in BOOLEAN :
          Goto(r, "reviewed",
               IF mem[r].attempt < MaxRepairs THEN "repair" ELSE "complete",
               [Ended(r, "BLOCKED", mem[r].patch) EXCEPT
                  !.rejected = TRUE, !.attempt = @ + 1,
                  !.active = @ \/ active,
                  !.reviewed = IF active THEN mem[r].patch ELSE @])
    BY <1>8 DEF ReviewFails
  <2> DEFINE keep == [Ended(r, "BLOCKED", mem[r].patch) EXCEPT
                        !.rejected = TRUE, !.attempt = @ + 1,
                        !.active = @ \/ active,
                        !.reviewed = IF active THEN mem[r].patch ELSE @]
  <2>2. mem[r].attempt <= MaxRepairs
    BY <2>1 DEF Goto, Typed, Repairable
  <2>3. keep \in Memories /\ keep.attempt = mem[r].attempt + 1
    <3>1. mem[r].active \in BOOLEAN /\ (mem[r].active \/ active) \in BOOLEAN
      BY <1>0 DEF Memories
    <3>2. mem[r].attempt + 1 \in 0 .. MaxRepairs + 1
      BY <1>0, <2>2
    <3> QED BY <1>0, <3>1, <3>2 DEF Ended, Memories, Readiness, Final
  <2>4. Goto(r, "reviewed",
             IF mem[r].attempt < MaxRepairs THEN "repair" ELSE "complete", keep)
    BY <2>1
  <2> HIDE DEF keep
  <2>5. evidence' \in Events
    BY <1>0, <1>8 DEF ReviewFails, Record, Events
  <2>6. CASE mem[r].attempt < MaxRepairs
    <3>1. keep.attempt <= MaxRepairs
      BY <1>0, <2>3, <2>6
    <3>2. Goto(r, "reviewed", "repair", keep)
      BY <2>4, <2>6
    <3> QED BY <1>8, <2>3, <2>5, <3>1, <3>2, KeepTyped
        DEF ReviewFails, Record, Steps, LateSteps, Typed, MissionTypeOK
  <2>7. CASE ~(mem[r].attempt < MaxRepairs)
    BY <1>8, <2>3, <2>4, <2>5, <2>7, KeepTyped
    DEF ReviewFails, Record, Steps, LateSteps, Typed, MissionTypeOK
  <2> QED BY <2>6, <2>7
<1>9. CASE Complete(r)
  <2> DEFINE s == [life |-> "COMPLETE", ready |-> mem[r].ready,
                   active |-> mem[r].active, reviewed |-> mem[r].reviewed,
                   current |-> mem[r].current]
  <2>1. s \in Statuses /\ mem[r].ready \in Readiness
    BY <1>0 DEF Statuses, Memories
  <2>2. Goto(r, "complete", "verdict", [mem[r] EXCEPT !.status = s])
    BY <1>9 DEF Complete
  <2> HIDE DEF s
  <2>3. [mem[r] EXCEPT !.status = s] \in Memories
    BY <1>0, <2>1 DEF Memories
  <2> QED BY <1>9, <2>1, <2>2, <2>3, KeepTyped
      DEF Complete, Steps, LateSteps, history, Typed, MissionTypeOK
<1> QED BY <1>1, <1>2, <1>3, <1>4, <1>5, <1>6, <1>7, <1>8, <1>9 DEF RunStep

(* The operator's commands, and deaths.                                    *)
LEMMA OthersTyped ==
  ASSUME Typed,
         \/ Control \/ CommandDies \/ UNCHANGED missionVars
         \/ \E r \in Runners : Crash(r)
  PROVE  Typed'
<1>1. CASE Control
  <2>1. UNCHANGED <<created, planned, preflighted, completed, evidence,
                    workspace, pc, mem, passed, torn, crashes>>
    BY <1>1 DEF Control, Cancel, RequestStop, Decide, CancelStatus,
       CancelClosure, WriteLatch, Command, runners
  <2>2. status' \in Statuses /\ closure' \in Statuses /\ latch' \in BOOLEAN
    BY <1>1, StatusTypes
    DEF Control, Cancel, RequestStop, Decide, CancelStatus, CancelClosure,
        WriteLatch, Typed, MissionTypeOK, Readiness, Final
  <2>3. command' \in {"none", "cancel", "cancel_close", "cancel_latch", "stop"}
    BY <1>1 DEF Control, Cancel, RequestStop, Decide, CancelStatus,
       CancelClosure, WriteLatch, Command
  <2>4. controls' \in 0 .. MaxControls
    BY <1>1, MissionAssumption
    DEF Control, Cancel, RequestStop, Decide, CancelStatus, CancelClosure,
        WriteLatch, Typed, MissionTypeOK
  <2> QED BY <2>1, <2>2, <2>3, <2>4 DEF Typed, MissionTypeOK, Repairable
<1>2. CASE CommandDies
  BY <1>2, MissionAssumption
  DEF CommandDies, Command, runners, Typed, MissionTypeOK, Repairable
<1>3. CASE UNCHANGED missionVars
  BY <1>3 DEF missionVars, documents, runners, operator, history, Typed,
     MissionTypeOK, Repairable
<1>4. ASSUME NEW r \in Runners, Crash(r) PROVE Typed'
  <2>1. pc[r] \in Steps /\ Step(r, pc[r], "idle")
    BY <1>4 DEF Crash, Typed, MissionTypeOK
  <2>2. /\ pc' \in [Runners -> Steps] /\ mem' \in [Runners -> Memories]
        /\ Repairable' /\ UNCHANGED operator
    BY <2>1, StepTyped DEF Steps
  <2> QED BY <1>4, <2>2, MissionAssumption
      DEF Crash, documents, operator, Typed, MissionTypeOK
<1> QED BY <1>1, <1>2, <1>3, <1>4

LEMMA InitTyped == MissionInit => Typed
<1> SUFFICES ASSUME MissionInit PROVE Typed
  OBVIOUS
<1>1. /\ status \in Statuses /\ closure \in Statuses
  BY StatusTypes DEF MissionInit
<1>2. pc \in [Runners -> Steps] /\ mem \in [Runners -> Memories]
  BY BlankType DEF MissionInit, Steps
<1>3. Repairable
  BY BlankType DEF MissionInit, Repairable
<1>4. evidence \in Events
  BY DEF MissionInit, Events, Patches, NoPatch
<1>5. /\ created \in BOOLEAN /\ planned \in BOOLEAN /\ preflighted \in BOOLEAN
      /\ completed \in Readiness \cup {"NONE"} /\ latch \in BOOLEAN
      /\ workspace \in Contents /\ torn \in BOOLEAN
      /\ command \in {"none", "cancel", "cancel_close", "cancel_latch", "stop"}
  BY DEF MissionInit
<1>6. /\ crashes \in 0 .. MaxCrashes /\ controls \in 0 .. MaxControls
      /\ passed \subseteq Patches
  BY MissionAssumption DEF MissionInit
<1> QED BY <1>1, <1>2, <1>3, <1>4, <1>5, <1>6 DEF Typed, MissionTypeOK

LEMMA NextTyped == Typed /\ [MissionNext]_missionVars => Typed'
BY PhaseTyped, RunTyped, OthersTyped DEF MissionNext

(* The documents and what the runners keep stay typed, and a run within    *)
(* its repairs (observability/run.py), however many runners there are.     *)
THEOREM TypeCorrect == MissionSpec => []MissionTypeOK
<1>1. Typed => MissionTypeOK
  BY DEF Typed
<1> QED BY <1>1, InitTyped, NextTyped, PTL DEF MissionSpec

------------------------------------------------------------------------------
(* One runner at a time. *)

OneRunner == \A q, r \in Runners : q = r

(* The steps that a finalized mission never takes again. *)
Before == Steps \ {"idle", "latch", "phases", "load", "reload", "verdict",
                   "run_stop", "gate", "close"}

(* What a status that says ready rests on. *)
Backed(s) ==
  s.ready = "READY_FOR_COMMIT" =>
    Supported(s) /\ s.current \in passed /\ completed = "READY_FOR_COMMIT"

(* What the run of a runner ends with, before it is in the status. *)
Earned(m) ==
  m.ready = "READY_FOR_COMMIT" =>
    m.active /\ m.reviewed = m.current /\ m.current \in passed

AllBacked == Backed(status) /\ Backed(closure)
             /\ \A r \in Runners : Backed(mem[r].status) /\ Earned(mem[r])

(* Nothing is executed, and nothing reported but the verdict, once the     *)
(* mission is finalized.                                                   *)
Order ==
  /\ ~created => ~Finalized
  /\ \A r \in Runners :
       /\ pc[r] \notin {"idle", "s_write"} => created
       /\ pc[r] \in Before => ~Finalized
       /\ pc[r] = "verdict" => status.ready # "READY_FOR_COMMIT"

MInv == Typed /\ AllBacked /\ Order

LEMMA BlankBacked == Backed(Blank.status) /\ Earned(Blank)
BY DEF Blank, Backed, Earned, Status

(* The phases leave what is backed as it is, and go back to an earlier one *)
(* only where the mission is not finalized.                                *)
LEMMA PhaseKeeps ==
  ASSUME OneRunner, MInv, NEW r \in Runners,
         Start(r) \/ Resume(r) \/ PhaseStep(r)
  PROVE  AllBacked' /\ Order'
<1>0. mem[r] \in Memories /\ \A q \in Runners : q = r
  BY DEF MInv, Typed, MissionTypeOK, OneRunner
<1>1. UNCHANGED <<completed, passed>>
  BY DEF PhaseStep, Start, Resume, WriteMission, WriteCreated, ClearLatch,
     Phases, Preflight, Preflighted, PreflightRejected, StopAfterPreflight,
     Plan, Planned, StopAfterPlan, Interrupt, Execute, LoadStatus,
     StopAfterRun, HumanGate, Close, Look, Report, documents, history
<1>2. \/ status' = status
      \/ /\ status'.ready # "READY_FOR_COMMIT"
         /\ \/ pc[r] \in Before
            \/ mem[r].status.ready = "READY_FOR_COMMIT" /\ ~Supported(mem[r].status)
  <2>1. CASE HumanGate(r)
    BY <1>0, <2>1
    DEF HumanGate, Look, documents, Memories, Statuses
  <2>2. CASE ~HumanGate(r)
    BY <2>2
    DEF PhaseStep, Start, Resume, WriteMission, WriteCreated, ClearLatch,
     Phases, Preflight, Preflighted, PreflightRejected, StopAfterPreflight,
     Plan, Planned, StopAfterPlan, Interrupt, Execute, LoadStatus,
     StopAfterRun, Close, Look, Report, Step, Goto, documents, Status, Before,
     Steps
  <2> QED BY <2>1, <2>2
<1>3. closure' \in {closure, mem[r].status}
  BY DEF PhaseStep, Start, Resume, WriteMission, WriteCreated, ClearLatch,
     Phases, Preflight, Preflighted, PreflightRejected, StopAfterPreflight,
     Plan, Planned, StopAfterPlan, Interrupt, Execute, LoadStatus,
     StopAfterRun, HumanGate, Close, Look, Report, documents
<1>4. \/ mem'[r] \in {mem[r], Blank}
      \/ mem'[r] = [mem[r] EXCEPT !.status = status]
      \/ mem'[r] = [mem[r] EXCEPT !.status = Status("COMPLETE", "BLOCKED")]
      \/ mem'[r] = [mem[r] EXCEPT !.status.ready = "BLOCKED"]
      \/ mem'[r] = [Blank EXCEPT !.point = ResumePoint]
  BY DEF PhaseStep, Start, Resume, WriteMission, WriteCreated, ClearLatch,
     Phases, Preflight, Preflighted, PreflightRejected, StopAfterPreflight,
     Plan, Planned, StopAfterPlan, Interrupt, Execute, LoadStatus,
     StopAfterRun, HumanGate, Close, Look, Report, Step, Goto, MInv, Typed,
     MissionTypeOK
<1>5. Backed(mem[r].status) /\ Earned(mem[r]) /\ Backed(status) /\ Backed(closure)
  BY DEF MInv, AllBacked
<1>6. Backed(mem'[r].status) /\ Earned(mem'[r])
  <2>1. CASE mem'[r] \in {mem[r], Blank}
    BY <1>5, <2>1, BlankBacked
  <2>2. CASE mem'[r] = [mem[r] EXCEPT !.status = status]
    BY <1>0, <1>5, <2>2 DEF Memories, Earned
  <2>3. CASE mem'[r] = [mem[r] EXCEPT !.status = Status("COMPLETE", "BLOCKED")]
    BY <1>0, <1>5, <2>3 DEF Memories, Earned, Backed, Status
  <2>4. CASE mem'[r] = [mem[r] EXCEPT !.status.ready = "BLOCKED"]
    BY <1>0, <1>5, <2>4 DEF Memories, Statuses, Earned, Backed
  <2>5. CASE mem'[r] = [Blank EXCEPT !.point = ResumePoint]
    BY <2>5, BlankBacked DEF Blank, Earned
  <2> QED BY <1>4, <2>1, <2>2, <2>3, <2>4, <2>5
<1>7. AllBacked'
  BY <1>0, <1>1, <1>2, <1>3, <1>5, <1>6 DEF AllBacked, Backed, Earned
<1>8. /\ created => created'
      /\ pc'[r] \notin {"idle", "s_write"} => created'
      /\ pc'[r] \in Before => ~Finalized
      /\ pc'[r] # "verdict"
  <2>0. /\ pc \in [Runners -> Steps]
        /\ ~created => ~Finalized
        /\ pc[r] \notin {"idle", "s_write"} => created
        /\ pc[r] \in Before => ~Finalized
    BY DEF MInv, Typed, MissionTypeOK, Order
  <2>1. CASE WriteMission(r)
    BY <2>0, <2>1 DEF WriteMission, Step, Goto, Before, Steps
  <2>2. CASE ~WriteMission(r)
    <3>1. created' = created
      BY <2>2
      DEF PhaseStep, Start, Resume, WriteCreated, ClearLatch,
       Phases, Preflight, Preflighted, PreflightRejected, StopAfterPreflight,
       Plan, Planned, StopAfterPlan, Interrupt, Execute, LoadStatus,
       StopAfterRun, HumanGate, Close, Look, Report, documents
    <3>2. CASE Start(r)
      BY <2>0, <3>1, <3>2 DEF Start, Look, Step, Goto, Before, Steps
    <3>3. CASE Resume(r)
      BY <2>0, <3>1, <3>3 DEF Resume, Goto, Before, Steps
    <3>4. CASE ClearLatch(r)
      BY <2>0, <3>1, <3>4 DEF ClearLatch, Step, Goto, Before, Steps
    <3>5. CASE Phases(r)
      <4>1. \E to \in {"load", "preflight", "plan"} :
              Look(r, "phases", to) /\ (to # "load" => ~Finalized)
        BY <3>5 DEF Phases
      <4> QED BY <2>0, <3>1, <4>1 DEF Look, Step, Goto, Before, Steps
    <3>6. CASE WriteCreated(r) \/ Preflight(r) \/ Planned(r) \/ Interrupt(r)
      BY <2>0, <3>1, <3>6
      DEF WriteCreated, Preflight, Planned, Interrupt, Report, Step, Goto,
          Before, Steps
    <3>7. CASE Preflighted(r) \/ Plan(r) \/ PreflightRejected(r)
      BY <2>0, <3>1, <3>7
      DEF Preflighted, Plan, PreflightRejected, Step, Goto, Before, Steps
    <3>8. CASE StopAfterPreflight(r) \/ StopAfterPlan(r) \/ Execute(r)
      BY <2>0, <3>1, <3>8
      DEF StopAfterPreflight, StopAfterPlan, Execute, Look, Step, Goto, Before,
          Steps
    <3>9. CASE LoadStatus(r) \/ StopAfterRun(r) \/ HumanGate(r) \/ Close(r)
      BY <2>0, <3>1, <3>9
      DEF LoadStatus, StopAfterRun, HumanGate, Close, Look, Step, Goto, Before,
          Steps
    <3> QED BY <2>2, <3>2, <3>3, <3>4, <3>5, <3>6, <3>7, <3>8, <3>9
        DEF PhaseStep
  <2> QED BY <2>1, <2>2
<1>9. Order'
  BY <1>0, <1>1, <1>8 DEF Order, Finalized, MInv
<1> QED BY <1>7, <1>9

(* The run reports nothing that says ready before its verdict, which is    *)
(* the readiness in the event that finalized it.                           *)
LEMMA RunKeeps ==
  ASSUME OneRunner, MInv, NEW r \in Runners, RunStep(r)
  PROVE  AllBacked' /\ Order'
<1>0. /\ mem[r] \in Memories /\ \A q \in Runners : q = r
      /\ pc \in [Runners -> Steps] /\ mem \in [Runners -> Memories]
  BY DEF MInv, Typed, MissionTypeOK, OneRunner
<1>1. Backed(mem[r].status) /\ Earned(mem[r]) /\ Backed(status) /\ Backed(closure)
  BY DEF MInv, AllBacked
<1>2. /\ UNCHANGED <<created, closure>> /\ passed \subseteq passed'
      /\ pc[r] \in Before \/ pc[r] = "verdict"
      /\ pc[r] # "s_write"
  BY <1>0
  DEF RunStep, RunPreflight, RunPreflighted, RunRejected, Baseline,
      Implement, AgentEdits, CapturePatch, Validate, Validated, Review,
      ReviewPasses, ReviewFails, Repair, Complete, Verdict, Report, Step, Goto,
      Record, documents, history, Before, Steps
<1>3. created
  BY <1>2 DEF MInv, Order, Before, Steps
<1>4. CASE Verdict(r)
  <2>1. /\ pc'[r] = "run_stop" /\ mem'[r] = mem[r] /\ status' = mem[r].status
        /\ UNCHANGED <<completed, passed>>
    BY <1>0, <1>4 DEF Verdict, Report, Step, Goto, history
  <2>2. AllBacked'
    BY <1>0, <1>1, <1>2, <2>1 DEF AllBacked, Backed, Earned
  <2>3. Order'
    BY <1>0, <1>2, <1>3, <2>1 DEF Order, Before
  <2> QED BY <2>2, <2>3
<1>5. CASE Complete(r)
  <2>1. /\ pc[r] = "complete" /\ pc'[r] = "verdict"
        /\ mem'[r] = [mem[r] EXCEPT !.status =
             [life |-> "COMPLETE", ready |-> mem[r].ready,
              active |-> mem[r].active, reviewed |-> mem[r].reviewed,
              current |-> mem[r].current]]
        /\ completed' = mem[r].ready /\ UNCHANGED <<status, passed>>
    BY <1>0, <1>5 DEF Complete, Goto, history
  <2>2. completed = "NONE"
    BY <2>1 DEF MInv, Order, Before, Steps, Finalized
  <2>3. status.ready # "READY_FOR_COMMIT" /\ closure.ready # "READY_FOR_COMMIT"
    BY <1>1, <2>2 DEF Backed
  <2>4. Backed(mem[r].status)' /\ Earned(mem[r])'
    BY <1>0, <1>1, <2>1 DEF Backed, Earned, Supported, Memories
  <2>5. AllBacked'
    BY <1>0, <1>2, <2>1, <2>3, <2>4 DEF AllBacked, Backed
  <2>6. Order'
    BY <1>0, <1>2, <1>3, <2>1, <2>3 DEF Order, Before
  <2> QED BY <2>5, <2>6
<1>6. CASE ~Verdict(r) /\ ~Complete(r)
  <2>1. /\ completed' = completed /\ pc[r] \in Before
        /\ pc'[r] # "verdict"
    BY <1>0, <1>6
    DEF RunStep, RunPreflight, RunPreflighted, RunRejected, Baseline,
      Implement, AgentEdits, CapturePatch, Validate, Validated, Review,
      ReviewPasses, ReviewFails, Repair, Report, Step, Goto, Record,
      documents, history, Before, Steps
  <2>2. ~Finalized /\ completed = "NONE"
    BY <2>1 DEF MInv, Order, Finalized
  <2>3. status' = status \/ status'.ready # "READY_FOR_COMMIT"
    <3>1. CASE \/ RunPreflight(r) \/ Implement(r) \/ Validate(r) \/ Review(r)
               \/ Repair(r)
      <4>1. \E p, q : status' = Running(r, p, q)
        BY <3>1 DEF RunPreflight, Implement, Validate, Review, Repair, Report
      <4> QED BY <4>1 DEF Running
    <3>2. CASE RunRejected(r)
      BY <3>2 DEF RunRejected, Status
    <3>3. CASE \/ RunPreflighted(r) \/ Baseline(r) \/ AgentEdits(r)
               \/ CapturePatch(r) \/ Validated(r) \/ ReviewPasses(r)
               \/ ReviewFails(r)
      BY <3>3
      DEF RunPreflighted, Baseline, AgentEdits, CapturePatch, Validated,
          ReviewPasses, ReviewFails, Record, documents
    <3> QED BY <1>6, <3>1, <3>2, <3>3 DEF RunStep
  <2>4. \/ mem'[r] = mem[r]
        \/ mem'[r].status = mem[r].status /\ Earned(mem[r])'
        \/ mem'[r] = [mem[r] EXCEPT !.status = Status("COMPLETE", "BLOCKED")]
    <3>1. CASE \/ RunPreflight(r) \/ RunPreflighted(r) \/ Implement(r)
               \/ AgentEdits(r) \/ Validate(r) \/ Review(r) \/ Repair(r)
      BY <1>0, <3>1
      DEF RunPreflight, RunPreflighted, Implement, AgentEdits, Validate,
          Review, Repair, Report, Step, Goto
    <3>2. CASE RunRejected(r)
      BY <1>0, <3>2 DEF RunRejected, Goto
    <3>3. CASE Baseline(r)
      BY <1>0, <1>1, <3>3
      DEF Baseline, Goto, Memories, Earned, history
    <3>4. CASE CapturePatch(r)
      <4>1. /\ passed' = passed
            /\ \/ mem'[r] = Ended(r, "FAILED", <<mem[r].base, workspace>>)
               \/ mem'[r] = [mem[r] EXCEPT !.patch = <<mem[r].base, workspace>>]
        BY <1>0, <3>4 DEF CapturePatch, Goto
      <4>2. CASE mem'[r] = Ended(r, "FAILED", <<mem[r].base, workspace>>)
        BY <1>0, <4>2 DEF Ended, Memories, Earned
      <4>3. CASE mem'[r] = [mem[r] EXCEPT !.patch = <<mem[r].base, workspace>>]
        BY <1>0, <1>1, <4>1, <4>3 DEF Memories, Earned
      <4> QED BY <4>1, <4>2, <4>3
    <3>5. CASE Validated(r)
      <4>1. \/ mem'[r] = Ended(r, "FAILED", mem[r].patch)
            \/ mem'[r] = mem[r]
        BY <1>0, <3>5 DEF Validated, Step, Goto
      <4>2. CASE mem'[r] = Ended(r, "FAILED", mem[r].patch)
        BY <1>0, <4>2 DEF Ended, Memories, Earned
      <4> QED BY <4>1, <4>2
    <3>6. CASE ReviewPasses(r)
      BY <1>0, <3>6
      DEF ReviewPasses, Goto, Record, Ended, Memories, Earned
    <3>7. CASE ReviewFails(r)
      BY <1>0, <3>7
      DEF ReviewFails, Goto, Record, Ended, Memories, Earned
    <3> QED BY <1>6, <3>1, <3>2, <3>3, <3>4, <3>5, <3>6, <3>7 DEF RunStep
  <2>5. Backed(mem[r].status)' /\ Earned(mem[r])'
    <3>1. CASE mem'[r] = mem[r]
      BY <1>1, <1>2, <2>1, <3>1 DEF Backed, Earned
    <3>2. CASE mem'[r].status = mem[r].status /\ Earned(mem[r])'
      BY <1>1, <1>2, <2>1, <3>2 DEF Backed
    <3>3. CASE mem'[r] = [mem[r] EXCEPT !.status = Status("COMPLETE", "BLOCKED")]
      BY <1>0, <1>1, <1>2, <3>3 DEF Backed, Earned, Memories, Status
    <3> QED BY <2>4, <3>1, <3>2, <3>3
  <2>6. AllBacked'
    BY <1>0, <1>1, <1>2, <2>1, <2>3, <2>5 DEF AllBacked, Backed
  <2>7. Order'
    BY <1>0, <1>2, <1>3, <2>1, <2>2 DEF Order, Finalized
  <2> QED BY <2>6, <2>7
<1> QED BY <1>4, <1>5, <1>6

(* The operator's commands only say cancelled; who dies forgets.           *)
LEMMA OthersKeep ==
  ASSUME OneRunner, MInv,
         \/ Control \/ CommandDies \/ UNCHANGED missionVars
         \/ \E r \in Runners : Crash(r)
  PROVE  AllBacked' /\ Order'
<1>1. CASE Control \/ CommandDies \/ UNCHANGED missionVars
  <2>1. UNCHANGED <<created, completed, passed, pc, mem>>
    BY <1>1
    DEF Control, CommandDies, Cancel, RequestStop, Decide, CancelStatus,
        CancelClosure, WriteLatch, Command, runners, missionVars, documents,
        history
  <2>2. /\ status' \in {status, Status("COMPLETE", "CANCELLED")}
        /\ closure' \in {closure, Status("COMPLETE", "CANCELLED")}
    BY <1>1
    DEF Control, CommandDies, Cancel, RequestStop, Decide, CancelStatus,
        CancelClosure, WriteLatch, missionVars, documents
  <2> QED BY <2>1, <2>2
      DEF MInv, AllBacked, Order, Backed, Earned, Status, Finalized
<1>2. ASSUME NEW r \in Runners, Crash(r) PROVE AllBacked' /\ Order'
  <2>0. /\ \A q \in Runners : q = r
        /\ pc \in [Runners -> Steps] /\ mem \in [Runners -> Memories]
    BY DEF MInv, Typed, MissionTypeOK, OneRunner
  <2>1. /\ UNCHANGED <<created, completed, passed, status, closure>>
        /\ pc'[r] = "idle" /\ mem'[r] = Blank
    BY <1>2, <2>0 DEF Crash, Step, Goto, documents
  <2> QED BY <2>0, <2>1, BlankBacked
      DEF MInv, AllBacked, Order, Backed, Earned, Finalized, Before
<1> QED BY <1>1, <1>2

LEMMA InitKept == MissionInit => MInv
<1> SUFFICES ASSUME MissionInit PROVE MInv
  OBVIOUS
<1>1. AllBacked
  BY BlankBacked DEF MissionInit, AllBacked, Backed, Status
<1>2. Order
  BY DEF MissionInit, Order, Finalized, Before
<1> QED BY <1>1, <1>2, InitTyped DEF MInv

LEMMA NextKeeps == OneRunner /\ MInv /\ [MissionNext]_missionVars => MInv'
BY PhaseKeeps, RunKeeps, OthersKeep, NextTyped DEF MissionNext, MInv

(* A mission closed as ready was finalized as ready and has its patch      *)
(* passed (orchestrator._human_gate), however it died, was resumed,        *)
(* stopped and cancelled.                                                  *)
THEOREM ReadyIsEarned ==
  ASSUME OneRunner PROVE MissionSpec => []ReadyHasPassed
<1>1. MInv => ReadyHasPassed
  BY DEF MInv, AllBacked, Backed, ReadyHasPassed
<1> QED BY <1>1, InitKept, NextKeeps, PTL DEF MissionSpec

(* The agent works no more on what is finalized, and a status that says    *)
(* ready is only ever cancelled (recovery.detect_resume).                  *)
THEOREM ExecutedOnlyOnce ==
  ASSUME OneRunner PROVE MissionSpec => NoSecondExecution
<1> DEFINE Kept == /\ workspace' # workspace => ~Finalized
                   /\ status.ready = "READY_FOR_COMMIT" =>
                        status'.ready \in {"READY_FOR_COMMIT", "CANCELLED"}
<1>1. MInv /\ [MissionNext]_missionVars => Kept
  <2> SUFFICES ASSUME MInv, [MissionNext]_missionVars PROVE Kept
    OBVIOUS
  <2>0. /\ \A r \in Runners : mem[r] \in Memories
        /\ \A r \in Runners : pc[r] \in Before => ~Finalized
        /\ \A r \in Runners : pc[r] = "verdict" => status.ready # "READY_FOR_COMMIT"
        /\ \A r \in Runners : Backed(mem[r].status)
        /\ status.ready = "READY_FOR_COMMIT" => Finalized
    BY DEF MInv, Typed, MissionTypeOK, Order, AllBacked, Backed, Finalized
  <2>1. ASSUME NEW r \in Runners, RunStep(r) PROVE Kept
    <3>1. status' = status \/ pc[r] \in Before \/ pc[r] = "verdict"
      BY <2>1
      DEF RunStep, RunPreflight, RunPreflighted, RunRejected, Baseline,
      Implement, AgentEdits, CapturePatch, Validate, Validated, Review,
      ReviewPasses, ReviewFails, Repair, Complete, Verdict, Report, Step, Goto,
      Record, documents, Before, Steps
    <3>2. workspace' = workspace \/ pc[r] \in Before
      BY <2>1
      DEF RunStep, RunPreflight, RunPreflighted, RunRejected, Baseline,
      Implement, AgentEdits, CapturePatch, Validate, Validated, Review,
      ReviewPasses, ReviewFails, Repair, Complete, Verdict, Report, Step, Goto,
      Record, Before, Steps
    <3> QED BY <2>0, <3>1, <3>2
  <2>2. ASSUME NEW r \in Runners, Start(r) \/ Resume(r) \/ PhaseStep(r)
        PROVE  Kept
    <3>1. workspace' = workspace
      BY <2>2
      DEF PhaseStep, Start, Resume, WriteMission, WriteCreated, ClearLatch,
     Phases, Preflight, Preflighted, PreflightRejected, StopAfterPreflight,
     Plan, Planned, StopAfterPlan, Interrupt, Execute, LoadStatus,
     StopAfterRun, HumanGate, Close, Look, Report
    <3>2. status' = status \/ pc[r] \in Before
      <4>1. CASE HumanGate(r)
        BY <2>0, <4>1 DEF HumanGate, Backed, Look, documents
      <4>2. CASE ~HumanGate(r)
        BY <2>2, <4>2
        DEF PhaseStep, Start, Resume, WriteMission, WriteCreated, ClearLatch,
     Phases, Preflight, Preflighted, PreflightRejected, StopAfterPreflight,
     Plan, Planned, StopAfterPlan, Interrupt, Execute, LoadStatus,
     StopAfterRun, Close, Look, Report, Step, Goto, documents, Before, Steps
      <4> QED BY <4>1, <4>2
    <3> QED BY <2>0, <3>1, <3>2
  <2>3. ASSUME NEW r \in Runners, Crash(r) PROVE Kept
    BY <2>3 DEF Crash, documents
  <2>4. CASE Control \/ CommandDies \/ UNCHANGED missionVars
    BY <2>4
    DEF Control, CommandDies, Cancel, RequestStop, Decide, CancelStatus,
        CancelClosure, WriteLatch, Command, missionVars, documents, Status
  <2> QED BY <2>1, <2>2, <2>3, <2>4 DEF MissionNext
<1>2. MissionSpec => []MInv
  BY InitKept, NextKeeps, PTL DEF MissionSpec
<1> QED BY <1>1, <1>2, PTL DEF MissionSpec, NoSecondExecution

------------------------------------------------------------------------------
(* The verdict of one runner's execution. *)

Agrees(ready) == ready \in {completed, "CANCELLED"}

(* Who is about to say, or has just said, the verdict. *)
Judging == {"verdict", "run_stop", "gate", "close"}

(* The closure, and what it is built from, repeat the verdict; a mission   *)
(* closed without one is resumed to do nothing.                            *)
Verdicts ==
  /\ Closed /\ Finalized /\ ~torn => Agrees(closure.ready)
  /\ Closed \/ command # "none" => created
  /\ \A r \in Runners :
       /\ Finalized /\ ~torn /\ pc[r] # "verdict" => Agrees(status.ready)
       /\ Finalized /\ ~torn /\ pc[r] \in Judging => Agrees(mem[r].status.ready)
       /\ Closed /\ ~Finalized /\ closure.ready # "CANCELLED" =>
            pc[r] = "idle" \/ (pc[r] = "latch" /\ mem[r].point = "none")

VInv == MInv /\ Verdicts

LEMMA PhaseVerdicts ==
  ASSUME OneRunner, VInv, NEW r \in Runners,
         Start(r) \/ Resume(r) \/ PhaseStep(r)
  PROVE  Verdicts'
<1>0. /\ mem[r] \in Memories /\ \A q \in Runners : q = r
      /\ pc \in [Runners -> Steps] /\ mem \in [Runners -> Memories]
      /\ pc[r] \in Before => ~Finalized
      /\ pc[r] \notin {"idle", "s_write"} => created
      /\ Backed(mem[r].status)
  BY DEF VInv, MInv, Typed, MissionTypeOK, OneRunner, Order, AllBacked
<1>1. /\ UNCHANGED <<completed, torn, command>> /\ pc[r] # "verdict"
      /\ created => created'
  BY <1>0
  DEF PhaseStep, Start, Resume, WriteMission, WriteCreated, ClearLatch,
     Phases, Preflight, Preflighted, PreflightRejected, StopAfterPreflight,
     Plan, Planned, StopAfterPlan, Interrupt, Execute, LoadStatus,
     StopAfterRun, HumanGate, Close, Look, Report, Step, Goto, documents,
     history, operator
<1>2. status' = status \/ ~Finalized
  <2>1. CASE HumanGate(r)
    BY <1>0, <2>1 DEF HumanGate, Backed, Look, documents, Finalized
  <2>2. CASE ~HumanGate(r)
    BY <1>0, <2>2
    DEF PhaseStep, Start, Resume, WriteMission, WriteCreated, ClearLatch,
     Phases, Preflight, Preflighted, PreflightRejected, StopAfterPreflight,
     Plan, Planned, StopAfterPlan, Interrupt, Execute, LoadStatus,
     StopAfterRun, Close, Look, Report, Step, Goto, documents, Before, Steps
  <2> QED BY <2>1, <2>2
<1>3. \/ closure' = closure
      \/ pc[r] = "close" /\ pc'[r] = "idle" /\ closure' = mem[r].status
  BY <1>0
  DEF PhaseStep, Start, Resume, WriteMission, WriteCreated, ClearLatch,
     Phases, Preflight, Preflighted, PreflightRejected, StopAfterPreflight,
     Plan, Planned, StopAfterPlan, Interrupt, Execute, LoadStatus,
     StopAfterRun, HumanGate, Close, Look, Report, Step, Goto, documents
<1>4. pc'[r] \in Judging =>
        \/ ~Finalized \/ mem'[r].status = status
        \/ pc[r] \in Judging /\ mem'[r] = mem[r]
  <2>1. CASE PreflightRejected(r)
    BY <1>0, <2>1 DEF PreflightRejected, Goto, Before, Steps
  <2>2. CASE LoadStatus(r)
    BY <1>0, <2>2 DEF LoadStatus, Goto, Memories
  <2>3. CASE HumanGate(r)
    BY <1>0, <2>3 DEF HumanGate, Backed, Look, Step, Goto, Judging
  <2>4. CASE StopAfterRun(r) \/ Close(r) \/ Execute(r)
    BY <1>0, <2>4 DEF StopAfterRun, Close, Execute, Look, Step, Goto, Judging
  <2>5. CASE \/ Start(r) \/ Resume(r) \/ WriteMission(r) \/ WriteCreated(r)
             \/ ClearLatch(r) \/ Phases(r) \/ Preflight(r) \/ Preflighted(r)
             \/ StopAfterPreflight(r) \/ Plan(r) \/ Planned(r)
             \/ StopAfterPlan(r) \/ Interrupt(r)
    BY <1>0, <2>5
    DEF Start, Resume, WriteMission, WriteCreated, ClearLatch, Phases,
        Preflight, Preflighted, StopAfterPreflight, Plan, Planned,
        StopAfterPlan, Interrupt, Look, Report, Step, Goto, Judging
  <2> QED BY <2>1, <2>2, <2>3, <2>4, <2>5 DEF PhaseStep
<1>5. Closed /\ (pc[r] = "idle" \/ (pc[r] = "latch" /\ mem[r].point = "none")) =>
        pc'[r] = "idle" \/ (pc'[r] = "latch" /\ mem'[r].point = "none")
  <2> SUFFICES ASSUME Closed,
                      pc[r] = "idle" \/ (pc[r] = "latch" /\ mem[r].point = "none")
               PROVE  pc'[r] = "idle" \/ (pc'[r] = "latch" /\ mem'[r].point = "none")
    OBVIOUS
  <2>1. created
    BY DEF VInv, Verdicts
  <2>2. Resume(r) \/ ClearLatch(r)
    BY <2>1
    DEF PhaseStep, Start, WriteMission, WriteCreated, Phases, Preflight,
     Preflighted, PreflightRejected, StopAfterPreflight, Plan, Planned,
     StopAfterPlan, Interrupt, Execute, LoadStatus, StopAfterRun, HumanGate,
     Close, Look, Report, Step, Goto
  <2>3. CASE Resume(r)
    <3>1. [Blank EXCEPT !.point = ResumePoint].point = "none"
      BY DEF ResumePoint, Blank
    <3> QED BY <1>0, <2>3, <3>1 DEF Resume, Goto
  <2>4. CASE ClearLatch(r)
    BY <1>0, <2>4 DEF ClearLatch, Step, Goto
  <2> QED BY <2>2, <2>3, <2>4
<1> QED BY <1>0, <1>1, <1>2, <1>3, <1>4, <1>5
    DEF VInv, Verdicts, Closed, Finalized, Agrees, Judging

LEMMA RunVerdicts ==
  ASSUME OneRunner, VInv, NEW r \in Runners, RunStep(r) PROVE Verdicts'
<1>0. /\ mem[r] \in Memories /\ \A q \in Runners : q = r
      /\ pc \in [Runners -> Steps] /\ mem \in [Runners -> Memories]
      /\ pc[r] \in Before => ~Finalized
  BY DEF VInv, MInv, Typed, MissionTypeOK, OneRunner, Order
<1>1. /\ UNCHANGED <<created, closure, torn, command>>
      /\ pc[r] \in Before \/ pc[r] = "verdict"
  BY <1>0
  DEF RunStep, RunPreflight, RunPreflighted, RunRejected, Baseline,
      Implement, AgentEdits, CapturePatch, Validate, Validated, Review,
      ReviewPasses, ReviewFails, Repair, Complete, Verdict, Report, Step, Goto,
      Record, documents, history, operator, Before, Steps
<1>2. Closed => closure.ready = "CANCELLED" \/ Finalized
  BY <1>0, <1>1 DEF VInv, Verdicts, Before, Steps
<1>3. CASE Verdict(r)
  <2>1. /\ pc[r] = "verdict" /\ pc'[r] = "run_stop" /\ mem'[r] = mem[r]
        /\ status' = mem[r].status /\ completed' = completed
    BY <1>0, <1>3 DEF Verdict, Report, Step, Goto
  <2> QED BY <1>0, <1>1, <1>2, <2>1
      DEF VInv, Verdicts, Closed, Finalized, Agrees, Judging
<1>4. CASE Complete(r)
  <2>1. /\ pc[r] = "complete" /\ pc'[r] = "verdict"
        /\ mem'[r].status.ready = mem[r].ready /\ completed' = mem[r].ready
    BY <1>0, <1>4 DEF Complete, Goto, Memories
  <2>2. ~Finalized /\ mem[r].ready # "NONE"
    BY <1>0, <2>1 DEF Before, Steps, Memories, Readiness, Final
  <2> QED BY <1>0, <1>1, <1>2, <2>1, <2>2
      DEF VInv, Verdicts, Closed, Finalized, Agrees, Judging
<1>5. CASE ~Verdict(r) /\ ~Complete(r)
  <2>1. completed' = completed /\ pc[r] \in Before
    BY <1>0, <1>5
    DEF RunStep, RunPreflight, RunPreflighted, RunRejected, Baseline,
      Implement, AgentEdits, CapturePatch, Validate, Validated, Review,
      ReviewPasses, ReviewFails, Repair, Report, Step, Goto, Record,
      documents, Before, Steps
  <2>2. ~Finalized /\ ~Finalized'
    BY <1>0, <2>1 DEF Finalized
  <2> QED BY <1>0, <1>1, <1>2, <2>1, <2>2 DEF VInv, Verdicts, Closed
<1> QED BY <1>3, <1>4, <1>5

LEMMA OthersVerdicts ==
  ASSUME OneRunner, VInv,
         \/ Control \/ CommandDies \/ UNCHANGED missionVars
         \/ \E r \in Runners : Crash(r)
  PROVE  Verdicts'
<1>1. CASE Control \/ CommandDies \/ UNCHANGED missionVars
  <2>1. UNCHANGED <<created, completed, torn, pc, mem>>
    BY <1>1
    DEF Control, CommandDies, Cancel, RequestStop, Decide, CancelStatus,
        CancelClosure, WriteLatch, Command, runners, missionVars, documents,
        history
  <2>2. /\ status' = status \/ status'.ready = "CANCELLED"
        /\ closure' = closure \/ closure'.ready = "CANCELLED"
    BY <1>1
    DEF Control, CommandDies, Cancel, RequestStop, Decide, CancelStatus,
        CancelClosure, WriteLatch, missionVars, documents, Status
  <2>3. Closed' \/ command' # "none" => created
    BY <1>1
    DEF Control, CommandDies, Cancel, RequestStop, Decide, CancelStatus,
        CancelClosure, WriteLatch, Command, missionVars, documents, operator,
        VInv, Verdicts, Closed
  <2> QED BY <2>1, <2>2, <2>3 DEF VInv, Verdicts, Closed, Finalized, Agrees
<1>2. ASSUME NEW r \in Runners, Crash(r) PROVE Verdicts'
  <2>0. /\ \A q \in Runners : q = r
        /\ pc \in [Runners -> Steps]
        /\ pc[r] \notin {"idle", "s_write"} => created
    BY DEF VInv, MInv, Typed, MissionTypeOK, OneRunner, Order
  <2>1. /\ UNCHANGED <<created, completed, status, closure, command>>
        /\ pc'[r] = "idle" /\ torn' = (torn \/ pc[r] = "verdict")
    BY <1>2, <2>0 DEF Crash, Step, Goto, documents, operator
  <2> QED BY <2>0, <2>1
      DEF VInv, Verdicts, Closed, Finalized, Agrees, Judging
<1> QED BY <1>1, <1>2

LEMMA InitVerdicts == MissionInit => VInv
<1> SUFFICES ASSUME MissionInit PROVE VInv
  OBVIOUS
<1>1. Verdicts
  BY DEF MissionInit, Verdicts, Closed, Finalized, Status
<1> QED BY <1>1, InitKept DEF VInv

LEMMA NextVerdicts == OneRunner /\ VInv /\ [MissionNext]_missionVars => VInv'
BY PhaseVerdicts, RunVerdicts, OthersVerdicts, NextKeeps DEF MissionNext, VInv

(* The closure of a finalized mission repeats its verdict unless it was    *)
(* cancelled, or a runner died with the verdict in its hands               *)
(* (orchestrator._human_gate, _close, observability/run.py _finalize).     *)
THEOREM VerdictIsKept ==
  ASSUME OneRunner PROVE MissionSpec => []VerdictKept
<1>1. VInv => VerdictKept
  <2> SUFFICES ASSUME VInv, Closed, Finalized, ~torn
               PROVE  closure.ready \in {completed, "CANCELLED"}
    BY DEF VerdictKept
  <2> QED BY DEF VInv, Verdicts, Agrees
<1> QED BY <1>1, InitVerdicts, NextVerdicts, PTL DEF MissionSpec
==============================================================================
