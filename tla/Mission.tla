------------------------------- MODULE Mission -------------------------------
(***************************************************************************)
(* One mission from its objective to its closure (assembly/ over           *)
(* observability/run.py): preflight, plan, the attempts of the agent with  *)
(* their validation and review, the human gate, the closure; an operator   *)
(* who cancels or asks to stop; runners that die and are resumed.          *)
(*                                                                         *)
(* Runners and the operator's commands share the mission's directory and   *)
(* take no lock: every document written and every event appended is a step *)
(* of its own.  Events are kept as what is asked of them: whether one of a *)
(* kind exists, and the last one that carries a patch.                     *)
(***************************************************************************)
EXTENDS Naturals

CONSTANTS
  Runners,      \* processes that start or resume the mission
  Contents,     \* what the workspace may hold
  MaxRepairs,   \* repairs the trust policy allows
  MaxCrashes,   \* bound on the processes that die
  MaxControls   \* bound on the cancel and stop commands

ASSUME MissionAssumption ==
  /\ Contents # {}
  /\ MaxRepairs \in Nat /\ MaxCrashes \in Nat /\ MaxControls \in Nat

VARIABLES
  created,      \* mission.json exists
  planned,      \* plan.json exists
  preflighted,  \* an event PREFLIGHT_COMPLETED exists
  completed,    \* the readiness in the event RUN_COMPLETED, if it exists
  evidence,     \* the last event that carries a patch
  status,       \* status.json
  closure,      \* closure.json
  latch,        \* stop-request.json asks to stop
  workspace,    \* what the workspace holds
  pc,           \* the next step of each runner
  mem,          \* what each runner keeps
  command,      \* the next step of the operator's command
  crashes,      \* processes that died
  controls,     \* commands given
  passed,       \* the patches a review has passed
  torn          \* a runner died after RUN_COMPLETED, before its status

documents == <<created, planned, preflighted, completed, evidence, status,
               closure, latch>>
runners == <<pc, mem>>
operator == <<command, controls>>
history == <<crashes, passed, torn>>
missionVars == <<documents, workspace, runners, operator, history>>

------------------------------------------------------------------------------
(* A patch identity stands for the two snapshots it was computed from. *)
NoPatch == <<>>
Patches == (Contents \X Contents) \cup {NoPatch}

Final == {"READY_FOR_COMMIT", "BLOCKED", "FAILED", "CANCELLED"}
Readiness == Final \cup {"INDETERMINATE"}

(* status.json, "NONE" while there is none. *)
Statuses == [life : {"NONE", "ACTIVE", "COMPLETE"}, ready : Readiness,
             active : BOOLEAN, reviewed : Patches, current : Patches]

Status(life, ready) == [life |-> life, ready |-> ready, active |-> FALSE,
                        reviewed |-> NoPatch, current |-> NoPatch]

(* closure.json repeats the status it was built from. *)
Closed == closure.life # "NONE"

(* control._is_terminal *)
Terminal(s) == s.life = "COMPLETE" \/ s.ready \in Final

Events == [kind : {"NONE", "PATCH_CAPTURED", "VALIDATION_COMPLETED",
                   "REVIEW_COMPLETED"},
           patch : Patches, pass : BOOLEAN]

Blank == [point |-> "preflight", base |-> CHOOSE w \in Contents : TRUE,
          patch |-> NoPatch, attempt |-> 0, ready |-> "INDETERMINATE",
          rejected |-> FALSE, active |-> FALSE, reviewed |-> NoPatch,
          current |-> NoPatch, status |-> Status("NONE", "INDETERMINATE")]

MissionInit ==
  /\ created = FALSE /\ planned = FALSE
  /\ preflighted = FALSE /\ completed = "NONE"
  /\ evidence = [kind |-> "NONE", patch |-> NoPatch, pass |-> FALSE]
  /\ status = Status("NONE", "INDETERMINATE")
  /\ closure = Status("NONE", "INDETERMINATE")
  /\ latch = FALSE
  /\ workspace \in Contents
  /\ pc = [r \in Runners |-> "idle"]
  /\ mem = [r \in Runners |-> Blank]
  /\ command = "none"
  /\ crashes = 0 /\ controls = 0
  /\ passed = {}
  /\ torn = FALSE

Goto(r, from, to, keep) ==
  /\ pc[r] = from
  /\ pc' = [pc EXCEPT ![r] = to]
  /\ mem' = [mem EXCEPT ![r] = keep]
  /\ UNCHANGED operator

Step(r, from, to) == Goto(r, from, to, IF to = "idle" THEN Blank ELSE mem[r])

(* A step that reads the documents only. *)
Look(r, from, to) ==
  Step(r, from, to) /\ UNCHANGED <<documents, workspace, history>>

(* A step that replaces the status. *)
Report(r, from, to, s) ==
  /\ Step(r, from, to)
  /\ status' = s
  /\ UNCHANGED <<created, planned, preflighted, completed, evidence, closure,
                 latch, workspace, history>>

------------------------------------------------------------------------------
(* start: refused when the mission exists, looked at before it is written. *)
Start(r) ==
  /\ ~created
  /\ Look(r, "idle", "s_write")

WriteMission(r) ==
  /\ Step(r, "s_write", "s_status")
  /\ created' = TRUE
  /\ UNCHANGED <<planned, preflighted, completed, evidence, status, closure,
                 latch, workspace, history>>

WriteCreated(r) ==
  Report(r, "s_status", "phases", Status("ACTIVE", "INDETERMINATE"))

(* _execution_finalized *)
Finalized == completed # "NONE"

(* detect_resume: from where the mission goes on. *)
ResumePoint ==
  IF Closed THEN "none"
  ELSE IF Finalized THEN "gate"
  ELSE IF status.life = "COMPLETE" \/ planned THEN "execution"
  ELSE IF preflighted THEN "plan" ELSE "preflight"

Resume(r) ==
  /\ created
  /\ Goto(r, "idle", "latch", [Blank EXCEPT !.point = ResumePoint])
  /\ UNCHANGED <<documents, workspace, history>>

(* Mutant: the request stays. *)
ClearLatchKept(r) ==
  Look(r, "latch", CASE mem[r].point = "none" -> "idle"
                     [] mem[r].point = "gate" -> "load"
                     [] OTHER                 -> "phases")

(* A pending stop request is consumed once. *)
ClearLatch(r) ==
  /\ Step(r, "latch", CASE mem[r].point = "none" -> "idle"
                         [] mem[r].point = "gate" -> "load"
                         [] OTHER                 -> "phases")
  /\ latch' = FALSE
  /\ UNCHANGED <<created, planned, preflighted, completed, evidence, status,
                 closure, workspace, history>>

------------------------------------------------------------------------------
(* _run_phases: what is finalized is closed, never executed again. *)
Phases(r) ==
  Look(r, "phases",
       IF Finalized THEN "load"
       ELSE IF mem[r].point = "preflight" \/ status.life = "NONE"
         THEN "preflight" ELSE "plan")

Preflight(r) ==
  Report(r, "preflight", "preflighted", Status("ACTIVE", "INDETERMINATE"))

Preflighted(r) ==
  /\ \E to \in {"preflight_stop", "rejected"} : Step(r, "preflighted", to)
  /\ preflighted' = TRUE
  /\ UNCHANGED <<created, planned, completed, evidence, status, closure, latch,
                 workspace, history>>

PreflightRejected(r) ==
  /\ Goto(r, "rejected", "close",
          [mem[r] EXCEPT !.status = Status("COMPLETE", "BLOCKED")])
  /\ status' = Status("COMPLETE", "BLOCKED")
  /\ UNCHANGED <<created, planned, preflighted, completed, evidence, closure,
                 latch, workspace, history>>

(* The stop latch is looked at between two phases. *)
StopAfterPreflight(r) ==
  Look(r, "preflight_stop", IF latch THEN "interrupt" ELSE "plan")

Plan(r) ==
  /\ Step(r, "plan", "planned")
  /\ planned' = TRUE
  /\ UNCHANGED <<created, preflighted, completed, evidence, status, closure,
                 latch, workspace, history>>

Planned(r) ==
  Report(r, "planned", "plan_stop", Status("ACTIVE", "INDETERMINATE"))

StopAfterPlan(r) ==
  Look(r, "plan_stop", IF latch THEN "interrupt" ELSE "execute")

(* _interrupt before the execution reports the phase and ends. *)
Interrupt(r) ==
  Report(r, "interrupt", "idle", Status("ACTIVE", "INDETERMINATE"))

------------------------------------------------------------------------------
(* The status of a run that goes on: rejected attempts show as BLOCKED. *)
Running(r, reviewed, current) ==
  [life |-> "ACTIVE",
   ready |-> IF mem[r].rejected THEN "BLOCKED" ELSE "INDETERMINATE",
   active |-> mem[r].active, reviewed |-> reviewed, current |-> current]

Execute(r) == Look(r, "execute", IF Finalized THEN "reload" ELSE "run")

RunPreflight(r) ==
  Report(r, "run", "run_preflight", Running(r, NoPatch, NoPatch))

(* The run's own preflight; a rejected one ends without RUN_COMPLETED. *)
RunPreflighted(r) ==
  /\ \E to \in {"baseline", "run_rejected"} : Step(r, "run_preflight", to)
  /\ preflighted' = TRUE
  /\ UNCHANGED <<created, planned, completed, evidence, status, closure, latch,
                 workspace, history>>

RunRejected(r) ==
  /\ Goto(r, "run_rejected", "run_stop",
          [mem[r] EXCEPT !.status = Status("COMPLETE", "BLOCKED")])
  /\ status' = Status("COMPLETE", "BLOCKED")
  /\ UNCHANGED <<created, planned, preflighted, completed, evidence, closure,
                 latch, workspace, history>>

(* Patches are computed from the workspace as this run found it. *)
Baseline(r) ==
  /\ Goto(r, "baseline", "implement", [mem[r] EXCEPT !.base = workspace])
  /\ UNCHANGED <<documents, workspace, history>>

Implement(r) ==
  Report(r, "implement", "edit", Running(r, mem[r].reviewed, mem[r].current))

(* The agent changes the workspace. *)
AgentEdits(r) ==
  /\ Step(r, "edit", "capture")
  /\ workspace' \in Contents
  /\ UNCHANGED <<documents, history>>

(* An event that carries the patch of the attempt. *)
Record(kind, patch, pass) ==
  /\ evidence' = [kind |-> kind, patch |-> patch, pass |-> pass]
  /\ UNCHANGED <<created, planned, preflighted, completed, status, closure,
                 latch, workspace, crashes, torn>>

(* The attempt ends: its readiness, and its patch as the current one. *)
Ended(r, ready, patch) ==
  [mem[r] EXCEPT !.ready = ready, !.current = patch]

(* Mutant: a repaired attempt keeps the patch of the attempt before it. *)
CapturePatchCached(r) ==
  LET patch == IF mem[r].attempt > 0 THEN mem[r].current
               ELSE <<mem[r].base, workspace>>
  IN  /\ \/ Goto(r, "capture", "validate", [mem[r] EXCEPT !.patch = patch])
         \/ Goto(r, "capture", "complete", Ended(r, "FAILED", patch))
      /\ Record("PATCH_CAPTURED", patch, FALSE)
      /\ UNCHANGED passed

CapturePatch(r) ==
  LET patch == <<mem[r].base, workspace>>
  IN  /\ \/ Goto(r, "capture", "validate", [mem[r] EXCEPT !.patch = patch])
         \/ Goto(r, "capture", "complete", Ended(r, "FAILED", patch))
      /\ Record("PATCH_CAPTURED", patch, FALSE)
      /\ UNCHANGED passed

Validate(r) ==
  Report(r, "validate", "validated", Running(r, mem[r].reviewed, mem[r].patch))

Validated(r) ==
  /\ \/ Step(r, "validated", "review")
     \/ Goto(r, "validated", "complete", Ended(r, "FAILED", mem[r].patch))
  /\ Record("VALIDATION_COMPLETED", mem[r].patch, FALSE)
  /\ UNCHANGED passed

Review(r) ==
  Report(r, "review", "reviewed", Running(r, mem[r].patch, mem[r].patch))

ReviewPasses(r) ==
  /\ Goto(r, "reviewed", "complete",
          [Ended(r, "READY_FOR_COMMIT", mem[r].patch) EXCEPT
             !.active = TRUE, !.reviewed = mem[r].patch])
  /\ Record("REVIEW_COMPLETED", mem[r].patch, TRUE)
  /\ passed' = passed \cup {mem[r].patch}

(* Mutant: the review of a reviewer who was not active is taken for a pass. *)
ReviewFailsOpen(r) ==
  /\ Goto(r, "reviewed", "complete",
          [Ended(r, "READY_FOR_COMMIT", mem[r].patch) EXCEPT
             !.active = TRUE, !.reviewed = mem[r].patch])
  /\ Record("REVIEW_COMPLETED", mem[r].patch, FALSE)
  /\ UNCHANGED passed

(* The reviewer rejects the patch, or none was active. *)
ReviewFails(r) ==
  /\ \E active \in BOOLEAN :
       Goto(r, "reviewed",
            IF mem[r].attempt < MaxRepairs THEN "repair" ELSE "complete",
            [Ended(r, "BLOCKED", mem[r].patch) EXCEPT
               !.rejected = TRUE, !.attempt = @ + 1,
               !.active = @ \/ active,
               !.reviewed = IF active THEN mem[r].patch ELSE @])
  /\ Record("REVIEW_COMPLETED", mem[r].patch, FALSE)
  /\ UNCHANGED passed

Repair(r) ==
  Report(r, "repair", "implement", Running(r, mem[r].current, mem[r].current))

(* Mutant: only the status holds the verdict. *)
CompleteUnrecorded(r) ==
  /\ Goto(r, "complete", "verdict",
          [mem[r] EXCEPT !.status =
             [life |-> "COMPLETE", ready |-> mem[r].ready,
              active |-> mem[r].active, reviewed |-> mem[r].reviewed,
              current |-> mem[r].current]])
  /\ UNCHANGED <<documents, workspace, history>>

(* _finalize: the event first, the status that holds the verdict after it. *)
Complete(r) ==
  /\ Goto(r, "complete", "verdict",
          [mem[r] EXCEPT !.status =
             [life |-> "COMPLETE", ready |-> mem[r].ready,
              active |-> mem[r].active, reviewed |-> mem[r].reviewed,
              current |-> mem[r].current]])
  /\ completed' = mem[r].ready
  /\ UNCHANGED <<created, planned, preflighted, evidence, status, closure,
                 latch, workspace, history>>

Verdict(r) == Report(r, "verdict", "run_stop", mem[r].status)

------------------------------------------------------------------------------
(* The status of an execution that is over is read from its document. *)
LoadStatus(r) ==
  /\ \/ Goto(r, "load", "gate", [mem[r] EXCEPT !.status = status])
     \/ Goto(r, "reload", "run_stop", [mem[r] EXCEPT !.status = status])
  /\ UNCHANGED <<documents, workspace, history>>

(* Mutant: the interruption is reported as between two earlier phases. *)
StopAfterRunReported(r) ==
  IF latch THEN Report(r, "run_stop", "idle", Status("ACTIVE", "INDETERMINATE"))
           ELSE Look(r, "run_stop", "gate")

StopAfterRun(r) == Look(r, "run_stop", IF latch THEN "idle" ELSE "gate")

(* _human_gate: a readiness its own status does not support is blocked. *)
Supported(s) ==
  s.life = "COMPLETE" /\ s.active /\ s.reviewed = s.current

HumanGate(r) ==
  IF mem[r].status.ready = "READY_FOR_COMMIT" /\ ~Supported(mem[r].status)
  THEN /\ Goto(r, "gate", "close", [mem[r] EXCEPT !.status.ready = "BLOCKED"])
       /\ status' = [mem[r].status EXCEPT !.ready = "BLOCKED"]
       /\ UNCHANGED <<created, planned, preflighted, completed, evidence,
                      closure, latch, workspace, history>>
  ELSE Look(r, "gate", "close")

Close(r) ==
  /\ Step(r, "close", "idle")
  /\ closure' = mem[r].status
  /\ UNCHANGED <<created, planned, preflighted, completed, evidence, status,
                 latch, workspace, history>>

------------------------------------------------------------------------------
(* cancel, request-stop and pause: the status decides, then they write. *)
Command(from, to) ==
  /\ command = from
  /\ command' = to
  /\ UNCHANGED <<created, planned, preflighted, completed, evidence,
                 workspace, runners, passed, torn>>

Decide(to) ==
  /\ created
  /\ ~Terminal(status)
  /\ controls < MaxControls
  /\ controls' = controls + 1
  /\ Command("none", to)
  /\ UNCHANGED <<status, closure, latch, crashes>>

Cancel == Decide("cancel")
RequestStop == Decide("stop")

CancelStatus ==
  /\ Command("cancel", "cancel_close")
  /\ status' = Status("COMPLETE", "CANCELLED")
  /\ UNCHANGED <<closure, latch, controls, crashes>>

CancelClosure ==
  /\ Command("cancel_close", "cancel_latch")
  /\ closure' = Status("COMPLETE", "CANCELLED")
  /\ UNCHANGED <<status, latch, controls, crashes>>

WriteLatch ==
  /\ \/ Command("cancel_latch", "none") /\ latch' = FALSE
     \/ Command("stop", "none") /\ latch' = TRUE
  /\ UNCHANGED <<status, closure, controls, crashes>>

------------------------------------------------------------------------------
Crash(r) ==
  /\ crashes < MaxCrashes
  /\ pc[r] # "idle"
  /\ Step(r, pc[r], "idle")
  /\ crashes' = crashes + 1
  /\ torn' = (torn \/ pc[r] = "verdict")
  /\ UNCHANGED <<documents, workspace, passed>>

CommandDies ==
  /\ crashes < MaxCrashes
  /\ command # "none"
  /\ Command(command, "none")
  /\ crashes' = crashes + 1
  /\ UNCHANGED <<status, closure, latch, controls>>

------------------------------------------------------------------------------
PhaseStep(r) ==
  \/ WriteMission(r) \/ WriteCreated(r) \/ ClearLatch(r) \/ Phases(r)
  \/ Preflight(r) \/ Preflighted(r) \/ PreflightRejected(r)
  \/ StopAfterPreflight(r) \/ Plan(r) \/ Planned(r) \/ StopAfterPlan(r)
  \/ Interrupt(r) \/ Execute(r) \/ LoadStatus(r) \/ StopAfterRun(r)
  \/ HumanGate(r) \/ Close(r)

RunStep(r) ==
  \/ RunPreflight(r) \/ RunPreflighted(r) \/ RunRejected(r) \/ Baseline(r)
  \/ Implement(r) \/ AgentEdits(r) \/ CapturePatch(r)
  \/ Validate(r) \/ Validated(r) \/ Review(r) \/ ReviewPasses(r)
  \/ ReviewFails(r) \/ Repair(r) \/ Complete(r) \/ Verdict(r)

Control == Cancel \/ RequestStop \/ CancelStatus \/ CancelClosure \/ WriteLatch

MissionNext ==
  \/ \E r \in Runners :
       Start(r) \/ Resume(r) \/ PhaseStep(r) \/ RunStep(r) \/ Crash(r)
  \/ Control
  \/ CommandDies

MissionSpec == MissionInit /\ [][MissionNext]_missionVars

(* A runner goes on: the agent, the validation and the reviewer time out. *)
FairMission ==
  MissionSpec /\ \A r \in Runners : WF_missionVars(PhaseStep(r) \/ RunStep(r))

------------------------------------------------------------------------------
Steps == {"idle", "s_write", "s_status", "latch", "phases", "preflight",
          "preflighted", "rejected", "preflight_stop", "plan", "planned",
          "plan_stop", "interrupt", "execute", "run", "run_preflight",
          "run_rejected", "baseline", "implement", "edit", "capture",
          "validate", "validated", "review", "reviewed", "repair", "complete",
          "verdict", "run_stop", "load", "reload", "gate", "close"}

Memories ==
  [point : {"none", "gate", "execution", "plan", "preflight"}, base : Contents,
   patch : Patches, attempt : 0 .. MaxRepairs + 1, ready : Readiness,
   rejected : BOOLEAN, active : BOOLEAN, reviewed : Patches,
   current : Patches, status : Statuses]

(* The type invariant. *)
MissionTypeOK ==
  /\ created \in BOOLEAN /\ planned \in BOOLEAN /\ preflighted \in BOOLEAN
  /\ completed \in Readiness \cup {"NONE"}
  /\ evidence \in Events
  /\ status \in Statuses /\ closure \in Statuses
  /\ latch \in BOOLEAN
  /\ workspace \in Contents
  /\ pc \in [Runners -> Steps]
  /\ mem \in [Runners -> Memories]
  /\ command \in {"none", "cancel", "cancel_close", "cancel_latch", "stop"}
  /\ crashes \in 0 .. MaxCrashes /\ controls \in 0 .. MaxControls
  /\ passed \subseteq Patches
  /\ torn \in BOOLEAN

(* Execution is over once it is finalized, however its runners stopped and *)
(* were resumed: the agent works on it no more, and a status that says     *)
(* ready gives way to a cancellation only (recovery.detect_resume,         *)
(* orchestrator._run_phases and _execute).                                 *)
NoSecondExecution ==
  [][/\ workspace' # workspace => ~Finalized
     /\ status.ready = "READY_FOR_COMMIT" =>
          status'.ready \in {"READY_FOR_COMMIT", "CANCELLED"}]_missionVars

(* A mission closed as ready has its current patch passed by a review and *)
(* was finalized as ready (orchestrator._human_gate).                     *)
ReadyHasPassed ==
  closure.ready = "READY_FOR_COMMIT" =>
    closure.current \in passed /\ completed = "READY_FOR_COMMIT"

(* The closure of a finalized mission repeats its verdict, unless it was   *)
(* cancelled or a runner died between the verdict's event and its status.  *)
VerdictKept ==
  Closed /\ Finalized /\ ~torn => closure.ready \in {completed, "CANCELLED"}

(* A mission that is resumed again and again is closed. *)
Closes == ([]<>\E r \in Runners : pc[r] = "latch") => <>Closed
==============================================================================
