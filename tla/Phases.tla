------------------------------- MODULE Phases -------------------------------
(***************************************************************************)
(* The bounded execution of one mission (missions/orchestrator.py over the *)
(* decisions of missions/flow.py): phases run as sub-runs with a record    *)
(* each, failed phases are repaired, budgets and guards block the mission, *)
(* a session that dies is reconstructed from the records.                  *)
(*                                                                         *)
(* The mission document and the sub-run records are files of their own,    *)
(* replaced whole; every write is a step, and a session keeps the document *)
(* it has read until it writes it back.  Nothing locks the mission.        *)
(* CRASHED sub-runs are UNPROVEN ones: both leave their phase UNPROVEN.    *)
(***************************************************************************)
EXTENDS Naturals, Sequences, FiniteSets

CONSTANTS
  Runners,       \* processes that run, resume or reconstruct the mission
  Plan,          \* the kinds of the mission's phases, in order
  Depends,       \* the phases each of them waits for
  Failing,       \* the kinds whose sub-runs may fail
  RepairBudget,  \* repair_budget
  MaxRounds,     \* MAX_REPAIR_ROUNDS
  SubrunBudget,  \* subrun_budget
  Session,       \* max_session_subruns
  MaxNotes,      \* MAX_HUMAN_INTERVENTIONS
  MaxCrashes,    \* bound on the processes that die
  Overlapping    \* whether commands on the mission overlap

Kinds == {"PLAN", "IMPLEMENT", "VALIDATE", "REVIEW", "REPAIR", "CONSOLIDATE"}

ASSUME PhasesAssumption ==
  /\ Plan \in Seq(Kinds \ {"REPAIR"}) /\ Plan # <<>>
  /\ Depends \in [DOMAIN Plan -> SUBSET DOMAIN Plan]
  /\ Failing \subseteq Kinds
  /\ RepairBudget \in 0 .. MaxRounds /\ MaxRounds \in Nat \ {0}
  /\ SubrunBudget \in Nat \ {0} /\ Session \in Nat \ {0}
  /\ MaxNotes \in Nat /\ MaxCrashes \in Nat
  /\ Overlapping \in BOOLEAN

VARIABLES
  mission,  \* the mission document
  records,  \* the sub-run records, by phase and attempt
  pc,       \* the next step of each runner
  mem,      \* what each runner keeps
  desk,     \* the operator's command under way, and the document it read
  crashes,  \* processes that died
  ran       \* the sub-runs that ran, in order

vars == <<mission, records, pc, mem, desk, crashes, ran>>

------------------------------------------------------------------------------
MaxAttempts(kind) ==
  CASE kind = "REPAIR"               -> 1
    [] kind \in {"VALIDATE", "REVIEW"} -> 1 + RepairBudget
    [] OTHER                         -> 2

(* The mission's state while a phase of a kind is at work. *)
StateOf == [PLAN |-> "PLANNING", IMPLEMENT |-> "RUNNING",
            VALIDATE |-> "VALIDATING", REVIEW |-> "REVIEWING",
            REPAIR |-> "REPAIRING", CONSOLIDATE |-> "CONSOLIDATING"]

Ended == {"BLOCKED", "COMPLETE", "FAILED"}

(* Mutant: a mission under repair has no way to be blocked. *)
LegalUnblocked(from, to) ==
  \/ from = to
  \/ from \notin Ended \cup {"REPAIRING"} /\ to \in {"BLOCKED", "FAILED"}
  \/ from = "PLANNING" /\ to \in {"RUNNING", "REPAIRING"}
  \/ from = "RUNNING" /\ to \in {"VALIDATING", "REPAIRING"}
  \/ from = "VALIDATING" /\ to \in {"REVIEWING", "REPAIRING"}
  \/ from = "REVIEWING" /\ to \in {"CONSOLIDATING", "REPAIRING"}
  \/ from = "REPAIRING" /\ to \in {"VALIDATING", "REVIEWING"}
  \/ from = "CONSOLIDATING" /\ to = "COMPLETE"

(* Mutant: a repaired plan is planned again. *)
LegalReplanning(from, to) ==
  \/ from = to
  \/ from \notin Ended /\ to \in {"BLOCKED", "FAILED"}
  \/ to \in CASE from = "PLANNING"      -> {"RUNNING", "REPAIRING"}
              [] from = "RUNNING"       -> {"VALIDATING", "REPAIRING"}
              [] from = "VALIDATING"    -> {"REVIEWING", "REPAIRING"}
              [] from = "REVIEWING"     -> {"CONSOLIDATING", "REPAIRING"}
              [] from = "REPAIRING"     -> {"PLANNING", "VALIDATING", "REVIEWING"}
              [] from = "CONSOLIDATING" -> {"COMPLETE"}
              [] OTHER                  -> {}

(* MISSION_TRANSITIONS *)
Legal(from, to) ==
  \/ from = to
  \/ from \notin Ended /\ to \in {"BLOCKED", "FAILED"}
  \/ to \in CASE from = "PLANNING"      -> {"RUNNING", "REPAIRING"}
              [] from = "RUNNING"       -> {"VALIDATING", "REPAIRING"}
              [] from = "VALIDATING"    -> {"REVIEWING", "REPAIRING"}
              [] from = "REVIEWING"     -> {"CONSOLIDATING", "REPAIRING"}
              [] from = "REPAIRING"     -> {"VALIDATING", "REVIEWING"}
              [] from = "CONSOLIDATING" -> {"COMPLETE"}
              [] OTHER                  -> {}

Attempts == 1 .. 2 + RepairBudget
Slots == 1 .. Len(Plan) + MaxRounds

(* A phase: its attempts, the repairs used when it last ended, its last *)
(* sub-run.                                                             *)
NewPhase(kind, used) ==
  [kind |-> kind, state |-> "PENDING", attempt |-> 0, used |-> used, last |-> 0]

(* create_mission *)
Created ==
  [state |-> "PLANNING", begun |-> FALSE,
   phases |-> [i \in DOMAIN Plan |-> NewPhase(Plan[i], 0)],
   started |-> 0, completed |-> 0, used |-> 0, approved |-> "none", notes |-> 0]

Blank == [doc |-> Created, phase |-> 1, attempt |-> 1, class |-> "UNPROVEN",
          session |-> 0]

Init ==
  /\ mission = Created
  /\ records = [x \in Slots \X Attempts |-> "NONE"]
  /\ pc = [r \in Runners |-> "idle"]
  /\ mem = [r \in Runners |-> Blank]
  /\ desk = [step |-> "none", doc |-> Created]
  /\ crashes = 0
  /\ ran = <<>>

------------------------------------------------------------------------------
Minimum(S) == CHOOSE x \in S : \A y \in S : x <= y

Repairs(d) == {i \in DOMAIN d.phases : d.phases[i].kind = "REPAIR"}
Unsatisfied(d) == {i \in DOMAIN d.phases : d.phases[i].state # "PASSED"}

DependsSatisfied(d, i) ==
  i \in DOMAIN Plan => \A j \in Depends[i] : d.phases[j].state = "PASSED"

(* Mutant: the rounds are counted from zero. *)
RoundExistsEarly(d, round) == Cardinality(Repairs(d)) >= round - 1

(* The repair phases are appended to the plan, one for each round. *)
RoundExists(d, round) == Cardinality(Repairs(d)) >= round

Do(action, phase) == [action |-> action, phase |-> phase]

(* _failure_decision: one repair round, then the phase again. *)
FailureDecision(d, i) ==
  LET p == d.phases[i]
      repaired == d.used > p.used
  IN  CASE repaired /\ p.attempt < MaxAttempts(p.kind) -> Do("run_phase", i)
        [] ~repaired /\ d.used < RepairBudget /\ d.used < MaxRounds ->
             Do("repair", d.used + 1)
        [] OTHER -> Do("blocked", i)

(* What the first unsatisfied phase calls for; in flight, it is ambiguous. *)
PhaseDecision(d, i) ==
  LET p == d.phases[i] IN
  IF ~DependsSatisfied(d, i) \/ p.state = "RUNNING" THEN Do("blocked", i)
  ELSE IF p.state = "FAILED" THEN FailureDecision(d, i)
  ELSE IF p.state = "PENDING" \/ p.attempt < MaxAttempts(p.kind)
    THEN Do("run_phase", i) ELSE Do("blocked", i)

(* flow.decide: the one next action of a mission that has not ended. *)
Decide(d) ==
  LET failed == {i \in Repairs(d) :
                   /\ d.phases[i].state \in {"FAILED", "UNPROVEN"}
                   /\ d.phases[i].attempt >= MaxAttempts("REPAIR")}
      pending == {i \in Repairs(d) : d.phases[i].state = "PENDING"}
  IN  CASE failed # {} -> Do("blocked", Minimum(failed))
        [] failed = {} /\ pending # {} ->
             Do(IF d.used < RepairBudget THEN "run_phase" ELSE "blocked",
                Minimum(pending))
        [] failed = {} /\ pending = {} /\ Unsatisfied(d) # {} ->
             PhaseDecision(d, Minimum(Unsatisfied(d)))
        [] OTHER -> Do("complete", 1)

EndOf(decision) == IF decision.action = "complete" THEN "COMPLETE" ELSE "BLOCKED"

------------------------------------------------------------------------------
Goto(r, from, to, keep) ==
  /\ pc[r] = from
  /\ pc' = [pc EXCEPT ![r] = to]
  /\ mem' = [mem EXCEPT ![r] = IF to = "idle" THEN Blank ELSE keep]
  /\ UNCHANGED <<desk, crashes>>

Reads == UNCHANGED <<mission, records, ran>>

(* A step that replaces the mission document. *)
Saves(r, from, to, keep, d) ==
  /\ Goto(r, from, to, keep)
  /\ mission' = d
  /\ UNCHANGED <<records, ran>>

Alone == Overlapping \/ ((\A r \in Runners : pc[r] = "idle") /\ desk.step = "none")

(* run and continue; resume and reconstruct look at the records first. *)
Begin(r) ==
  /\ Alone
  /\ \E to \in {"load", "rebuild", "rebuild_only"} : Goto(r, "idle", to, Blank)
  /\ Reads

------------------------------------------------------------------------------
(* run_mission: load, decide, act, until the mission or the session ends. *)
Next0(r, session) == [Blank EXCEPT !.session = session]

SessionOver(r) ==
  /\ mem[r].session >= Session \/ mission.state \in Ended
  /\ Goto(r, "load", "idle", Blank)
  /\ Reads

LoadAndDecide(r) ==
  /\ mem[r].session < Session
  /\ mission.state \notin Ended
  /\ LET d == Decide(mission) IN
       Goto(r, "load",
            CASE d.action = "run_phase" -> "phase"
              [] d.action = "repair"    -> "repair"
              [] OTHER -> IF Legal(mission.state, EndOf(d)) THEN "end" ELSE "idle",
            [mem[r] EXCEPT !.doc = mission, !.phase = d.phase])
  /\ Reads

EndMission(r) ==
  Saves(r, "end", "idle", Blank,
        [mem[r].doc EXCEPT !.state = EndOf(Decide(mem[r].doc))])

(* _create_repair_phase *)
WithRepair(d, round) ==
  IF RoundExists(d, round) THEN d
  ELSE [d EXCEPT !.phases = Append(@, NewPhase("REPAIR", d.used))]

(* A round that exists already changes nothing, and the loop goes on. *)
Repair(r) ==
  Saves(r, "repair", "load", Next0(r, mem[r].session),
        IF RoundExists(mem[r].doc, mem[r].phase) THEN mission
        ELSE WithRepair(mem[r].doc, mem[r].phase))

------------------------------------------------------------------------------
(* assert_no_workspace_conflict *)
InFlight(d) ==
  \E i \in DOMAIN d.phases :
    /\ d.phases[i].state = "RUNNING" /\ d.phases[i].last # 0
    /\ records[<<i, d.phases[i].last>>] = "RUNNING"

(* run_phase reads the document again.  Before the launch come the deadline, *)
(* the sub-runs started, and the guards: the resources, HEAD, what is in     *)
(* flight.                                                                   *)
PhaseLoad(r) ==
  /\ mem[r].phase \in DOMAIN mission.phases
  /\ LET d == [mission EXCEPT !.begun = TRUE]
         p == d.phases[mem[r].phase]
         refused == p.state = "PASSED" \/ (p.state = "RUNNING" /\ InFlight(d))
         exhausted == d.started >= SubrunBudget
         To(next) == Goto(r, "phase", next, [mem[r] EXCEPT !.doc = d])
     IN  \/ (refused \/ ~exhausted) /\ To("guarded")
         \/ ~refused /\ mission.begun /\ To("block")
         \/ ~refused /\ exhausted /\ To("exhausted")
         \/ /\ ~refused /\ ~exhausted /\ ~InFlight(d)
            /\ To(IF Legal(d.state, StateOf[p.kind]) THEN "running" ELSE "idle")
  /\ Reads

(* No sub-run is left: the next repair is registered, never launched. *)
Exhausted(r) ==
  LET d == WithRepair(mem[r].doc, Minimum({mem[r].doc.used + 1, MaxRounds}))
  IN  Saves(r, "exhausted", "block", [mem[r] EXCEPT !.doc = d],
            IF d = mem[r].doc THEN mission ELSE d)

(* run_mission blocks the mission for a guard that refused. *)
GuardLoad(r) ==
  /\ Goto(r, "guarded", IF mission.state \in Ended THEN "idle" ELSE "block",
          [mem[r] EXCEPT !.doc = mission])
  /\ Reads

Block(r) ==
  Saves(r, "block", "idle", Blank,
        IF Legal(mem[r].doc.state, "BLOCKED")
          THEN [mem[r].doc EXCEPT !.state = "BLOCKED"] ELSE mission)

------------------------------------------------------------------------------
SubrunOf(r) == <<mem[r].phase, mem[r].attempt>>

WriteRunning(r) ==
  LET i == mem[r].phase
      d == [mem[r].doc EXCEPT !.phases[i].state = "RUNNING",
                              !.state = StateOf[mem[r].doc.phases[i].kind]]
  IN  Saves(r, "running", "record",
            [mem[r] EXCEPT !.doc = d, !.attempt = d.phases[i].attempt + 1], d)

(* The record is there before the launch. *)
WriteRecord(r) ==
  /\ Goto(r, "record", "counted", mem[r])
  /\ records' = [records EXCEPT ![SubrunOf(r)] = "RUNNING"]
  /\ UNCHANGED <<mission, ran>>

(* Mutant: a sub-run is counted when it has ended. *)
CountStartedLater(r) ==
  LET i == mem[r].phase
      d == [mem[r].doc EXCEPT !.phases[i].last = mem[r].attempt]
  IN  Saves(r, "counted", "subrun", [mem[r] EXCEPT !.doc = d], d)

CountStarted(r) ==
  LET i == mem[r].phase
      d == [mem[r].doc EXCEPT !.phases[i].last = mem[r].attempt, !.started = @ + 1]
  IN  Saves(r, "counted", "subrun", [mem[r] EXCEPT !.doc = d], d)

(* The sub-run itself, classified. *)
RunSubrun(r) ==
  LET i == mem[r].phase IN
  \E class \in {"COMPLETED", "UNPROVEN"} \cup
               (IF mem[r].doc.phases[i].kind \in Failing THEN {"FAILED"} ELSE {}) :
    /\ Goto(r, "subrun", "finish", [mem[r] EXCEPT !.class = class])
    /\ ran' = Append(ran, [phase |-> i, attempt |-> mem[r].attempt,
                           kind |-> mem[r].doc.phases[i].kind, class |-> class])
    /\ UNCHANGED <<mission, records>>

(* finalize_subrun: the document again, the record, then the document. *)
FinishLoad(r) ==
  /\ Goto(r, "finish", "close", [mem[r] EXCEPT !.doc = mission])
  /\ Reads

CloseRecord(r) ==
  /\ Goto(r, "close", "advance", mem[r])
  /\ records' = [records EXCEPT ![SubrunOf(r)] = mem[r].class]
  /\ UNCHANGED <<mission, ran>>

PhaseAfter(class) ==
  CASE class = "COMPLETED" -> "PASSED"
    [] class = "FAILED"    -> "FAILED"
    [] OTHER               -> "UNPROVEN"

Maximum(a, b) == IF a < b THEN b ELSE a

(* The mission with phase i ended by its attempt, of a class. *)
Finished(d, i, attempt, class) ==
  [d EXCEPT !.phases[i].attempt = Maximum(@, attempt),
            !.phases[i].used = d.used,
            !.phases[i].state = PhaseAfter(class),
            !.completed = @ + 1,
            !.used = IF d.phases[i].kind = "REPAIR" THEN @ + 1 ELSE @]

(* _next_state_label; a repair that did not pass blocks. *)
StateAfter(d, i) ==
  CASE d.phases[i].state = "PASSED" ->
         IF Unsatisfied(d) = {} THEN "COMPLETE"
         ELSE StateOf[d.phases[Minimum(Unsatisfied(d))].kind]
    [] d.phases[i].state # "PASSED" /\ d.phases[i].kind = "REPAIR" -> "BLOCKED"
    [] OTHER -> d.state

(* The mission moves on; a transition that is not legal raises unsaved. *)
Advance(r) ==
  LET i == mem[r].phase
      d == Finished(mem[r].doc, i, mem[r].attempt, mem[r].class)
      next == StateAfter(d, i)
  IN  IF i \in DOMAIN mem[r].doc.phases /\ Legal(d.state, next)
      THEN Saves(r, "advance", "load", Next0(r, mem[r].session + 1),
                 [d EXCEPT !.state = next])
      ELSE Goto(r, "advance", "idle", Blank) /\ Reads

------------------------------------------------------------------------------
(* reconstruct: each phase as its last record proves it.  A record still   *)
(* RUNNING is closed as UNPROVEN.                                          *)
LastRecord(d, i) == records[<<i, d.phases[i].last>>]

(* Mutant: a sub-run cut short is taken for one that passed. *)
RebuiltHopeful(d, i) ==
  LET p == d.phases[i] IN
  CASE p.state = "PASSED" -> p
    [] p.state # "PASSED" /\ p.last = 0 ->
         IF p.state = "RUNNING" THEN [p EXCEPT !.state = "PENDING"] ELSE p
    [] OTHER -> [p EXCEPT !.state = IF LastRecord(d, i) = "RUNNING" THEN "PASSED"
                                    ELSE PhaseAfter(LastRecord(d, i)),
                          !.attempt = Maximum(@, p.last)]

(* Mutant: the attempts of the records are not carried over. *)
RebuiltForgetful(d, i) ==
  LET p == d.phases[i] IN
  CASE p.state = "PASSED" -> p
    [] p.state # "PASSED" /\ p.last = 0 ->
         IF p.state = "RUNNING" THEN [p EXCEPT !.state = "PENDING"] ELSE p
    [] OTHER -> [p EXCEPT !.state = PhaseAfter(LastRecord(d, i))]

Rebuilt(d, i) ==
  LET p == d.phases[i] IN
  CASE p.state = "PASSED" -> p
    [] p.state # "PASSED" /\ p.last = 0 ->
         IF p.state = "RUNNING" THEN [p EXCEPT !.state = "PENDING"] ELSE p
    [] OTHER -> [p EXCEPT !.state = PhaseAfter(LastRecord(d, i)),
                          !.attempt = Maximum(@, p.last)]

(* A phase that claims to have passed without a record that says so. *)
Contradiction(d) ==
  \E i \in DOMAIN d.phases :
    /\ d.phases[i].state = "PASSED"
    /\ d.phases[i].last = 0 \/ LastRecord(d, i) # "COMPLETED"

(* Whether there is anything to write: a failed phase is as it was. *)
Changed(d) ==
  \E i \in Unsatisfied(d) :
    IF d.phases[i].last = 0 THEN d.phases[i].state = "RUNNING"
    ELSE d.phases[i].state # "FAILED" \/ LastRecord(d, i) # "FAILED"

(* reconstruct alone is a resume without a session. *)
Rebuild(r) ==
  /\ \E from \in {"rebuild", "rebuild_only"} :
       Goto(r, from,
            CASE mission.state \in Ended \/ Contradiction(mission) -> "idle"
              [] Changed(mission) /\ ~Contradiction(mission) /\ mission.state \notin Ended -> "rebuild_records"
              [] OTHER -> "load",
            [mem[r] EXCEPT
               !.doc = [mission EXCEPT !.phases =
                 [i \in DOMAIN mission.phases |-> Rebuilt(mission, i)]],
               !.session = IF from = "rebuild" THEN 0 ELSE Session])
  /\ Reads

RebuildRecords(r) ==
  /\ Goto(r, "rebuild_records", "rebuild_save", mem[r])
  /\ records' = [x \in DOMAIN records |->
       IF /\ records[x] = "RUNNING"
          /\ x[1] \in DOMAIN mem[r].doc.phases
          /\ mem[r].doc.phases[x[1]].last = x[2]
       THEN "UNPROVEN" ELSE records[x]]
  /\ UNCHANGED <<mission, ran>>

(* What the evidence calls for is saved, and the session goes on. *)
RebuildSave(r) ==
  LET d == mem[r].doc
      end == EndOf(Decide(d))
      ends == Decide(d).action \in {"complete", "blocked"}
  IN  IF ends /\ ~Legal(d.state, end)
      THEN Goto(r, "rebuild_save", "idle", Blank) /\ Reads
      ELSE Saves(r, "rebuild_save", "load", Next0(r, mem[r].session),
                 IF ends THEN [d EXCEPT !.state = end] ELSE d)

------------------------------------------------------------------------------
(* The operator: a note, the approval of the commit, that of the merge. *)
Approval == [none |-> "commit", commit |-> "merge"]

Read ==
  /\ desk.step = "none"
  /\ Alone
  /\ \/ mission.notes < MaxNotes /\ desk' = [step |-> "note", doc |-> mission]
     \/ /\ mission.state = "COMPLETE" /\ mission.approved # "merge"
        /\ desk' = [step |-> "approve", doc |-> mission]
  /\ UNCHANGED <<mission, records, pc, mem, crashes, ran>>

Write ==
  /\ desk.step # "none"
  /\ mission' = IF desk.step = "note"
                THEN [desk.doc EXCEPT !.notes = @ + 1]
                ELSE [desk.doc EXCEPT !.approved = Approval[@]]
  /\ desk' = [step |-> "none", doc |-> Created]
  /\ UNCHANGED <<records, pc, mem, crashes, ran>>

------------------------------------------------------------------------------
Crash(r) ==
  /\ pc[r] # "idle"
  /\ crashes < MaxCrashes
  /\ crashes' = crashes + 1
  /\ pc' = [pc EXCEPT ![r] = "idle"]
  /\ mem' = [mem EXCEPT ![r] = Blank]
  /\ UNCHANGED <<mission, records, desk, ran>>

Step(r) ==
  \/ SessionOver(r) \/ LoadAndDecide(r) \/ EndMission(r) \/ Repair(r)
  \/ PhaseLoad(r) \/ Exhausted(r) \/ GuardLoad(r) \/ Block(r)
  \/ WriteRunning(r) \/ WriteRecord(r) \/ CountStarted(r) \/ RunSubrun(r)
  \/ FinishLoad(r) \/ CloseRecord(r) \/ Advance(r)
  \/ Rebuild(r) \/ RebuildRecords(r) \/ RebuildSave(r)

Next ==
  \/ \E r \in Runners : Begin(r) \/ Step(r) \/ Crash(r)
  \/ Read \/ Write

Spec == Init /\ [][Next]_vars

(* A command goes on: its sub-runs time out. *)
FairSpec == Spec /\ \A r \in Runners : WF_vars(Step(r))

------------------------------------------------------------------------------
Steps == {"idle", "load", "rebuild", "rebuild_only", "end", "repair", "phase",
          "guarded", "block", "exhausted", "running", "record", "counted",
          "subrun", "finish", "close", "advance", "rebuild_records",
          "rebuild_save"}

PhaseDocs == [kind : Kinds, state : {"PENDING", "RUNNING", "PASSED", "FAILED",
                                     "UNPROVEN"},
              attempt : Attempts \cup {0}, used : 0 .. MaxRounds,
              last : Attempts \cup {0}]

MissionDocs == [state : {StateOf[k] : k \in Kinds} \cup Ended, begun : BOOLEAN,
                phases : Seq(PhaseDocs), started : 0 .. SubrunBudget,
                completed : 0 .. SubrunBudget, used : 0 .. RepairBudget,
                approved : {"none", "commit", "merge"}, notes : 0 .. MaxNotes]

Classes == {"COMPLETED", "FAILED", "UNPROVEN"}

(* The type invariant, with the bounds on what a mission may try. *)
TypeOK ==
  /\ mission \in MissionDocs
  /\ \A i \in DOMAIN mission.phases :
       mission.phases[i].attempt <= MaxAttempts(mission.phases[i].kind)
  /\ records \in [Slots \X Attempts -> Classes \cup {"NONE", "RUNNING"}]
  /\ pc \in [Runners -> Steps]
  /\ mem \in [Runners -> [doc : MissionDocs, phase : Slots, attempt : Attempts,
                          class : Classes, session : 0 .. Session]]
  /\ desk \in [step : {"none", "note", "approve"}, doc : MissionDocs]
  /\ crashes \in 0 .. MaxCrashes

RunsOf(i) == {k \in DOMAIN ran : ran[k].phase = i}

(* A phase that has passed had its last sub-run completed, and a mission is *)
(* complete when its phases have passed (finalize_subrun, reconstruct).     *)
Proven ==
  /\ \A i \in DOMAIN mission.phases : mission.phases[i].state = "PASSED" =>
       \E k \in RunsOf(i) : /\ ran[k].class = "COMPLETED"
                            /\ \A j \in RunsOf(i) : j <= k
  /\ mission.state = "COMPLETE" => Unsatisfied(mission) = {}

(* However sessions die, no more sub-runs run than the budget has, and no  *)
(* more repairs than theirs.                                               *)
WithinBudget ==
  /\ Len(ran) <= SubrunBudget
  /\ Cardinality({k \in DOMAIN ran : ran[k].kind = "REPAIR"}) <= RepairBudget

(* An attempt runs once: the record of a sub-run that ended is never the *)
(* record of another one (reconstruct's attempt ledger).                 *)
RanOnce ==
  \A j, k \in DOMAIN ran :
    ran[j].phase = ran[k].phase /\ ran[j].attempt = ran[k].attempt => j = k

(* A repair round was begun, and repairs_used does not count it. *)
Uncounted ==
  mission.used < Cardinality({i \in Repairs(mission) :
                                mission.phases[i].state \in {"RUNNING", "PASSED"}})

(* A session comes to its end. *)
SessionEnds == \A r \in Runners : pc[r] # "idle" ~> pc[r] = "idle"

(* A session comes to its end unless a repair is left uncounted for ever. *)
SessionEndsCounted ==
  \A r \in Runners : pc[r] # "idle" ~> (pc[r] = "idle" \/ []Uncounted)

(* A repair that waits where no transition leads to it. *)
Refused ==
  /\ mission.state = "CONSOLIDATING"
  /\ \E i \in Repairs(mission) : mission.phases[i].state = "PENDING"

(* A mission that is run again and again ends, but for the two dead ends. *)
Concludes ==
  ([]<>\E r \in Runners : pc[r] = "load" /\ mem[r].session < Session) =>
    (<>(mission.state \in Ended) \/ <>[]Uncounted \/ <>[]Refused)
=============================================================================
