------------------------- MODULE PlatformSupervisor -------------------------
(***************************************************************************)
(* The platform supervisor (platform/supervisor.py): processes claim the   *)
(* owner file, run bounded cycles under it and release it, operators ask   *)
(* them to stop, and a process may die anywhere.  Every read and every     *)
(* write of a file is a step of its own, but for the crash mark (Recover), *)
(* which the RUNNING saved next replaces whatever it was.                  *)
(*                                                                         *)
(* Abstractions.  A process is its pid, and its token with it: pids are    *)
(* not reused.  A cycle is one step with one of its outcomes; what it does *)
(* to the queue is PlatformQueue's subject.  Heartbeats, timestamps and    *)
(* project lists, which nothing decides on, are left out.                  *)
(***************************************************************************)
EXTENDS Integers, FiniteSets

CONSTANTS
  Pids,          \* processes that run the supervisor, one after another or at once
  Operators,     \* terminals that request and clear stops
  MaxCycles,     \* max_cycles of a session
  Outcomes,      \* what a cycle may end in
  Overlapping,   \* the operator may start a supervisor while another one claims
  Nobody         \* no pid

ASSUME SupervisorConstants ==
  /\ MaxCycles \in Nat
  /\ Outcomes \subseteq {"ok", "complete", "error", "raise"}
  /\ Overlapping \in BOOLEAN
  /\ Nobody \notin Pids

(* The owner file: absent, just created by some process and still empty,   *)
(* or naming its owner.  An empty file reads as none.                      *)
OwnerFile == [kind: {"absent", "empty", "owned"}, by: Pids \cup {Nobody}]
Absent == [kind |-> "absent", by |-> Nobody]
EmptyBy(p) == [kind |-> "empty", by |-> p]
OwnedBy(p) == [kind |-> "owned", by |-> p]

Statuses == {"NONE", "RUNNING", "STOPPED", "COMPLETE", "ERROR", "CRASHED"}
(* state.json; status NONE stands for no file. *)
StateDoc == [status: Statuses, owner: Pids \cup {Nobody}, stop: BOOLEAN]
NoState == [status |-> "NONE", owner |-> Nobody, stop |-> FALSE]

VARIABLES
  owner,     \* the owner file
  state,     \* state.json
  stopFile,  \* whether the stop file exists
  alive,     \* processes that live
  pc, cycles, status,   \* each supervisor: where it is, the cycles it ran
             \* and the status it ends with
  opc, omem, \* each operator
  late,      \* history: cycles the session began after a stop was requested
  raised,    \* history: processes whose last session ended in an exception
             \* that run_supervisor does not catch
  restored   \* history: state.json is what a stop request had read before
             \* the state saved last, and put back

local == <<pc, cycles, status>>
operators == <<opc, omem>>
history == <<late, raised, restored>>
vars == <<owner, state, stopFile, alive, local, operators, history>>

Init ==
  /\ owner = Absent /\ state = NoState /\ stopFile = FALSE
  /\ alive = Pids
  /\ pc = [p \in Pids |-> "idle"]
  /\ cycles = [p \in Pids |-> 0]
  /\ status = [p \in Pids |-> "NONE"]
  /\ opc = [o \in Operators |-> "idle"]
  /\ omem = [o \in Operators |-> NoState]
  /\ late = [p \in Pids |-> 0]
  /\ raised = {} /\ restored = FALSE

Sessions ==
  {"recover", "begin", "check", "cycle", "finish", "release", "unlink"}
Claiming == {"create", "fill", "reread", "overwrite", "takeover"}

At(p, label) == p \in alive /\ pc[p] = label
Goto(p, label) == pc' = [pc EXCEPT ![p] = label]

(* The process the owner file names, as read_owner sees it.                *)
Named == IF owner.kind = "owned" THEN owner.by ELSE Nobody

-----------------------------------------------------------------------------
(* claim_ownership. *)

(* Mutants: whether the owner lives is not asked; its name is enough.      *)
ClaimReadAny(p) ==
  /\ At(p, "idle")
  /\ Overlapping \/ \A q \in alive : pc[q] \notin Claiming
  /\ Goto(p, IF Named \in {p, Nobody} THEN "create" ELSE "takeover")
  /\ UNCHANGED <<owner, state, stopFile, alive, cycles, status, operators,
                 history>>

ClaimReadStrict(p) ==
  /\ At(p, "idle")
  /\ Overlapping \/ \A q \in alive : pc[q] \notin Claiming
  /\ Named \in {p, Nobody}
  /\ Goto(p, IF Named \in {p, Nobody} THEN "create" ELSE "takeover")
  /\ UNCHANGED <<owner, state, stopFile, alive, cycles, status, operators,
                 history>>

(* Denied while the named owner lives.  One that is dead is overwritten;   *)
(* where none is named the file is created.                                *)
ClaimRead(p) ==
  /\ At(p, "idle")
  /\ Overlapping \/ \A q \in alive : pc[q] \notin Claiming
  /\ Named = p \/ Named \notin alive
  /\ Goto(p, IF Named \in {p, Nobody} THEN "create" ELSE "takeover")
  /\ UNCHANGED <<owner, state, stopFile, alive, cycles, status, operators,
                 history>>

(* O_CREAT | O_EXCL. *)
ClaimCreate(p) ==
  /\ At(p, "create")
  /\ IF owner = Absent THEN owner' = EmptyBy(p) /\ Goto(p, "fill")
                       ELSE UNCHANGED owner /\ Goto(p, "reread")
  /\ UNCHANGED <<state, stopFile, alive, cycles, status, operators,
                 history>>

(* The payload goes to the file created, which another process may have    *)
(* replaced meanwhile.                                                     *)
ClaimFill(p) ==
  /\ At(p, "fill")
  /\ owner' = IF owner = EmptyBy(p) THEN OwnedBy(p) ELSE owner
  /\ Goto(p, "begin")
  /\ UNCHANGED <<state, stopFile, alive, cycles, status, operators,
                 history>>

(* The create failed: denied if the owner named now lives.                 *)
ClaimReread(p) ==
  /\ At(p, "reread")
  /\ Goto(p, IF Named \in alive THEN "idle"
             ELSE IF Named = Nobody THEN "overwrite" ELSE "takeover")
  /\ UNCHANGED <<owner, state, stopFile, alive, cycles, status, operators,
                 history>>

(* The claim recovers from a previous owner where one was named.           *)
ClaimOverwrite(p) ==
  /\ pc[p] \in {"overwrite", "takeover"} /\ p \in alive
  /\ owner' = OwnedBy(p)
  /\ Goto(p, IF pc[p] = "takeover" THEN "recover" ELSE "begin")
  /\ UNCHANGED <<state, stopFile, alive, cycles, status, operators, history>>

-----------------------------------------------------------------------------
(* run_supervisor. *)

(* The crash of the dead owner is recorded. *)
Recover(p) ==
  /\ At(p, "recover")
  /\ state' = IF state.status = "RUNNING" THEN [state EXCEPT !.status = "CRASHED"]
                                          ELSE state
  /\ Goto(p, "begin")
  /\ UNCHANGED <<owner, stopFile, alive, cycles, status, operators,
                 history>>

(* What a session keeps of state.json: it never looks at the file again.   *)
Mine(p) == [status |-> "RUNNING", owner |-> p, stop |-> FALSE]

(* RUNNING is saved before the first cycle.                                *)
BeginSession(p) ==
  /\ At(p, "begin")
  /\ state' = Mine(p)
  /\ status' = [status EXCEPT ![p] = "RUNNING"]
  /\ raised' = raised \ {p} /\ restored' = FALSE
  /\ Goto(p, "check")
  /\ UNCHANGED <<owner, stopFile, alive, cycles, operators, late>>

(* Mutants: the stop file is read before the first cycle only; cycles are  *)
(* not bounded.                                                            *)
CheckStopOnce(p) ==
  /\ At(p, "check")
  /\ IF cycles[p] = MaxCycles \/ (stopFile /\ cycles[p] = 0)
       THEN /\ status' = [status EXCEPT ![p] = "STOPPED"]
            /\ Goto(p, "finish")
       ELSE UNCHANGED status /\ Goto(p, "cycle")
  /\ UNCHANGED <<owner, state, stopFile, alive, cycles, operators,
                 history>>

CheckStop(p) ==
  /\ At(p, "check")
  /\ IF cycles[p] = MaxCycles \/ stopFile
       THEN /\ status' = [status EXCEPT ![p] = "STOPPED"]
            /\ Goto(p, "finish")
       ELSE UNCHANGED status /\ Goto(p, "cycle")
  /\ UNCHANGED <<owner, state, stopFile, alive, cycles, operators,
                 history>>

(* Mutant: what a cycle raises skips the release.                          *)
CycleEscaping(p) ==
  /\ At(p, "cycle")
  /\ cycles' = [cycles EXCEPT ![p] = @ + 1]
  /\ late' = [late EXCEPT ![p] = IF stopFile THEN @ + 1 ELSE @]
  /\ \E outcome \in Outcomes :
       /\ status' = [status EXCEPT ![p] =
            CASE outcome = "complete" -> "COMPLETE"
              [] outcome = "error"    -> "ERROR"
              [] OTHER                -> @]
       /\ raised' = IF outcome = "raise" THEN raised \cup {p} ELSE raised
       /\ IF outcome \in {"ok", "complete"}
            THEN state' = Mine(p) /\ restored' = FALSE
            ELSE UNCHANGED <<state, restored>>
       /\ Goto(p, CASE outcome = "ok"    -> "check"
                   [] outcome = "raise" -> "idle"
                   [] OTHER             -> "finish")
  /\ UNCHANGED <<owner, stopFile, alive, operators>>

(* A cycle: the state is saved unless it failed.  An exception other than  *)
(* PlatformError leaves the status as it is.                               *)
Cycle(p) ==
  /\ At(p, "cycle")
  /\ cycles' = [cycles EXCEPT ![p] = @ + 1]
  /\ late' = [late EXCEPT ![p] = IF stopFile THEN @ + 1 ELSE @]
  /\ \E outcome \in Outcomes :
       /\ status' = [status EXCEPT ![p] =
            CASE outcome = "complete" -> "COMPLETE"
              [] outcome = "error"    -> "ERROR"
              [] OTHER                -> @]
       /\ raised' = IF outcome = "raise" THEN raised \cup {p} ELSE raised
       /\ IF outcome \in {"ok", "complete"}
            THEN state' = Mine(p) /\ restored' = FALSE
            ELSE UNCHANGED <<state, restored>>
       /\ Goto(p, IF outcome = "ok" THEN "check" ELSE "finish")
  /\ UNCHANGED <<owner, stopFile, alive, operators>>

(* Mutant: the status is left as it was.                                   *)
FinishUnmarked(p) ==
  /\ At(p, "finish")
  /\ state' = Mine(p)
  /\ cycles' = [cycles EXCEPT ![p] = 0]
  /\ status' = [status EXCEPT ![p] = "NONE"]
  /\ late' = [late EXCEPT ![p] = 0] /\ restored' = FALSE
  /\ Goto(p, "release")
  /\ UNCHANGED <<owner, stopFile, alive, operators, raised>>

(* The finally block: save the final status ...                            *)
Finish(p) ==
  /\ At(p, "finish")
  /\ state' = [Mine(p) EXCEPT !.status = status[p]]
  /\ cycles' = [cycles EXCEPT ![p] = 0]
  /\ status' = [status EXCEPT ![p] = "NONE"]
  /\ late' = [late EXCEPT ![p] = 0] /\ restored' = FALSE
  /\ Goto(p, "release")
  /\ UNCHANGED <<owner, stopFile, alive, operators, raised>>

(* ... and release_ownership: read the owner file, refuse to remove        *)
(* another's, unlink.                                                      *)
ReleaseRead(p) ==
  /\ At(p, "release")
  /\ Goto(p, IF Named = p THEN "unlink" ELSE "idle")
  /\ UNCHANGED <<owner, state, stopFile, alive, cycles, status,
                 operators, history>>

Unlink(p) ==
  /\ At(p, "unlink")
  /\ owner' = Absent
  /\ Goto(p, "idle")
  /\ UNCHANGED <<state, stopFile, alive, cycles, status, operators,
                 history>>

-----------------------------------------------------------------------------
(* request_stop and clear_stop: the file first, then state.json read and   *)
(* written back with the flag.                                             *)

SetStopFile(o, present) ==
  /\ opc[o] = "idle"
  /\ stopFile' = present
  /\ omem' = [omem EXCEPT ![o].stop = present]
  /\ opc' = [opc EXCEPT ![o] = "load"]
  /\ late' = IF present THEN late ELSE [p \in Pids |-> 0]
  /\ UNCHANGED <<owner, state, alive, local, raised, restored>>

StopLoad(o) ==
  /\ opc[o] = "load"
  /\ omem' = [omem EXCEPT ![o] = [state EXCEPT !.stop = omem[o].stop]]
  /\ opc' = [opc EXCEPT ![o] = IF state.status = "NONE" THEN "idle" ELSE "save"]
  /\ UNCHANGED <<owner, state, stopFile, alive, local, history>>

StopSave(o) ==
  /\ opc[o] = "save"
  /\ state' = omem[o]
  /\ restored' = \/ restored
                 \/ <<state.status, state.owner>> # <<omem[o].status, omem[o].owner>>
  /\ opc' = [opc EXCEPT ![o] = "idle"]
  /\ omem' = [omem EXCEPT ![o] = NoState]
  /\ UNCHANGED <<owner, stopFile, alive, local, late, raised>>

Die(p) ==
  /\ p \in alive /\ pc[p] # "idle"
  /\ alive' = alive \ {p}
  /\ UNCHANGED <<owner, state, stopFile, local, operators, history>>

Step(p) ==
  \/ ClaimCreate(p) \/ ClaimFill(p) \/ ClaimReread(p) \/ ClaimOverwrite(p)
  \/ Recover(p) \/ BeginSession(p) \/ CheckStop(p) \/ Cycle(p)
  \/ Finish(p) \/ ReleaseRead(p) \/ Unlink(p)

Operate(o) ==
  \/ \E present \in BOOLEAN : SetStopFile(o, present)
  \/ StopLoad(o) \/ StopSave(o)

Next ==
  \/ \E p \in Pids : ClaimRead(p) \/ Step(p) \/ Die(p)
  \/ \E o \in Operators : Operate(o)

Spec == Init /\ [][Next]_vars

(* A process that lives keeps running, and somebody keeps starting one.    *)
FairSpec ==
  Spec /\ \A p \in Pids : WF_vars(Step(p)) /\ SF_vars(ClaimRead(p))
-----------------------------------------------------------------------------
(* Every variable has its type. *)
TypeOK ==
  /\ owner \in OwnerFile /\ state \in StateDoc /\ stopFile \in BOOLEAN
  /\ alive \subseteq Pids
  /\ pc \in [Pids -> {"idle"} \cup Claiming \cup Sessions]
  /\ status \in [Pids -> Statuses]
  /\ cycles \in [Pids -> 0..MaxCycles]

(* A process runs as the owner once its claim succeeded, until the owner   *)
(* file is removed.                                                        *)
Running(p) == pc[p] \in Sessions
Owning == {p \in alive : Running(p)}

(* One live owner ("a second live owner fails closed").                    *)
SingleOwner == Cardinality(Owning) <= 1

(* detect_crash: RUNNING, and no live owner.                               *)
CrashDetected == state.status = "RUNNING" /\ Named \notin alive

(* A crash is detected only where the process that saved RUNNING died or   *)
(* ended in an exception, or where a stop request, which reads state.json  *)
(* and writes it back, undid what was saved last.                          *)
NoFalseCrash ==
  CrashDetected =>
    state.owner \notin alive \/ state.owner \in raised \/ restored

(* A session begins at most one cycle after a stop is requested.           *)
StopsInTime == \A p \in Pids : late[p] <= 1

(* The owner file names no live process but one that runs: who ended, or   *)
(* was refused, locks nobody out.                                          *)
NamedRuns == Named \in alive => Running(Named)

(* What a crash leaves, or a stop request that put RUNNING back, is        *)
(* recovered from: the next process that starts is not locked out by the   *)
(* owner file and puts a state of its own in the place of the one it found.*)
CrashRecovered == CrashDetected ~> ~CrashDetected \/ alive = {}
=============================================================================
