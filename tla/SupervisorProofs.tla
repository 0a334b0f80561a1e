-------------------------- MODULE SupervisorProofs --------------------------
(***************************************************************************)
(* Proofs about PlatformSupervisor: for any number of processes and        *)
(* operators, wherever processes die, supervisors that are not started     *)
(* while another one claims have one live owner.  The owner file is the    *)
(* reason: it names whoever runs a session, and nobody enters the claim    *)
(* while it names a process that lives.                                    *)
(***************************************************************************)
EXTENDS PlatformSupervisor, FiniteSetTheorems, TLAPS

(* Who lives and runs a session is named by the owner file; who lives and  *)
(* has created the file still finds it empty.                              *)
NamedInFile ==
  \A p \in alive : /\ Running(p) => owner = OwnedBy(p)
                   /\ pc[p] = "fill" => owner = EmptyBy(p)

(* At most one live process is past the entry of the claim.                *)
OneBusy == \A p, q \in alive : pc[p] # "idle" /\ pc[q] # "idle" => p = q

(* The types of the variables the invariant speaks of.                     *)
IType ==
  /\ alive \subseteq Pids
  /\ owner \in OwnerFile
  /\ pc \in [Pids -> {"idle"} \cup Claiming \cup Sessions]

IInv == IType /\ NamedInFile /\ OneBusy /\ NamedRuns

(* Nobody is busy at first, and there is no owner file.                    *)
LEMMA InitHolds == Init => IInv
<1> SUFFICES ASSUME Init PROVE IInv
  OBVIOUS
<1>1. IType
  BY DEF Init, IType, OwnerFile, Absent
<1>2. \A p \in alive : pc[p] = "idle"
  BY DEF Init
<1>3. NamedInFile /\ OneBusy
  BY <1>2 DEF NamedInFile, OneBusy, Running, Sessions
<1>4. NamedRuns
  BY SupervisorConstants DEF NamedRuns, Init, Named, Absent
<1> QED BY <1>1, <1>3, <1>4 DEF IInv

(* A claim is entered while nobody lives in one or runs a session.         *)
LEMMA ClaimReadKeeps ==
  ASSUME ~Overlapping, IInv, NEW p \in Pids, ClaimRead(p) PROVE IInv'
<1> USE DEF IInv
<1>0. owner' = owner /\ alive' = alive /\ p \in alive /\ pc[p] = "idle"
  BY DEF ClaimRead, At
<1>1. \A q \in alive : pc[q] = "idle"
  <2> SUFFICES ASSUME NEW q \in alive, pc[q] # "idle" PROVE FALSE
    OBVIOUS
  <2>1. Running(q)
    BY <1>0 DEF ClaimRead, IType, Running
  <2>2. Named = q
    BY <2>1 DEF NamedInFile, Named, OwnedBy
  <2> QED BY <2>2, <1>0 DEF ClaimRead
<1>2. pc' = [pc EXCEPT ![p] = pc'[p]] /\ pc'[p] \in {"create", "takeover"}
  BY <1>0 DEF ClaimRead, Goto, IType
<1>3. IType'
  BY <1>0, <1>2 DEF IType, Claiming
<1>4. NamedInFile'
  BY <1>0, <1>1, <1>2 DEF NamedInFile, Running, Sessions, IType
<1>5. OneBusy'
  BY <1>0, <1>1, <1>2 DEF OneBusy, IType
<1>6. NamedRuns'
  <2>1. Named \notin alive
    BY <1>1 DEF NamedRuns, Running, Sessions
  <2> QED BY <2>1, <1>0 DEF NamedRuns, Named
<1> QED BY <1>3, <1>4, <1>5, <1>6

(* A step is one of the one busy process: the file follows it into the     *)
(* session and names nobody when it leaves.                                *)
LEMMA StepKeeps ==
  ASSUME IInv, NEW p \in Pids, Step(p) PROVE IInv'
<1> USE DEF IInv
<1>0. alive' = alive /\ p \in alive /\ pc[p] # "idle"
  BY DEF Step, At, ClaimCreate, ClaimFill, ClaimReread, ClaimOverwrite,
         Recover, BeginSession, CheckStop, Cycle, Finish, ReleaseRead, Unlink
<1>1. \A q \in alive : q # p => pc[q] = "idle"
  BY <1>0 DEF OneBusy
<1>2. pc' = [pc EXCEPT ![p] = pc'[p]]
      /\ pc'[p] \in {"idle"} \cup Claiming \cup Sessions
  BY DEF Step, At, Goto, ClaimCreate, ClaimFill, ClaimReread, ClaimOverwrite,
         Recover, BeginSession, CheckStop, Cycle, Finish, ReleaseRead, Unlink,
         IType, Claiming, Sessions
<1>3. owner' \in OwnerFile
  BY DEF Step, ClaimCreate, ClaimFill, ClaimReread, ClaimOverwrite, Recover,
         BeginSession, CheckStop, Cycle, Finish, ReleaseRead, Unlink, IType,
         OwnerFile, OwnedBy, EmptyBy, Absent
<1>4. IType'
  BY <1>0, <1>2, <1>3 DEF IType
<1>5. OneBusy'
  BY <1>0, <1>1, <1>2 DEF OneBusy, IType
<1>6. /\ Running(p)' => owner' = OwnedBy(p)
      /\ pc'[p] = "fill" => owner' = EmptyBy(p)
  BY <1>0, <1>2 DEF Step, At, Goto, Running, NamedInFile, ClaimCreate, ClaimFill,
         ClaimReread, ClaimOverwrite, Recover, BeginSession, CheckStop, Cycle,
         Finish, ReleaseRead, Unlink, IType, Claiming, Sessions
<1>7. NamedInFile'
  BY <1>0, <1>1, <1>2, <1>6 DEF NamedInFile, Running, Sessions, IType
<1>8. NamedRuns'
  <2>1. Named \in alive => Named = p /\ Running(p)
    BY <1>1 DEF NamedRuns, Running, Sessions
  <2>2. CASE Running(p)'
    BY <2>2, <1>6 DEF NamedRuns, Named, OwnedBy
  <2>3. CASE ~Running(p)'
    <3>1. \/ owner' = owner /\ Named # p
          \/ owner' \in {EmptyBy(p), Absent}
      BY <2>3, <2>1, <1>0, <1>2
      DEF Step, At, Goto, Running, ClaimCreate, ClaimFill, ClaimReread,
          ClaimOverwrite, Recover, BeginSession, CheckStop, Cycle, Finish,
          ReleaseRead, Unlink, IType, Claiming, Sessions
    <3>2. Named' \notin alive'
      BY <3>1, <2>1, <1>0, SupervisorConstants
      DEF Named, EmptyBy, Absent, IType
    <3> QED BY <3>2 DEF NamedRuns
  <2> QED BY <2>2, <2>3
<1> QED BY <1>4, <1>5, <1>7, <1>8

(* A death takes a process out of what the invariant speaks of.            *)
LEMMA DieKeeps ==
  ASSUME IInv, NEW p \in Pids, Die(p) PROVE IInv'
<1>1. alive' \subseteq alive /\ owner' = owner /\ pc' = pc
  BY DEF Die, local
<1> QED BY <1>1 DEF IInv, IType, NamedInFile, OneBusy, NamedRuns, Named, Running

(* Operators touch the stop file and state.json only.                      *)
LEMMA OperateKeeps ==
  ASSUME IInv, NEW o \in Operators, Operate(o) PROVE IInv'
<1>1. alive' = alive /\ owner' = owner /\ pc' = pc
  BY DEF Operate, SetStopFile, StopLoad, StopSave, local
<1> QED BY <1>1 DEF IInv, IType, NamedInFile, OneBusy, NamedRuns, Named, Running

THEOREM Inductive ==
  ASSUME ~Overlapping PROVE Spec => []IInv
<1>1. Init => IInv
  BY InitHolds
<1>2. IInv /\ [Next]_vars => IInv'
  <2> SUFFICES ASSUME IInv, [Next]_vars PROVE IInv'
    OBVIOUS
  <2>1. CASE \E p \in Pids : ClaimRead(p)
    BY <2>1, ClaimReadKeeps
  <2>2. CASE \E p \in Pids : Step(p)
    BY <2>2, StepKeeps
  <2>3. CASE \E p \in Pids : Die(p)
    BY <2>3, DieKeeps
  <2>4. CASE \E o \in Operators : Operate(o)
    BY <2>4, OperateKeeps
  <2>5. CASE UNCHANGED vars
    BY <2>5 DEF vars, local, IInv, IType, NamedInFile, OneBusy, NamedRuns,
                Named, Running
  <2> QED BY <2>1, <2>2, <2>3, <2>4, <2>5 DEF Next
<1> QED BY <1>1, <1>2, PTL DEF Spec

(* "a second live owner fails closed" (platform/supervisor.py): supervisors *)
(* that are not started while another one claims have one live owner.      *)
THEOREM OneLiveOwner ==
  ASSUME ~Overlapping PROVE Spec => []SingleOwner
<1>1. IInv => SingleOwner
  <2> SUFFICES ASSUME IInv PROVE Cardinality(Owning) <= 1
    BY DEF SingleOwner
  <2>1. CASE Owning = {}
    BY <2>1, FS_EmptySet
  <2>2. CASE Owning # {}
    <3> PICK p \in Owning : TRUE
      BY <2>2
    <3>1. Owning = {p}
      BY DEF Owning, Running, Sessions, IInv, OneBusy
    <3> QED BY <3>1, FS_Singleton
  <2> QED BY <2>1, <2>2
<1> QED BY <1>1, Inductive, PTL

(* The owner file never names a process that lives and has no session, so  *)
(* that no supervisor is locked out by one that ended.                     *)
THEOREM OwnerFileNamesSessions ==
  ASSUME ~Overlapping PROVE Spec => []NamedRuns
<1>1. IInv => NamedRuns
  BY DEF IInv
<1> QED BY <1>1, Inductive, PTL

-----------------------------------------------------------------------------
(* What holds however supervisors overlap. *)

(* TypeOK, with what it takes to preserve it: an operator holds a state, a *)
(* cycle is begun while there are some left.                               *)
Typed ==
  /\ TypeOK
  /\ opc \in [Operators -> {"idle", "load", "save"}]
  /\ omem \in [Operators -> StateDoc]
  /\ \A p \in Pids : pc[p] = "cycle" => cycles[p] < MaxCycles

LEMMA StateTypes ==
  /\ NoState \in StateDoc
  /\ \A p \in Pids, s \in Statuses :
       Mine(p) \in StateDoc /\ [Mine(p) EXCEPT !.status = s] \in StateDoc
  /\ \A s \in StateDoc, flag \in BOOLEAN :
       /\ [s EXCEPT !.stop = flag] \in StateDoc
       /\ [s EXCEPT !.status = "CRASHED"] \in StateDoc
BY DEF NoState, Mine, StateDoc, Statuses

(* Where a step of a supervisor leads. *)
LEMMA StepTyped ==
  ASSUME Typed, NEW p \in Pids, ClaimRead(p) \/ Step(p) PROVE Typed'
<1> USE DEF Typed, TypeOK
<1>1. UNCHANGED <<stopFile, alive, opc, omem>>
  BY DEF ClaimRead, Step, ClaimCreate, ClaimFill, ClaimReread, ClaimOverwrite,
     Recover, BeginSession, CheckStop, Cycle, Finish, ReleaseRead, Unlink,
     operators
<1>2. owner' \in OwnerFile
  BY DEF ClaimRead, Step, ClaimCreate, ClaimFill, ClaimReread, ClaimOverwrite,
     Recover, BeginSession, CheckStop, Cycle, Finish, ReleaseRead, Unlink,
     OwnerFile, Absent, EmptyBy, OwnedBy
<1>3. /\ pc' = [pc EXCEPT ![p] = pc'[p]]
      /\ pc'[p] \in {"idle"} \cup Claiming \cup Sessions
  BY DEF ClaimRead, Step, ClaimCreate, ClaimFill, ClaimReread, ClaimOverwrite,
     Recover, BeginSession, CheckStop, Cycle, Finish, ReleaseRead, Unlink, Goto,
     At, Claiming, Sessions
<1>4. state' \in StateDoc
  <2>1. \/ state' \in {state, Mine(p), [state EXCEPT !.status = "CRASHED"]}
        \/ state' = [Mine(p) EXCEPT !.status = status[p]]
    BY DEF ClaimRead, Step, ClaimCreate, ClaimFill, ClaimReread, ClaimOverwrite,
       Recover, BeginSession, CheckStop, Cycle, Finish, ReleaseRead, Unlink
  <2>2. state \in StateDoc /\ status[p] \in Statuses
    OBVIOUS
  <2>3. [state EXCEPT !.status = "CRASHED"] \in StateDoc
    BY <2>2, StateTypes
  <2>4. /\ Mine(p) \in StateDoc
        /\ [Mine(p) EXCEPT !.status = status[p]] \in StateDoc
    BY <2>2, StateTypes
  <2> QED BY <2>1, <2>2, <2>3, <2>4
<1>5. status' \in [Pids -> Statuses]
  BY DEF ClaimRead, Step, ClaimCreate, ClaimFill, ClaimReread, ClaimOverwrite,
     Recover, BeginSession, CheckStop, Cycle, Finish, ReleaseRead, Unlink,
     Statuses
<1>6. /\ cycles' \in [Pids -> 0..MaxCycles]
      /\ \A q \in Pids : pc'[q] = "cycle" => cycles'[q] < MaxCycles
  <2>1. CASE Cycle(p)
    <3>1. /\ cycles' = [cycles EXCEPT ![p] = @ + 1] /\ cycles[p] < MaxCycles
          /\ pc'[p] \in {"check", "finish"}
      BY <2>1 DEF Cycle, At, Goto
    <3> QED BY <1>3, <3>1, SupervisorConstants
  <2>2. CASE Finish(p)
    <3>1. cycles' = [cycles EXCEPT ![p] = 0] /\ pc'[p] = "release"
      BY <2>2 DEF Finish, At, Goto
    <3> QED BY <1>3, <3>1, SupervisorConstants
  <2>3. CASE CheckStop(p)
    <3>1. cycles' = cycles /\ (pc'[p] = "cycle" => cycles[p] # MaxCycles)
      BY <2>3 DEF CheckStop, At, Goto
    <3> QED BY <1>3, <3>1, SupervisorConstants
  <2>4. CASE ~Cycle(p) /\ ~Finish(p) /\ ~CheckStop(p)
    <3>1. cycles' = cycles /\ pc'[p] # "cycle"
      BY <2>4 DEF ClaimRead, Step, ClaimCreate, ClaimFill, ClaimReread,
         ClaimOverwrite, Recover, BeginSession, ReleaseRead, Unlink, Goto, At
    <3> QED BY <1>3, <3>1
  <2> QED BY <2>1, <2>2, <2>3, <2>4
<1> QED BY <1>1, <1>2, <1>3, <1>4, <1>5, <1>6

LEMMA TypedHolds == Spec => []Typed
<1>1. Init => Typed
  <2> SUFFICES ASSUME Init PROVE Typed
    OBVIOUS
  <2>1. owner \in OwnerFile /\ state \in StateDoc
    BY StateTypes DEF Init, OwnerFile, Absent
  <2>2. /\ pc \in [Pids -> {"idle"} \cup Claiming \cup Sessions]
        /\ \A p \in Pids : pc[p] # "cycle"
    BY DEF Init
  <2>3. cycles \in [Pids -> 0..MaxCycles] /\ status \in [Pids -> Statuses]
    BY SupervisorConstants DEF Init, Statuses
  <2>4. /\ opc \in [Operators -> {"idle", "load", "save"}]
        /\ omem \in [Operators -> StateDoc]
    BY StateTypes DEF Init
  <2> QED BY <2>1, <2>2, <2>3, <2>4 DEF Init, Typed, TypeOK
<1>2. Typed /\ [Next]_vars => Typed'
  <2> SUFFICES ASSUME Typed, [Next]_vars PROVE Typed'
    OBVIOUS
  <2>1. ASSUME NEW p \in Pids, Die(p) PROVE Typed'
    BY <2>1 DEF Die, local, operators, Typed, TypeOK
  <2>2. ASSUME NEW o \in Operators, Operate(o) PROVE Typed'
    <3>1. UNCHANGED <<owner, alive, pc, cycles, status>>
      BY <2>2 DEF Operate, SetStopFile, StopLoad, StopSave, local
    <3>2. state' \in StateDoc /\ stopFile' \in BOOLEAN
      BY <2>2 DEF Operate, SetStopFile, StopLoad, StopSave, Typed, TypeOK
    <3>3. opc' \in [Operators -> {"idle", "load", "save"}]
      BY <2>2 DEF Operate, SetStopFile, StopLoad, StopSave, Typed
    <3>4. omem' \in [Operators -> StateDoc]
      <4>1. \E s \in StateDoc : omem' = [omem EXCEPT ![o] = s]
        <5>1. omem[o].stop \in BOOLEAN
          BY DEF Typed, StateDoc
        <5>2. CASE \E present \in BOOLEAN : SetStopFile(o, present)
          <6>1. PICK present \in BOOLEAN : SetStopFile(o, present)
            BY <5>2
          <6>2. omem' = [omem EXCEPT ![o] = [omem[o] EXCEPT !.stop = present]]
            BY <6>1 DEF SetStopFile, Typed
          <6> QED BY <6>2, StateTypes DEF Typed
        <5>3. CASE StopLoad(o)
          BY <5>1, <5>3, StateTypes DEF StopLoad, Typed, TypeOK
        <5>4. CASE StopSave(o)
          BY <5>4, StateTypes DEF StopSave
        <5> QED BY <2>2, <5>2, <5>3, <5>4 DEF Operate
      <4> QED BY <4>1 DEF Typed
    <3> QED BY <3>1, <3>2, <3>3, <3>4 DEF Typed, TypeOK
  <2>3. CASE UNCHANGED vars
    BY <2>3 DEF vars, local, operators, Typed, TypeOK
  <2> QED BY <2>1, <2>2, <2>3, StepTyped DEF Next
<1> QED BY <1>1, <1>2, PTL DEF Spec

(* Every variable keeps its type, and a session its bound on cycles.       *)
THEOREM TypeCorrect == Spec => []TypeOK
<1>1. Typed => TypeOK
  BY DEF Typed
<1> QED BY <1>1, TypedHolds, PTL

(* Only a session that has a cycle behind it begun after the request is    *)
(* late, and it is about to find the stop file.                            *)
LateInv ==
  /\ late \in [Pids -> 0..1]
  /\ \A p \in Pids : late[p] = 1 => stopFile /\ pc[p] \in {"check", "finish"}

(* A stop request bounds the session that runs to one more cycle, however  *)
(* supervisors and operators overlap (run_supervisor).                     *)
THEOREM StopsWithinACycle == Spec => []StopsInTime
<1>1. TypeOK /\ LateInv /\ [Next]_vars => LateInv'
  <2> SUFFICES ASSUME TypeOK, LateInv, [Next]_vars PROVE LateInv'
    OBVIOUS
  <2> USE DEF TypeOK, LateInv
  <2>1. ASSUME NEW p \in Pids, ClaimRead(p) \/ Step(p) PROVE LateInv'
    <3>1. stopFile' = stopFile /\ \A q \in Pids : q # p => pc'[q] = pc[q]
      BY <2>1 DEF ClaimRead, Step, ClaimCreate, ClaimFill, ClaimReread,
         ClaimOverwrite, Recover, BeginSession, CheckStop, Cycle, Finish,
         ReleaseRead, Unlink, Goto
    <3>2. CASE Cycle(p)
      <4>1. late[p] = 0 /\ pc'[p] \in {"check", "finish"}
        BY <3>2 DEF Cycle, At, Goto
      <4> QED BY <3>1, <3>2, <4>1 DEF Cycle
    <3>3. CASE Finish(p)
      BY <3>1, <3>3 DEF Finish
    <3>4. CASE CheckStop(p)
      <4>1. late' = late /\ (stopFile => pc'[p] = "finish")
        BY <3>4 DEF CheckStop, At, Goto, history
      <4> QED BY <3>1, <4>1
    <3>5. CASE ~Cycle(p) /\ ~Finish(p) /\ ~CheckStop(p)
      <4>1. late' = late /\ pc[p] \notin {"check", "finish"}
        BY <2>1, <3>5 DEF ClaimRead, Step, ClaimCreate, ClaimFill, ClaimReread,
           ClaimOverwrite, Recover, BeginSession, ReleaseRead, Unlink, At, history
      <4> QED BY <3>1, <4>1
    <3> QED BY <3>2, <3>3, <3>4, <3>5
  <2>2. ASSUME NEW p \in Pids, Die(p) PROVE LateInv'
    BY <2>2 DEF Die, local, history
  <2>3. ASSUME NEW o \in Operators, Operate(o) PROVE LateInv'
    <3>1. pc' = pc /\ (UNCHANGED <<late, stopFile>> \/ late' = [p \in Pids |-> 0])
      <4>1. CASE \E present \in BOOLEAN : SetStopFile(o, present)
        BY <4>1 DEF SetStopFile, local
      <4>2. CASE StopLoad(o)
        BY <4>2 DEF StopLoad, local, history
      <4>3. CASE StopSave(o)
        BY <4>3 DEF StopSave, local
      <4> QED BY <2>3, <4>1, <4>2, <4>3 DEF Operate
    <3> QED BY <3>1
  <2>4. CASE UNCHANGED vars
    BY <2>4 DEF vars, local, history
  <2> QED BY <2>1, <2>2, <2>3, <2>4 DEF Next
<1>2. LateInv => StopsInTime
  BY DEF LateInv, StopsInTime
<1>3. Init => LateInv
  BY DEF Init, LateInv
<1> QED BY <1>1, <1>2, <1>3, TypeCorrect, PTL DEF Spec

-----------------------------------------------------------------------------
(* Crashes that are none. *)

(* RUNNING, unless a stop request put it back, stands for a session of the *)
(* process that saved it which has not saved its last state; that state    *)
(* will not be RUNNING unless the session ends in an exception.            *)
Honest ==
  \A p \in Pids :
    /\ state.status = "RUNNING" /\ ~restored /\ state.owner = p
         /\ p \in alive /\ p \notin raised
         => pc[p] \in {"check", "cycle", "finish"}
    /\ pc[p] = "finish" /\ p \notin raised => status[p] # "RUNNING"

(* A session that saves a state, or leaves the state it finds.             *)
LEMMA SessionHonest ==
  ASSUME Honest, NEW p \in Pids, alive' = alive,
         \A q \in Pids : q # p =>
            pc'[q] = pc[q] /\ status'[q] = status[q] /\ (q \in raised' <=> q \in raised),
         \/ state'.status = "RUNNING" => state' = state /\ restored' = restored
         \/ state'.owner = p,
         state'.status = "RUNNING" /\ ~restored' /\ state'.owner = p
           /\ p \in alive /\ p \notin raised'
           => pc'[p] \in {"check", "cycle", "finish"},
         pc'[p] = "finish" /\ p \notin raised' => status'[p] # "RUNNING"
  PROVE  Honest'
BY DEF Honest

LEMMA HonestKept == ASSUME Typed, Honest, [Next]_vars PROVE Honest'
<1> USE DEF Typed, TypeOK
<1>1. ASSUME NEW p \in Pids, ClaimRead(p) \/ Step(p) PROVE Honest'
  <2>1. /\ alive' = alive
        /\ \A q \in Pids : q # p => pc'[q] = pc[q] /\ status'[q] = status[q]
    BY <1>1 DEF ClaimRead, Step, ClaimCreate, ClaimFill, ClaimReread,
       ClaimOverwrite, Recover, BeginSession, CheckStop, Cycle, Finish,
       ReleaseRead, Unlink, Goto
  <2>2. CASE Cycle(p)
    <3>1. PICK outcome \in Outcomes :
            /\ status' = [status EXCEPT ![p] =
                 CASE outcome = "complete" -> "COMPLETE"
                   [] outcome = "error"    -> "ERROR"
                   [] OTHER                -> @]
            /\ raised' = IF outcome = "raise" THEN raised \cup {p} ELSE raised
            /\ IF outcome \in {"ok", "complete"}
                 THEN state' = Mine(p) /\ restored' = FALSE
                 ELSE UNCHANGED <<state, restored>>
            /\ Goto(p, IF outcome = "ok" THEN "check" ELSE "finish")
      BY <2>2 DEF Cycle
    <3>2. pc'[p] \in {"check", "finish"}
      BY <3>1 DEF Goto
    <3>3. p \notin raised' /\ pc'[p] = "finish" => status'[p] # "RUNNING"
      BY <3>1, SupervisorConstants DEF Goto
    <3>4. \A q \in Pids : q # p => (q \in raised' <=> q \in raised)
      BY <3>1
    <3>5. (state' = state /\ restored' = restored) \/ state'.owner = p
      BY <3>1 DEF Mine
    <3> QED BY <2>1, <3>2, <3>3, <3>4, <3>5, SessionHonest
  <2>3. CASE Finish(p)
    <3>1. /\ pc[p] = "finish" /\ pc'[p] = "release" /\ raised' = raised
          /\ state'.status = status[p] /\ state'.owner = p
      BY <2>3 DEF Finish, At, Goto, Mine
    <3>2. p \notin raised => status[p] # "RUNNING"
      BY <3>1 DEF Honest
    <3> QED BY <2>1, <3>1, <3>2, SessionHonest
  <2>4. CASE CheckStop(p)
    <3>1. /\ pc[p] = "check" /\ UNCHANGED <<state, raised, restored>>
          /\ \/ pc'[p] = "finish" /\ status'[p] = "STOPPED"
             \/ pc'[p] = "cycle"
      BY <2>4 DEF CheckStop, At, Goto, history
    <3> QED BY <2>1, <3>1, SessionHonest
  <2>5. CASE BeginSession(p)
    <3>1. /\ pc'[p] = "check" /\ state'.owner = p
          /\ \A q \in Pids : q # p => (q \in raised' <=> q \in raised)
      BY <2>5 DEF BeginSession, At, Goto, Mine
    <3> QED BY <2>1, <3>1, SessionHonest
  <2>6. CASE ~Cycle(p) /\ ~Finish(p) /\ ~CheckStop(p) /\ ~BeginSession(p)
    <3>1. pc[p] \notin {"check", "cycle", "finish"} /\ pc'[p] # "finish"
      BY <1>1, <2>6 DEF ClaimRead, Step, ClaimCreate, ClaimFill, ClaimReread,
         ClaimOverwrite, Recover, ReleaseRead, Unlink, At, Goto
    <3>2. /\ UNCHANGED <<raised, restored>>
          /\ state'.status = "RUNNING" => state' = state
      BY <1>1, <2>6 DEF ClaimRead, Step, ClaimCreate, ClaimFill, ClaimReread,
         ClaimOverwrite, Recover, ReleaseRead, Unlink, history, StateDoc
    <3> QED BY <2>1, <3>1, <3>2 DEF Honest
  <2> QED BY <2>2, <2>3, <2>4, <2>5, <2>6
<1>2. ASSUME NEW p \in Pids, Die(p) PROVE Honest'
  BY <1>2 DEF Die, Honest, local, history
<1>3. ASSUME NEW o \in Operators, Operate(o) PROVE Honest'
  <2>1. UNCHANGED <<alive, pc, status, raised>>
    BY <1>3 DEF Operate, SetStopFile, StopLoad, StopSave, local, history
  <2>2. CASE StopSave(o)
    <3>1. ~restored' => /\ ~restored /\ state'.status = state.status
                        /\ state'.owner = state.owner
      BY <2>2 DEF StopSave
    <3> QED BY <2>1, <3>1 DEF Honest
  <2>3. CASE ~StopSave(o)
    <3>1. restored' = restored /\ state' = state
      BY <1>3, <2>3 DEF Operate, SetStopFile, StopLoad, history
    <3> QED BY <2>1, <3>1 DEF Honest
  <2> QED BY <2>2, <2>3
<1>4. CASE UNCHANGED vars
  BY <1>4 DEF vars, local, history, Honest
<1> QED BY <1>1, <1>2, <1>3, <1>4 DEF Next

(* detect_crash cries wolf only where the process that saved RUNNING died, *)
(* where its session ended in what run_supervisor does not catch, or where *)
(* a stop request undid what was saved last.                               *)
THEOREM CrashesAreReal ==
  ASSUME ~Overlapping PROVE Spec => []NoFalseCrash
<1>1. IInv /\ Typed /\ Honest => NoFalseCrash
  <2> SUFFICES ASSUME IInv, Typed, Honest, CrashDetected, state.owner \in alive,
                      state.owner \notin raised, ~restored
               PROVE  FALSE
    BY DEF NoFalseCrash
  <2>1. state.owner \in Pids /\ pc[state.owner] \in {"check", "cycle", "finish"}
    BY DEF CrashDetected, Honest, Typed, TypeOK
  <2>2. Named = state.owner
    BY <2>1 DEF IInv, NamedInFile, Running, Sessions, Named, OwnedBy
  <2> QED BY <2>2 DEF CrashDetected
<1>2. Init => Honest
  BY DEF Init, Honest, NoState
<1> QED BY <1>1, <1>2, HonestKept, TypedHolds, Inductive, PTL DEF Spec
=============================================================================
