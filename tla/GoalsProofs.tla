----------------------------- MODULE GoalsProofs -----------------------------
(***************************************************************************)
(* Proofs about Goals: whatever the graph, the policy and the number of    *)
(* commands that die.  What the command at work keeps in memory is tied to *)
(* the documents by where it is: whether it has a decision under way, and  *)
(* which missions it is about to begin.                                    *)
(***************************************************************************)
EXTENDS Goals, Counting

Places == {"idle", "check", "continue", "plan", "dispatch", "judge", "session", "lost"}

Memory ==
  [command : Commands, cycle : Nat, todo : SUBSET Nodes, continued : BOOLEAN,
   admitted : BOOLEAN, dispatched : BOOLEAN, decision : Inputs \cup {None},
   records : SUBSET Nodes, counters : [Nodes -> Nat], on : Nodes \cup {None},
   back : {"idle", "continue", "dispatch"}, done : Nat, flight : BOOLEAN]

StateDoc ==
  [records : SUBSET Nodes, counters : [Nodes -> Nat], active : SUBSET Nodes,
   last : Inputs \cup {None}]

Typed ==
  /\ life \in [Nodes -> Lives]
  /\ subruns \in [Nodes -> Nat]
  /\ sched \in StateDoc
  /\ loose \subseteq Inputs /\ IsFiniteSet(loose)
  /\ stop \in BOOLEAN
  /\ pc \in Places
  /\ mem \in Memory
  /\ pc \in {"session", "lost"} => mem.on \in Nodes
  /\ crashes \in Nat
  /\ attempts \in [Nodes -> Nat]

------------------------------------------------------------------------------
LEMMA BlankTyped == Blank \in Memory
BY DEF Blank, Memory, Commands

LEMMA BegunTyped ==
  ASSUME NEW command \in Commands, NEW c \in Nat
  PROVE  [Blank EXCEPT !.command = command, !.cycle = c] \in Memory
BY DEF Blank, Memory, Commands

LEMMA EnteredTyped ==
  ASSUME NEW keep \in Memory, NEW n \in Nodes, NEW from \in {"continue", "dispatch"}
  PROVE  /\ [keep EXCEPT !.on = n, !.back = from, !.todo = @ \ {n}] \in Memory
         /\ [keep EXCEPT !.on = n, !.back = from, !.todo = @ \ {n}].on = n
BY DEF Memory

LEMMA PlannedTyped ==
  ASSUME NEW m \in Memory, NEW T \in SUBSET Nodes, NEW b \in BOOLEAN,
         NEW d \in Inputs, NEW R \in SUBSET Nodes, NEW c \in [Nodes -> Nat]
  PROVE  [m EXCEPT !.todo = T, !.admitted = b, !.dispatched = FALSE,
                   !.decision = d, !.records = R, !.counters = c] \in Memory
<1>1. d \in Inputs \cup {None}
  OBVIOUS
<1> HIDE DEF Inputs
<1> QED BY <1>1 DEF Memory

(* Whatever a mission does, it goes from a life to a life. *)
LEMMA LivesOn ==
  ASSUME NEW l \in Lives
  PROVE  Successors(l) \subseteq Lives
<1>1. Launched(l) \subseteq Lives /\ Recorded(l) \subseteq Lives
  BY DEF Launched, Recorded, Lives, Stages, Stays
<1>2. Stopped(l) \subseteq Lives
  BY DEF Stopped, Lives, Stages
<1> QED BY <1>1, <1>2 DEF Successors

LEMMA DecisionTyped == Typed => Decision \in Inputs
BY DEF Typed, Decision, Inputs, StateDoc

LEMMA InitTyped == Init => Typed
<1> SUFFICES ASSUME Init PROVE Typed
  OBVIOUS
<1>1. life \in [Nodes -> Lives]
  BY DEF Init, Lives, Stages, Unborn
<1>2. sched \in StateDoc
  BY DEF Init, NoState, StateDoc
<1>3. IsFiniteSet(loose)
  BY FS_EmptySet DEF Init
<1>4. mem \in Memory
  BY BlankTyped DEF Init
<1> QED BY <1>1, <1>2, <1>3, <1>4 DEF Init, Typed, Places

(* A step that only reads moves the command and what it keeps. *)
LEMMA MovesTyped ==
  ASSUME Typed, UNCHANGED <<documents, crashes>>, stop' \in BOOLEAN,
         attempts' \in [Nodes -> Nat], pc' \in Places, mem' \in Memory,
         pc' \in {"session", "lost"} => mem'.on \in Nodes
  PROVE  Typed'
BY DEF Typed, documents

LEMMA BeginsTyped ==
  ASSUME Typed, BeginGoal \/ BeginCycle \/ BeginMission PROVE Typed'
<1> USE BlankTyped
<1>1. CASE BeginGoal
  <2>0. MaxCycles \in Nat
    BY GoalsAssumption
  <2>1. mem' \in Memory
    <3>1. PICK command \in {"run", "portfolio"} :
            \/ mem' = Blank
            \/ mem' = [Blank EXCEPT !.command = command,
                         !.cycle = IF command = "run" THEN 1 ELSE MaxCycles]
      BY <1>1 DEF BeginGoal, Goto
    <3>2. command \in Commands /\ (IF command = "run" THEN 1 ELSE MaxCycles) \in Nat
      BY <2>0 DEF Commands
    <3> QED BY <3>1, <3>2, BegunTyped
  <2> QED BY <1>1, <2>1, MovesTyped DEF BeginGoal, Goto, Typed, Places
<1>2. CASE BeginCycle
  <2>1. mem' \in Memory
    BY <1>2 DEF BeginCycle, Goto, Memory, Commands
  <2> QED BY <1>2, <2>1, MovesTyped DEF BeginCycle, Goto, Reads, Typed, Places
<1>3. CASE BeginMission
  <2>1. mem' \in Memory /\ mem'.on \in Nodes
    <3>1. PICK n \in Reserved :
            mem' = [Blank EXCEPT !.command = "mission", !.on = n]
      BY <1>3 DEF BeginMission, Goto
    <3> QED BY <3>1 DEF Memory, Commands, Reserved
  <2> QED BY <1>3, <2>1, MovesTyped DEF BeginMission, Goto, Reads, Typed, Places
<1> QED BY <1>1, <1>2, <1>3

LEMMA LoopTyped ==
  ASSUME Typed, Check \/ Continue \/ Continued \/ Judge PROVE Typed'
<1> USE BlankTyped
<1>1. CASE Check
  <2>1. mem' \in Memory
    BY <1>1 DEF Check, Goto, Typed, Memory, At
  <2> QED BY <1>1, <2>1, MovesTyped DEF Check, Goto, Reads, Typed, Places
<1>2. CASE Continue
  <2>1. mem' \in Memory /\ mem'.on \in Nodes
    <3>1. PICK n \in mem.todo : EnterSession("continue", n, mem)
      BY <1>2 DEF Continue
    <3>2. n \in Nodes /\ mem \in Memory
      BY DEF Typed, Memory
    <3> QED BY <3>1, <3>2, EnteredTyped DEF EnterSession, Goto
  <2> QED BY <1>2, <2>1, MovesTyped DEF Continue, EnterSession, Goto, Reads, Typed, Places
<1>3. CASE Continued
  <2>1. mem' \in Memory
    BY <1>3 DEF Continued, Goto, Typed
  <2> QED BY <1>3, <2>1, MovesTyped DEF Continued, Goto, Reads, Typed, Places
<1>4. CASE Judge
  <2>1. mem' \in Memory
    <3>1. PICK c \in {1, mem.cycle + 1} :
            \/ mem' = Blank
            \/ mem' = [Blank EXCEPT !.command = mem.command, !.cycle = c]
      BY <1>4 DEF Judge, Goto
    <3>2. c \in Nat /\ mem.command \in Commands
      BY DEF Typed, Memory
    <3> QED BY <3>1, <3>2, BegunTyped
  <2> QED BY <1>4, <2>1, MovesTyped DEF Judge, Goto, Reads, Typed, Places
<1> QED BY <1>1, <1>2, <1>3, <1>4

LEMMA CycleTyped ==
  ASSUME Typed, Plan \/ Dispatch \/ SaveState PROVE Typed'
<1> USE BlankTyped
<1>1. CASE Plan
  <2>0. Decision \in Inputs
    BY DecisionTyped
  <2>1. mem' \in Memory
    <3>1. PICK S \in SUBSET Nodes :
            mem' = [mem EXCEPT !.todo = IF mem.command = "schedule" THEN {} ELSE S,
                               !.admitted = S # {}, !.dispatched = FALSE,
                               !.decision = Decision,
                               !.records = sched.records, !.counters = sched.counters]
      BY <1>1 DEF Plan, Goto
    <3>2. /\ (IF mem.command = "schedule" THEN {} ELSE S) \in SUBSET Nodes
          /\ (S # {}) \in BOOLEAN
          /\ sched.records \in SUBSET Nodes /\ sched.counters \in [Nodes -> Nat]
      BY DEF Typed, StateDoc
    <3>3. mem \in Memory
      BY DEF Typed
    <3> QED BY <2>0, <3>1, <3>2, <3>3, PlannedTyped
  <2>2. loose' \subseteq Inputs /\ IsFiniteSet(loose')
    BY <1>1, <2>0, FS_AddElement DEF Plan, Typed
  <2> QED BY <1>1, <2>1, <2>2 DEF Plan, Goto, Typed, Places
<1>2. CASE Dispatch
  <2>1. PICK n \in Nodes : Dispatch!(n)
    BY <1>2 DEF Dispatch
  <2>2. mem' \in Memory /\ (pc' = "session" => mem'.on \in Nodes)
    <3> DEFINE keep == [mem EXCEPT !.counters[n] = @ + 1]
    <3>1. keep \in Memory
      BY DEF Typed, Memory
    <3>2. [keep EXCEPT !.todo = @ \ {n}] \in Memory
      BY <3>1 DEF Memory
    <3>3. \/ EnterSession("dispatch", n, keep)
          \/ Goto("dispatch", "dispatch", [keep EXCEPT !.todo = @ \ {n}])
      BY <2>1
    <3> HIDE DEF keep
    <3> QED BY <3>1, <3>2, <3>3, EnteredTyped DEF EnterSession, Goto
  <2>3. attempts' \in [Nodes -> Nat]
    BY <2>1 DEF Typed
  <2> QED BY <2>1, <2>2, <2>3, MovesTyped DEF EnterSession, Goto, Typed, Places
<1>3. CASE SaveState
  <2>1. sched' \in StateDoc
    BY <1>3 DEF SaveState, Typed, Memory, StateDoc, Reserved
  <2>2. loose' \subseteq Inputs /\ IsFiniteSet(loose')
    BY <1>3, FS_RemoveElement DEF SaveState, Typed
  <2>3. mem' \in Memory
    BY <1>3 DEF SaveState, Goto, Typed
  <2> QED BY <1>3, <2>1, <2>2, <2>3 DEF SaveState, Goto, Typed, Places
<1> QED BY <1>1, <1>2, <1>3

(* What a session leaves to the command that was in it. *)
LEMMA LeftIs ==
  ASSUME NEW n \in Nodes, mem \in Memory
  PROVE  LET recorded == [Left EXCEPT !.records = @ \cup {n}, !.dispatched = TRUE] IN
         \A k \in {Left, recorded} :
           /\ k \in Memory
           /\ k.on = None /\ k.back = "idle" /\ k.flight = FALSE /\ k.done = 0
           /\ k.todo = mem.todo /\ k.decision = mem.decision
           /\ k.counters = mem.counters
<1>1. Left \in Memory
  BY DEF Left, Memory
<1>2. /\ Left.on = None /\ Left.back = "idle" /\ Left.flight = FALSE /\ Left.done = 0
      /\ Left.todo = mem.todo /\ Left.decision = mem.decision
      /\ Left.counters = mem.counters
  BY DEF Left, Memory
<1> DEFINE recorded == [Left EXCEPT !.records = @ \cup {n}, !.dispatched = TRUE]
<1> HIDE DEF Left
<1>3. recorded \in Memory
  BY <1>1 DEF Memory
<1>4. /\ recorded.on = Left.on /\ recorded.back = Left.back
      /\ recorded.flight = Left.flight /\ recorded.done = Left.done
      /\ recorded.todo = Left.todo /\ recorded.decision = Left.decision
      /\ recorded.counters = Left.counters
  BY <1>1 DEF Memory
<1> HIDE DEF recorded
<1>5. \A k \in {Left, recorded} :
        /\ k \in Memory
        /\ k.on = None /\ k.back = "idle" /\ k.flight = FALSE /\ k.done = 0
        /\ k.todo = mem.todo /\ k.decision = mem.decision
        /\ k.counters = mem.counters
  BY <1>1, <1>2, <1>3, <1>4
<1> QED BY <1>5 DEF recorded

(* A session that returns or raises goes back where its mission came from. *)
LEMMA SessionLeaves ==
  ASSUME mem \in Memory, mem.on \in Nodes, Return \/ Raise
  PROVE  /\ mem' \in Memory /\ mem'.on = None
         /\ pc' \in {"idle", "continue", "dispatch"}
         /\ \/ pc' = "idle" /\ mem' = Blank
            \/ /\ pc' = mem.back /\ mem'.todo = mem.todo
               /\ mem'.decision = mem.decision /\ mem'.counters = mem.counters
         /\ mem.back = "dispatch" => pc' = "dispatch"
<1> DEFINE recorded == [Left EXCEPT !.records = @ \cup {mem.on}, !.dispatched = TRUE]
<1>1. mem.back \in {"idle", "continue", "dispatch"}
  BY DEF Memory
<1>2. \/ pc' = "idle" /\ mem' = Blank /\ mem.back # "dispatch"
      \/ pc' = mem.back /\ pc' # "idle" /\ mem' \in {Left, recorded}
  BY <1>1 DEF Return, Raise, Goto
<1>3. \A k \in {Left, recorded} :
        /\ k \in Memory /\ k.on = None /\ k.todo = mem.todo
        /\ k.decision = mem.decision /\ k.counters = mem.counters
  BY LeftIs
<1>4. Blank \in Memory /\ Blank.on = None
  BY BlankTyped DEF Blank
<1> HIDE DEF recorded
<1> QED BY <1>1, <1>2, <1>3, <1>4

LEMMA SessionTyped ==
  ASSUME Typed, BeginSubrun \/ EndSubrun \/ StopMission \/ Spin \/ Return \/ Raise
  PROVE  Typed'
<1> USE BlankTyped
<1>0. pc = "session" /\ mem.on \in Nodes /\ Mine \in Lives
  BY DEF BeginSubrun, EndSubrun, StopMission, Spin, Return, Raise, Typed, Mine
<1>a. \A l \in Successors(Mine) : l \in Lives
  BY <1>0, LivesOn
<1>1. CASE BeginSubrun
  <2>1. mem' \in Memory /\ mem'.on = mem.on
    BY <1>1 DEF BeginSubrun, SessionMoves, Typed, Memory
  <2>2. life' \in [Nodes -> Lives]
    BY <1>1, <1>a DEF BeginSubrun, SessionMoves, Typed, Successors
  <2>3. subruns' \in [Nodes -> Nat]
    BY <1>1 DEF BeginSubrun, Typed
  <2> QED BY <1>0, <1>1, <2>1, <2>2, <2>3 DEF BeginSubrun, SessionMoves, Typed
<1>2. CASE EndSubrun
  <2>1. mem' \in Memory /\ mem'.on = mem.on
    <3>1. mem' = [mem EXCEPT !.flight = FALSE, !.done = @ + 1]
      BY <1>2 DEF EndSubrun, SessionMoves
    <3>2. mem \in Memory /\ mem.done + 1 \in Nat
      BY DEF Typed, Memory
    <3> QED BY <3>1, <3>2 DEF Memory
  <2>2. life' \in [Nodes -> Lives]
    BY <1>2, <1>a DEF EndSubrun, SessionMoves, Typed, Successors
  <2> QED BY <1>0, <1>2, <2>1, <2>2 DEF EndSubrun, SessionMoves, Typed
<1>3. CASE StopMission
  <2>1. mem' = mem
    BY <1>3 DEF StopMission, SessionMoves
  <2>2. life' \in [Nodes -> Lives]
    BY <1>3, <1>a DEF StopMission, SessionMoves, Typed, Successors
  <2> QED BY <1>0, <1>3, <2>1, <2>2 DEF StopMission, SessionMoves, Typed
<1>4. CASE Spin
  <2>1. mem' = mem /\ pc' = "lost"
    BY <1>4 DEF Spin, Goto
  <2> QED BY <1>0, <1>4, <2>1, MovesTyped DEF Spin, Goto, Reads, Typed, Places
<1>5. CASE Return \/ Raise
  <2>1. mem' \in Memory /\ pc' \in {"idle", "continue", "dispatch"}
    BY <1>0, <1>5, SessionLeaves DEF Typed
  <2>2. Reads /\ UNCHANGED crashes
    BY <1>5 DEF Return, Raise, Goto
  <2> QED BY <2>1, <2>2, MovesTyped DEF Reads, Typed, Places
<1> QED BY <1>1, <1>2, <1>3, <1>4, <1>5

(* Every step keeps the types. *)
LEMMA NextTyped == Typed /\ [Next]_vars => Typed'
<1> SUFFICES ASSUME Typed, [Next]_vars PROVE Typed'
  OBVIOUS
<1>1. CASE Reconstruct
  <2>1. \A n \in Nodes : Recorded(life[n]) \subseteq Lives
    BY LivesOn DEF Typed, Successors
  <2>2. life' \in [Nodes -> Lives]
    BY <1>1, <2>1 DEF Reconstruct, Typed
  <2> QED BY <1>1, <2>2 DEF Reconstruct, Typed
<1>2. CASE RequestStop
  BY <1>2 DEF RequestStop, Typed, documents
<1>3. CASE Crash
  BY <1>3, BlankTyped, GoalsAssumption DEF Crash, Typed, documents, Places
<1>4. CASE UNCHANGED vars
  BY <1>4 DEF vars, Typed
<1> QED BY <1>1, <1>2, <1>3, <1>4, BeginsTyped, LoopTyped, CycleTyped, SessionTyped
        DEF Next, Step

(* The documents of a goal, its missions and what a command keeps of them  *)
(* stay typed.                                                             *)
THEOREM TypeCorrect == Spec => []Typed
BY InitTyped, NextTyped, PTL DEF Spec

------------------------------------------------------------------------------
(* Where a command is tells whether a decision is under way, and who it    *)
(* works on.  Without a decision it works on what has been begun.          *)
Control ==
  /\ pc \in {"idle", "check", "continue", "plan"} => mem.decision = None
  /\ pc \in {"dispatch", "judge"} => mem.decision # None
  /\ pc \in {"session", "lost"} => (mem.back = "dispatch" <=> mem.decision # None)
  /\ pc \notin {"session", "lost"} => mem.on = None

Begun ==
  mem.decision = None =>
    \A n \in Nodes : n \in mem.todo \/ n = mem.on => life[n].stage # "new"

Bound == Typed /\ Control /\ Begun

(* What a step does, but for the ones that plan, dispatch, save, or die.   *)
Kept == UNCHANGED <<life, sched, loose, attempts, crashes>>

Quiet ==
  /\ Kept
  /\ mem.decision = None \/ pc = "judge"
  /\ mem'.decision = None /\ pc' # "judge"

Proceeds ==
  /\ Kept
  /\ mem.decision # None /\ mem'.decision = mem.decision
  /\ mem'.todo = mem.todo /\ mem'.counters = mem.counters
  /\ mem'.on \in {mem.on, None} /\ pc' # "judge"

Works ==
  /\ pc = "session" /\ pc' = "session"
  /\ \E l \in Successors(life[mem.on]) : life' = [life EXCEPT ![mem.on] = l]
  /\ mem'.decision = mem.decision /\ mem'.todo = mem.todo
  /\ mem'.counters = mem.counters /\ mem'.on = mem.on /\ mem'.back = mem.back
  /\ UNCHANGED <<sched, loose, attempts, crashes>>

Ends == Kept /\ pc' = pc /\ mem' = mem

(* What is begun stays so, and what is complete. *)
LEMMA LivesForward ==
  ASSUME NEW l \in Lives, NEW k \in Successors(l)
  PROVE  /\ k.stage # "new"
         /\ l.stage # "complete"
         /\ l.stage # "new" /\ Active(k) => Active(l)
<1>1. CASE k \in Launched(l)
  BY <1>1 DEF Launched, Lives, Stages, Stays, Terminal, Active
<1>2. CASE k \in Recorded(l)
  BY <1>2 DEF Recorded, Lives, Stages, Stays, Active
<1>3. CASE k \in Stopped(l)
  <2>1. ~Terminal(l) /\ k.stage = "blocked"
    BY <1>3 DEF Stopped, Lives
  <2> QED BY <2>1 DEF Terminal, Active
<1> QED BY <1>1, <1>2, <1>3 DEF Successors

LEMMA InitBound == Init => Bound
<1> SUFFICES ASSUME Init PROVE Bound
  OBVIOUS
<1>1. Typed
  BY InitTyped
<1>2. mem.decision = None /\ mem.on = None /\ mem.todo = {} /\ pc = "idle"
  BY DEF Init, Blank
<1> QED BY <1>1, <1>2, GoalsAssumption DEF Bound, Control, Begun

(* The commands that begin, and the loop around the cycles. *)
LEMMA QuietSteps ==
  ASSUME Bound,
         BeginGoal \/ BeginCycle \/ BeginMission \/ Check \/ Continue \/ Continued \/ Judge
  PROVE  Quiet /\ Bound'
<1> USE DEF Bound
<1>0. Typed' /\ None \notin Nodes
  BY NextTyped, GoalsAssumption DEF Next, Step
<1>b. Blank.decision = None /\ Blank.on = None /\ Blank.todo = {} /\ Blank.back = "idle"
  BY DEF Blank
<1>k. Kept
  BY DEF Kept, BeginGoal, BeginCycle, BeginMission, Check, Continue, Continued, Judge,
         EnterSession, Goto, Reads, documents
<1>1. CASE BeginGoal
  <2>1. mem'.decision = None /\ mem'.on = None /\ mem'.todo = {} /\ pc' \in {"idle", "check"}
    BY <1>1, <1>b DEF BeginGoal, Goto, Blank
  <2>2. mem.decision = None
    BY <1>1 DEF BeginGoal, Goto, Control
  <2> QED BY <1>0, <1>k, <2>1, <2>2 DEF Quiet, Control, Begun
<1>2. CASE BeginCycle
  <2>1. mem'.decision = None /\ mem'.on = None /\ mem'.todo = {} /\ pc' = "plan"
    BY <1>2, <1>b DEF BeginCycle, Goto, Blank
  <2>2. mem.decision = None
    BY <1>2 DEF BeginCycle, Goto, Control
  <2> QED BY <1>0, <1>k, <2>1, <2>2 DEF Quiet, Control, Begun
<1>3. CASE BeginMission
  <2>1. PICK n \in Reserved : mem' = [Blank EXCEPT !.command = "mission", !.on = n]
    BY <1>3 DEF BeginMission, Goto
  <2>2. mem'.decision = None /\ mem'.on = n /\ mem'.todo = {} /\ mem'.back = "idle"
    BY <2>1 DEF Blank
  <2>3. mem.decision = None /\ pc' = "session" /\ life[n].stage # "new"
    BY <1>3 DEF BeginMission, Goto, Control, Reserved, Active
  <2> QED BY <1>0, <1>k, <2>2, <2>3 DEF Quiet, Control, Begun, Kept
<1>4. CASE Check
  <2>1. /\ mem'.decision = None /\ mem'.on = None /\ pc' \in {"idle", "continue"}
        /\ mem'.todo \subseteq At({"working"})
    BY <1>4, <1>b DEF Check, Goto, Control, Typed, Memory
  <2>2. mem.decision = None /\ \A n \in At({"working"}) : life[n].stage # "new"
    BY <1>4 DEF Check, Goto, Control, At
  <2> QED BY <1>0, <1>k, <2>1, <2>2 DEF Quiet, Control, Begun, Kept
<1>5. CASE Continue
  <2>1. PICK n \in mem.todo : EnterSession("continue", n, mem)
    BY <1>5 DEF Continue
  <2>2. /\ mem'.decision = mem.decision /\ mem'.on = n /\ mem'.back = "continue"
        /\ mem'.todo = mem.todo \ {n} /\ pc' = "session"
    BY <2>1 DEF EnterSession, Goto, Typed, Memory
  <2>3. mem.decision = None
    BY <2>1 DEF EnterSession, Goto, Control
  <2> QED BY <1>0, <1>k, <2>2, <2>3 DEF Quiet, Control, Begun, Kept
<1>6. CASE Continued
  <2>1. /\ mem'.decision = None /\ mem'.on = None /\ pc' \in {"idle", "plan"}
        /\ mem'.todo = {}
    BY <1>6, <1>b DEF Continued, Goto, Control
  <2>2. mem.decision = None
    BY <1>6 DEF Continued, Goto, Control
  <2> QED BY <1>0, <1>k, <2>1, <2>2 DEF Quiet, Control, Begun
<1>7. CASE Judge
  <2>1. mem'.decision = None /\ mem'.on = None /\ mem'.todo = {} /\ pc' \in {"idle", "check"}
    BY <1>7, <1>b DEF Judge, Goto, Blank
  <2>2. pc = "judge"
    BY <1>7 DEF Judge, Goto
  <2> QED BY <1>0, <1>k, <2>1, <2>2 DEF Quiet, Control, Begun
<1> QED BY <1>1, <1>2, <1>3, <1>4, <1>5, <1>6, <1>7

(* A session, its end, and its failure. *)
LEMMA SessionSteps ==
  ASSUME Bound,
         BeginSubrun \/ EndSubrun \/ StopMission \/ Spin \/ Return \/ Raise
  PROVE  (Works \/ Proceeds \/ Quiet) /\ Bound'
<1> USE DEF Bound
<1>0. Typed' /\ None \notin Nodes
  BY NextTyped, GoalsAssumption DEF Next, Step
<1>s. pc = "session" /\ mem.on \in Nodes
  BY DEF BeginSubrun, EndSubrun, StopMission, Spin, Return, Raise, Typed
<1>1. CASE BeginSubrun \/ EndSubrun \/ StopMission
  <2>1. Works
    <3>1. CASE BeginSubrun
      BY <1>s, <3>1 DEF BeginSubrun, SessionMoves, Works, Mine, Successors, Typed, Memory
    <3>2. CASE EndSubrun
      BY <1>s, <3>2 DEF EndSubrun, SessionMoves, Works, Mine, Successors, Typed, Memory
    <3>3. CASE StopMission
      BY <1>s, <3>3 DEF StopMission, SessionMoves, Works, Mine, Successors, Typed, Memory
    <3> QED BY <1>1, <3>1, <3>2, <3>3
  <2>2. PICK l \in Successors(life[mem.on]) : life' = [life EXCEPT ![mem.on] = l]
    BY <2>1 DEF Works
  <2>3. l.stage # "new"
    BY <1>s, LivesForward DEF Typed
  <2> QED BY <1>0, <1>s, <2>1, <2>2, <2>3 DEF Works, Control, Begun, Typed
<1>2. CASE Spin
  <2>1. mem' = mem /\ pc' = "lost" /\ Kept
    BY <1>2 DEF Spin, Goto, Reads, documents, Kept
  <2> QED BY <1>0, <1>s, <2>1 DEF Proceeds, Quiet, Control, Begun, Kept
<1>3. CASE Return \/ Raise
  <2>0. Kept
    BY <1>3 DEF Return, Raise, Goto, Reads, documents, Kept
  <2>l. /\ mem'.on = None /\ pc' \in {"idle", "continue", "dispatch"}
        /\ \/ pc' = "idle" /\ mem' = Blank
           \/ /\ pc' = mem.back /\ mem'.todo = mem.todo
              /\ mem'.decision = mem.decision /\ mem'.counters = mem.counters
        /\ mem.back = "dispatch" => pc' = "dispatch"
    BY <1>s, <1>3, SessionLeaves DEF Typed
  <2>1. CASE mem.back = "dispatch"
    <3>1. /\ mem'.decision = mem.decision /\ mem'.todo = mem.todo
          /\ mem'.counters = mem.counters /\ mem'.on = None /\ pc' = "dispatch"
      BY <2>l, <2>1
    <3>2. mem.decision # None
      BY <1>s, <2>1 DEF Control
    <3> QED BY <1>0, <2>0, <3>1, <3>2 DEF Proceeds, Control, Begun
  <2>2. CASE mem.back # "dispatch"
    <3>1. mem.decision = None
      BY <1>s, <2>2 DEF Control
    <3>2. /\ mem'.decision = None /\ mem'.on = None /\ mem'.todo \subseteq mem.todo
          /\ pc' \in {"idle", "continue"}
      <4>1. Blank.decision = None /\ Blank.on = None /\ Blank.todo = {}
        BY DEF Blank
      <4>2. mem.back \in {"idle", "continue", "dispatch"}
        BY DEF Typed, Memory
      <4> QED BY <2>l, <2>2, <3>1, <4>1, <4>2
    <3> QED BY <1>0, <2>0, <3>1, <3>2 DEF Quiet, Control, Begun, Kept
  <2> QED BY <2>1, <2>2
<1> QED BY <1>1, <1>2, <1>3

LEMMA DispatchDoes ==
  ASSUME Typed, NEW n \in Nodes, Dispatch!(n)
  PROVE  /\ n \in mem.todo /\ mem'.todo = mem.todo \ {n}
         /\ mem'.counters = [mem.counters EXCEPT ![n] = @ + 1]
         /\ mem'.decision = mem.decision
         /\ mem'.on \in {n, mem.on}
         /\ pc = "dispatch" /\ pc' \in {"dispatch", "session"}
         /\ attempts' = [attempts EXCEPT ![n] = @ + 1]
         /\ UNCHANGED <<documents, stop, crashes>>
<1> DEFINE keep == [mem EXCEPT !.counters[n] = @ + 1]
<1>1. /\ keep.todo = mem.todo /\ keep.decision = mem.decision /\ keep.on = mem.on
      /\ keep.counters = [mem.counters EXCEPT ![n] = @ + 1]
      /\ keep \in Memory
  BY DEF Typed, Memory
<1>2. /\ \/ EnterSession("dispatch", n, keep)
         \/ Goto("dispatch", "dispatch", [keep EXCEPT !.todo = @ \ {n}])
      /\ n \in mem.todo
      /\ attempts' = [attempts EXCEPT ![n] = @ + 1]
      /\ UNCHANGED <<documents, stop>>
  BY DEF First
<1> HIDE DEF keep
<1>3. CASE EnterSession("dispatch", n, keep)
  <2>1. mem' = [keep EXCEPT !.on = n, !.back = "dispatch", !.todo = @ \ {n}]
    BY <1>3 DEF EnterSession, Goto
  <2>2. /\ mem'.todo = keep.todo \ {n} /\ mem'.on = n
        /\ mem'.counters = keep.counters /\ mem'.decision = keep.decision
    BY <1>1, <2>1 DEF Memory
  <2> QED BY <1>1, <1>2, <1>3, <2>2 DEF EnterSession, Goto
<1>4. CASE Goto("dispatch", "dispatch", [keep EXCEPT !.todo = @ \ {n}])
  <2>1. mem' = [keep EXCEPT !.todo = @ \ {n}]
    BY <1>4 DEF Goto
  <2>2. /\ mem'.todo = keep.todo \ {n} /\ mem'.on = keep.on
        /\ mem'.counters = keep.counters /\ mem'.decision = keep.decision
    BY <1>1, <2>1 DEF Memory
  <2> QED BY <1>1, <1>2, <1>4, <2>2 DEF Goto
<1> QED BY <1>2, <1>3, <1>4

(* The steps of a cycle. *)
LEMMA CycleSteps ==
  ASSUME Bound, Plan \/ Dispatch \/ SaveState PROVE Bound'
<1> USE DEF Bound
<1>0. Typed' /\ None \notin Nodes /\ None \notin Inputs
  BY NextTyped, GoalsAssumption DEF Next, Step
<1>1. CASE Plan
  <2>1. mem'.decision = Decision /\ mem'.on = mem.on /\ pc = "plan" /\ pc' = "dispatch"
    BY <1>1 DEF Plan, Goto, Typed, Memory
  <2>2. Decision # None
    BY <1>0, DecisionTyped
  <2> QED BY <1>0, <2>1, <2>2 DEF Control, Begun
<1>2. CASE Dispatch
  <2>1. PICK n \in Nodes : Dispatch!(n)
    BY <1>2 DEF Dispatch
  <2>2. /\ mem'.decision = mem.decision /\ pc = "dispatch" /\ pc' \in {"dispatch", "session"}
        /\ pc' = "dispatch" => mem'.on = mem.on
        /\ pc' = "session" => mem'.back = "dispatch"
    BY <2>1 DEF EnterSession, Goto, Typed, Memory
  <2> QED BY <1>0, <2>2 DEF Control, Begun
<1>3. CASE SaveState
  <2>1. /\ pc = "dispatch"
        /\ \/ pc' = "judge" /\ mem' = mem
           \/ pc' = "idle" /\ mem' = Blank
    BY <1>3 DEF SaveState, Goto
  <2> QED BY <1>0, <2>1 DEF Control, Begun, Blank
<1> QED BY <1>1, <1>2, <1>3

LEMMA OtherSteps ==
  ASSUME Bound, Reconstruct \/ Crash \/ RequestStop \/ UNCHANGED vars PROVE Bound'
<1> USE DEF Bound
<1>0. Typed' /\ None \notin Nodes
  BY NextTyped, GoalsAssumption DEF Next, Step
<1>1. CASE Reconstruct
  <2>1. PICK n \in Nodes : \E l \in Recorded(life[n]) : life' = [life EXCEPT ![n] = l]
    BY <1>1 DEF Reconstruct
  <2>2. \A l \in Recorded(life[n]) : l.stage # "new"
    BY LivesForward DEF Typed, Successors
  <2>3. mem' = mem /\ pc' = pc
    BY <1>1 DEF Reconstruct
  <2> QED BY <1>0, <2>1, <2>2, <2>3 DEF Control, Begun, Typed
<1>2. CASE Crash
  BY <1>0, <1>2 DEF Crash, Blank, Control, Begun
<1>3. CASE RequestStop \/ UNCHANGED vars
  BY <1>0, <1>3 DEF RequestStop, vars, documents, Control, Begun
<1> QED BY <1>1, <1>2, <1>3

(* What a step can be. *)
LEMMA Steps ==
  ASSUME Bound, [Next]_vars
  PROVE  /\ Bound'
         /\ \/ Quiet \/ Proceeds \/ Works \/ Ends
            \/ Plan \/ Dispatch \/ SaveState \/ Reconstruct \/ Crash
<1>1. CASE RequestStop \/ UNCHANGED vars
  BY <1>1, OtherSteps DEF RequestStop, vars, documents, Ends, Kept
<1> QED BY <1>1, QuietSteps, SessionSteps, CycleSteps, OtherSteps DEF Next, Step

------------------------------------------------------------------------------
(* Dependencies: of what is begun, and of what a command is about to begin. *)
Ready ==
  \A n \in Nodes :
    life[n].stage # "new" \/ n \in mem.todo \/ n = mem.on
      => Depends[n] \subseteq At({"complete"})

LEMMA ReadyKept ==
  ASSUME Bound, Ready, [Next]_vars PROVE Ready'
<1>0. Bound' /\ Typed /\ Typed' /\ None \notin Nodes
  BY Steps, GoalsAssumption DEF Bound
<1>1. CASE Quiet
  <2>1. life' = life /\ \A n \in Nodes : n \in mem'.todo \/ n = mem'.on => life[n].stage # "new"
    BY <1>0, <1>1 DEF Quiet, Kept, Bound, Begun
  <2> QED BY <2>1 DEF Ready, At
<1>2. CASE Proceeds \/ Ends
  BY <1>0, <1>2 DEF Proceeds, Ends, Kept, Ready, At
<1>3. CASE Works
  <2>1. PICK l \in Successors(life[mem.on]) : life' = [life EXCEPT ![mem.on] = l]
    BY <1>3 DEF Works
  <2>2. mem.on \in Nodes /\ life[mem.on].stage # "complete"
    BY <1>0, <1>3, LivesForward DEF Works, Typed
  <2>3. At({"complete"}) \subseteq At({"complete"})'
    BY <1>0, <2>1, <2>2 DEF At, Typed
  <2>4. \A n \in Nodes : life'[n].stage # "new" => life[n].stage # "new" \/ n = mem.on
    BY <1>0, <2>1 DEF Typed
  <2> QED BY <1>3, <2>3, <2>4 DEF Works, Ready
<1>4. CASE Plan
  <2>1. PICK S \in SUBSET Nodes : Plan!1!(S)
    BY <1>4 DEF Plan
  <2>2. mem'.todo \subseteq S /\ mem'.on = mem.on /\ life' = life
    BY <1>0, <1>4, <2>1 DEF Plan, Goto, Typed, Memory
  <2>3. \A n \in S : Depends[n] \subseteq ProvenNodes
    BY <2>1 DEF Admits, Candidate
  <2>4. ProvenNodes \subseteq At({"complete"})
    BY DEF ProvenNodes
  <2> QED BY <2>2, <2>3, <2>4 DEF Ready, At
<1>5. CASE Dispatch
  <2>1. PICK n \in Nodes : Dispatch!(n)
    BY <1>5 DEF Dispatch
  <2>2. mem'.todo \subseteq mem.todo /\ (mem'.on = mem.on \/ mem'.on \in mem.todo) /\ life' = life
    <3>1. /\ n \in mem.todo /\ mem'.todo = mem.todo \ {n} /\ mem'.on \in {n, mem.on}
          /\ UNCHANGED documents
      BY <1>0, <2>1, DispatchDoes
    <3> QED BY <3>1 DEF documents
  <2> QED BY <2>2 DEF Ready, At
<1>6. CASE SaveState \/ Crash
  <2>1. life' = life /\ mem' \in {mem, Blank}
    BY <1>6 DEF SaveState, Crash, Goto, documents
  <2> QED BY <1>0, <2>1 DEF Ready, At, Blank
<1>7. CASE Reconstruct
  <2>1. PICK n \in Nodes : \E l \in Recorded(life[n]) : life' = [life EXCEPT ![n] = l]
    BY <1>7 DEF Reconstruct
  <2>2. mem' = mem /\ life[n].stage \notin {"new", "complete"}
    BY <1>0, <1>7, <2>1 DEF Reconstruct, Recorded, Active
  <2>3. At({"complete"}) \subseteq At({"complete"})'
    BY <1>0, <2>1, <2>2 DEF At, Typed
  <2>4. \A k \in Nodes : life'[k].stage # "new" => life[k].stage # "new"
    BY <1>0, <2>1, <2>2 DEF Typed
  <2> QED BY <2>2, <2>3, <2>4 DEF Ready
<1> QED BY <1>1, <1>2, <1>3, <1>4, <1>5, <1>6, <1>7, Steps

(* A mission is begun, or given up, only when all it depends on is         *)
(* complete, wherever commands die.                                        *)
THEOREM DependenciesComeFirst == Spec => []DependenciesFirst
<1>1. Init => Bound /\ Ready
  BY InitBound, GoalsAssumption DEF Init, Ready, Unborn, Blank
<1>2. Bound /\ Ready /\ [Next]_vars => (Bound /\ Ready)'
  BY Steps, ReadyKept
<1>3. Bound /\ Ready => DependenciesFirst
  BY DEF Ready, DependenciesFirst
<1> QED BY <1>1, <1>2, <1>3, PTL DEF Spec

------------------------------------------------------------------------------
(* Dispatches: a cycle under way counts what it did, one at most beyond    *)
(* what the state on file says, and nothing yet of what it has to do.      *)
UnderWay ==
  \A n \in Nodes :
    /\ attempts[n] <= mem.counters[n] + crashes
    /\ mem.counters[n] \in {sched.counters[n], sched.counters[n] + 1}
    /\ mem.counters[n] <= MaxAttempts[n]
    /\ n \in mem.todo => /\ mem.counters[n] = sched.counters[n]
                         /\ mem.counters[n] < MaxAttempts[n]

AtRest == \A n \in Nodes : attempts[n] <= sched.counters[n] + crashes

Counted ==
  /\ \A n \in Nodes : sched.counters[n] <= MaxAttempts[n]
  /\ mem.decision = None => AtRest
  /\ mem.decision # None => UnderWay
  /\ pc = "judge" => mem.counters = sched.counters

LEMMA CountedKept ==
  ASSUME Bound, Counted, [Next]_vars PROVE Counted'
<1>0. /\ Bound' /\ Typed /\ Typed' /\ None \notin Nodes /\ None \notin Inputs
      /\ MaxAttempts \in [Nodes -> Nat] /\ Control /\ Control'
  BY Steps, GoalsAssumption DEF Bound
<1>t. /\ \A n \in Nodes : attempts[n] \in Nat /\ sched.counters[n] \in Nat
                          /\ mem.counters[n] \in Nat /\ MaxAttempts[n] \in Nat
      /\ crashes \in Nat
  BY <1>0 DEF Typed, StateDoc, Memory
<1>1. CASE Quiet
  <2>1. AtRest
    BY <1>1 DEF Quiet, Counted, UnderWay, AtRest
  <2> QED BY <1>1, <2>1 DEF Quiet, Kept, Counted, AtRest
<1>2. CASE Proceeds \/ Ends
  BY <1>2 DEF Proceeds, Ends, Kept, Counted, UnderWay, AtRest
<1>3. CASE Works
  BY <1>3 DEF Works, Counted, UnderWay, AtRest
<1>4. CASE Plan
  <2>1. PICK S \in SUBSET Nodes : Plan!1!(S)
    BY <1>4 DEF Plan
  <2>2. /\ mem'.todo \subseteq S /\ mem'.counters = sched.counters
        /\ pc = "plan" /\ pc' = "dispatch" /\ mem'.decision = Decision
        /\ UNCHANGED <<sched, attempts, crashes>>
    BY <1>0, <1>4, <2>1 DEF Plan, Goto, Typed, Memory
  <2>3. \A n \in S : sched.counters[n] < MaxAttempts[n]
    BY <2>1 DEF Admits, Candidate
  <2>4. AtRest /\ Decision # None
    BY <1>0, <2>2, DecisionTyped DEF Counted, Control
  <2> QED BY <1>t, <2>2, <2>3, <2>4 DEF Counted, UnderWay, AtRest
<1>5. CASE Dispatch
  <2>1. PICK n \in Nodes : Dispatch!(n)
    BY <1>5 DEF Dispatch
  <2>2. /\ mem'.todo = mem.todo \ {n} /\ n \in mem.todo
        /\ mem'.counters = [mem.counters EXCEPT ![n] = @ + 1]
        /\ mem'.decision = mem.decision /\ pc = "dispatch" /\ pc' # "judge"
    BY <1>0, <2>1, DispatchDoes
  <2>3. /\ attempts' = [attempts EXCEPT ![n] = @ + 1]
        /\ UNCHANGED <<sched, crashes>>
    BY <2>1 DEF EnterSession, Goto, documents
  <2>4. mem.decision # None /\ UnderWay
    BY <2>2, <1>0 DEF Control, Counted
  <2>5. mem.counters \in [Nodes -> Nat] /\ attempts \in [Nodes -> Nat]
    BY <1>0 DEF Typed, Memory
  <2>6. UnderWay'
    BY <1>t, <2>2, <2>3, <2>4, <2>5 DEF UnderWay
  <2> QED BY <2>2, <2>3, <2>4, <2>6 DEF Counted
<1>6. CASE SaveState
  <2>1. /\ pc = "dispatch" /\ sched'.counters = mem.counters /\ UNCHANGED <<attempts, crashes>>
        /\ mem.todo = {}
        /\ \/ mem' = mem
           \/ pc' = "idle" /\ mem' = Blank
    BY <1>6 DEF SaveState, Goto
  <2>2. UnderWay
    BY <1>0, <2>1 DEF Control, Counted
  <2>3. AtRest'
    BY <2>1, <2>2 DEF UnderWay, AtRest
  <2>4. CASE mem' = mem
    BY <1>t, <2>1, <2>2, <2>3, <2>4 DEF Counted, UnderWay, AtRest
  <2>5. CASE pc' = "idle" /\ mem' = Blank
    BY <2>1, <2>2, <2>3, <2>5 DEF Counted, UnderWay, Blank
  <2> QED BY <2>1, <2>4, <2>5
<1>7. CASE Reconstruct
  BY <1>7 DEF Reconstruct, Counted, UnderWay, AtRest
<1>8. CASE Crash
  <2>1. /\ mem'.decision = None /\ pc' = "idle" /\ crashes' = crashes + 1
        /\ UNCHANGED <<sched, attempts>>
    BY <1>8 DEF Crash, Blank, documents
  <2>2. \A n \in Nodes : attempts[n] <= sched.counters[n] + crashes + 1
    BY <1>t DEF Counted, UnderWay, AtRest
  <2>3. AtRest'
    BY <1>t, <2>1, <2>2 DEF AtRest
  <2> QED BY <2>1, <2>3 DEF Counted
<1> QED BY <1>1, <1>2, <1>3, <1>4, <1>5, <1>6, <1>7, <1>8, Steps

(* A mission is dispatched no more often than its attempts allow, but for  *)
(* one dispatch for each command that died.                                *)
THEOREM DispatchesAreBounded == Spec => []DispatchesBounded
<1>1. Init => Bound /\ Counted
  BY InitBound, GoalsAssumption DEF Init, Counted, AtRest, Blank, NoState
<1>2. Bound /\ Counted /\ [Next]_vars => (Bound /\ Counted)'
  BY Steps, CountedKept
<1>3. Bound /\ Counted => DispatchesBounded
  <2> SUFFICES ASSUME Bound, Counted, NEW n \in Nodes
               PROVE  attempts[n] <= MaxAttempts[n] + crashes
    BY DEF DispatchesBounded
  <2>1. /\ attempts[n] \in Nat /\ sched.counters[n] \in Nat /\ crashes \in Nat
        /\ mem.counters[n] \in Nat /\ MaxAttempts[n] \in Nat
    BY GoalsAssumption DEF Bound, Typed, StateDoc, Memory
  <2> QED BY <2>1 DEF Counted, UnderWay, AtRest
<1> QED BY <1>1, <1>2, <1>3, PTL DEF Spec

------------------------------------------------------------------------------
(* Decisions: besides the one under way, each that the state does not name *)
(* is the work of a command that died.                                     *)
Spoiled ==
  /\ Cardinality(loose \ {mem.decision}) <= crashes
  /\ pc = "judge" => mem.decision \notin loose

LEMMA SpoiledKept ==
  ASSUME Bound, Spoiled, [Next]_vars PROVE Spoiled'
<1>0. /\ Bound' /\ Typed /\ Typed' /\ None \notin Inputs /\ Control
      /\ loose \subseteq Inputs /\ IsFiniteSet(loose)
  BY Steps, GoalsAssumption DEF Bound, Typed
<1>1. loose \ {None} = loose
  BY <1>0
<1>2. CASE Quiet
  <2>1. mem.decision \notin loose
    BY <1>0, <1>2 DEF Quiet, Spoiled
  <2>2. loose \ {mem.decision} = loose
    BY <2>1
  <2> QED BY <1>1, <1>2, <2>2 DEF Quiet, Kept, Spoiled
<1>3. CASE Proceeds \/ Ends
  BY <1>3 DEF Proceeds, Ends, Kept, Spoiled
<1>4. CASE Works
  BY <1>4 DEF Works, Spoiled
<1>5. CASE Plan
  <2>1. /\ mem'.decision = Decision /\ mem.decision = None /\ pc' = "dispatch"
        /\ loose' \subseteq loose \cup {Decision} /\ crashes' = crashes
    <3>1. pc = "plan" /\ pc' = "dispatch" /\ crashes' = crashes
      BY <1>5 DEF Plan, Goto
    <3>2. PICK S \in SUBSET Nodes :
            mem' = [mem EXCEPT !.todo = IF mem.command = "schedule" THEN {} ELSE S,
                               !.admitted = S # {}, !.dispatched = FALSE,
                               !.decision = Decision,
                               !.records = sched.records, !.counters = sched.counters]
      BY <1>5, <3>1 DEF Plan, Goto
    <3>3. mem'.decision = Decision
      <4> HIDE DEF Decision
      <4> QED BY <1>0, <3>2 DEF Typed, Memory
    <3>4. loose' \subseteq loose \cup {Decision}
      BY <1>5 DEF Plan
    <3> QED BY <1>0, <3>1, <3>3, <3>4 DEF Control
  <2>2. loose' \ {Decision} \subseteq loose /\ Cardinality(loose) <= crashes
    BY <1>1, <2>1 DEF Spoiled
  <2>3. Cardinality(loose' \ {Decision}) <= Cardinality(loose)
    BY <1>0, <2>2, FS_Subset
  <2>4. /\ Cardinality(loose) \in Nat /\ crashes \in Nat
        /\ Cardinality(loose' \ {Decision}) \in Nat
    BY <1>0, <2>2, FS_Subset, FS_CardinalityType DEF Typed
  <2> QED BY <2>1, <2>2, <2>3, <2>4 DEF Spoiled
<1>6. CASE Dispatch
  <2>1. mem'.decision = mem.decision /\ UNCHANGED <<loose, crashes>> /\ pc' # "judge"
    BY <1>0, <1>6, DispatchDoes DEF Dispatch, documents
  <2> QED BY <2>1 DEF Spoiled
<1>7. CASE SaveState
  <2>1. /\ loose' = loose \ {mem.decision} /\ crashes' = crashes
        /\ mem'.decision \in {mem.decision, None}
    BY <1>7 DEF SaveState, Goto, Blank
  <2>2. loose' \ {mem'.decision} = loose \ {mem.decision} /\ mem'.decision \notin loose'
    BY <1>0, <2>1
  <2> QED BY <2>1, <2>2 DEF Spoiled
<1>8. CASE Reconstruct
  BY <1>8 DEF Reconstruct, Spoiled
<1>9. CASE Crash
  <2>1. loose' = loose /\ crashes' = crashes + 1 /\ mem'.decision = None /\ pc' = "idle"
    BY <1>9 DEF Crash, Blank, documents
  <2>2. Cardinality(loose) <= Cardinality(loose \ {mem.decision}) + 1
    BY <1>0, FS_RemoveElement, FS_CardinalityType
  <2>3. /\ Cardinality(loose) \in Nat /\ crashes \in Nat
        /\ Cardinality(loose \ {mem.decision}) \in Nat
    BY <1>0, FS_RemoveElement, FS_CardinalityType DEF Typed
  <2> QED BY <1>1, <2>1, <2>2, <2>3 DEF Spoiled
<1> QED BY <1>2, <1>3, <1>4, <1>5, <1>6, <1>7, <1>8, <1>9, Steps

(* The decisions the state does not name, which keep the goal from being   *)
(* proven, are as many as the commands that died, and the one under way.   *)
THEOREM OnlyCrashesSpoil == Spec => []CrashesSpoilProof
<1>1. Init => Bound /\ Spoiled
  <2> SUFFICES ASSUME Init PROVE Spoiled
    BY InitBound
  <2>1. loose \ {mem.decision} = {} /\ crashes = 0 /\ pc = "idle"
    BY DEF Init
  <2> QED BY <2>1, FS_EmptySet DEF Spoiled
<1>2. Bound /\ Spoiled /\ [Next]_vars => (Bound /\ Spoiled)'
  BY Steps, SpoiledKept
<1>3. Bound /\ Spoiled => CrashesSpoilProof
  <2> SUFFICES ASSUME Bound, Spoiled PROVE CrashesSpoilProof
    OBVIOUS
  <2>1. IsFiniteSet(loose) /\ crashes \in Nat /\ None \notin loose
    BY GoalsAssumption DEF Bound, Typed
  <2>2. CASE mem.decision = None
    <3>1. loose \ {mem.decision} = loose
      BY <2>1, <2>2
    <3>2. Cardinality(loose) <= crashes
      BY <3>1 DEF Spoiled
    <3>3. crashes + 0 = crashes
      BY <2>1
    <3> QED BY <2>2, <3>2, <3>3 DEF CrashesSpoilProof
  <2>3. CASE mem.decision # None
    <3>1. /\ Cardinality(loose) <= Cardinality(loose \ {mem.decision}) + 1
          /\ Cardinality(loose) \in Nat /\ Cardinality(loose \ {mem.decision}) \in Nat
      BY <2>1, FS_RemoveElement, FS_CardinalityType
    <3> QED BY <2>1, <2>3, <3>1 DEF Spoiled, CrashesSpoilProof
  <2> QED BY <2>2, <2>3
<1> QED BY <1>1, <1>2, <1>3, PTL DEF Spec

------------------------------------------------------------------------------
(* Admission: what is chosen one after the other fits together.            *)
Ranking == {p \in Nodes \X Nodes : Before(p[1], p[2])}

LEMMA BeforeRanks == ASSUME NEW S \in SUBSET Nodes PROVE Ranks(Ranking, S)
<1>1. \A n \in Nodes : n \in Nat /\ Priority[n] \in Nat
  BY GoalsAssumption
<1>2. \A a, b, c \in Nodes :
        /\ Before(a, b) /\ Before(b, c) => Before(a, c)
        /\ a # b => Before(a, b) \/ Before(b, a)
        /\ ~Before(a, a)
  BY <1>1 DEF Before
<1>3. \A a, b \in Nodes : <<a, b>> \in Ranking <=> Before(a, b)
  BY DEF Ranking
<1>4. Ranks(Ranking, Nodes)
  BY <1>2, <1>3 DEF Ranks
<1> QED BY <1>4, RanksFewer

(* What the nodes demand in dimension d.                                   *)
Share(d) == [n \in Nodes |-> Demand[n][d]]

(* Total counts it.                                                        *)
LEMMA TotalIs ==
  ASSUME NEW S \in SUBSET Nodes, NEW d \in Dimensions
  PROVE  /\ Total(S, d) = Cardinality(Units(Share(d), S))
         /\ Total(S, d) \in Nat
<1>0. IsFiniteSet(S) /\ Demand \in [Nodes -> [Dimensions -> Nat]]
  BY GoalsAssumption, FS_Subset
<1>1. IsFiniteSet(S) /\ \A n \in S : Demand[n][d] \in Nat
  BY <1>0
<1>2. MapThenSumSet(LAMBDA n : Demand[n][d], S)
        = Cardinality(Units([n \in S |-> Demand[n][d]], S))
  BY <1>1, ComponentSumCounts
<1>3. Units([n \in S |-> Demand[n][d]], S) = Units(Share(d), S)
  BY DEF Units, UnitsOf, Share
<1>4. \A n \in S : Share(d)[n] \in Nat
  BY <1>1 DEF Share
<1> QED BY <1>1, <1>2, <1>3, <1>4, UnitsFinite DEF Total

(* Held together: as many as may run, within the capacity, and an          *)
(* exclusive one alone.                                                    *)
Together(S) ==
  /\ WithinPolicy(S)
  /\ \A e \in S \cap Exclusive : S = {e}

LEMMA FewerTogether ==
  ASSUME NEW S \in SUBSET Nodes, NEW T \in SUBSET S, Together(S) PROVE Together(T)
<1>1. IsFiniteSet(S) /\ Concurrency \in Nat /\ Capacity \in [Dimensions -> Nat]
  BY GoalsAssumption, FS_Subset
<1>2. /\ Cardinality(T) <= Cardinality(S)
      /\ Cardinality(S) \in Nat /\ Cardinality(T) \in Nat
  BY <1>1, FS_Subset, FS_CardinalityType
<1>3. ASSUME NEW d \in Dimensions PROVE Total(T, d) <= Capacity[d]
  <2>1. \A n \in S : Share(d)[n] \in Nat
    BY GoalsAssumption DEF Share
  <2>2. Cardinality(Units(Share(d), T)) <= Cardinality(Units(Share(d), S))
    BY <1>1, <2>1, UnitsOfFewer
  <2>3. /\ Total(T, d) <= Total(S, d)
        /\ Total(T, d) \in Nat /\ Total(S, d) \in Nat /\ Capacity[d] \in Nat
    BY <1>1, <2>2, TotalIs
  <2> QED BY <2>3 DEF Together, WithinPolicy
<1> QED BY <1>1, <1>2, <1>3 DEF Together, WithinPolicy

LEMMA AdmittedTogether ==
  ASSUME NEW S \in SUBSET Nodes, Admits(S), Together(Reserved) PROVE Together(Reserved \cup S)
<1>0. /\ IsFiniteSet(Nodes) /\ Concurrency \in Nat /\ Capacity \in [Dimensions -> Nat]
      /\ Reserved \subseteq Nodes
      /\ IsFiniteSet(Reserved) /\ IsFiniteSet(S) /\ Ranks(Ranking, S)
  BY GoalsAssumption, FS_Subset, BeforeRanks DEF Reserved
<1>1. \A n \in S : Fits(n, {c \in S : Before(c, n)})
  BY DEF Admits
<1>2. \A n \in S : {c \in S : Before(c, n)} = Ahead(Ranking, S, n)
  BY DEF Ahead, Ranking
<1>3. \A n \in S :
        /\ Reserved \cup Ahead(Ranking, S, n) \subseteq Nodes
        /\ Cardinality(Reserved \cup Ahead(Ranking, S, n)) < Concurrency
        /\ \A d \in Dimensions :
             Total(Reserved \cup Ahead(Ranking, S, n), d) + Demand[n][d] <= Capacity[d]
  BY <1>0, <1>1, <1>2 DEF Fits, Ahead
<1>4. Cardinality(Reserved \cup S) <= Concurrency
  BY <1>0, <1>3, EachInTurn DEF Together, WithinPolicy
<1>5. ASSUME NEW d \in Dimensions PROVE Total(Reserved \cup S, d) <= Capacity[d]
  <2> DEFINE w == Share(d)
  <2>1. \A n \in Reserved \cup S : w[n] \in Nat /\ w[n] = Demand[n][d]
    BY <1>0, GoalsAssumption DEF Share
  <2>2. Capacity[d] \in Nat
    BY <1>0
  <2> HIDE DEF w
  <2>3. Cardinality(Units(w, Reserved)) <= Capacity[d]
    BY <1>0, TotalIs DEF Together, WithinPolicy, w
  <2>4. \A n \in S :
          Cardinality(Units(w, Reserved \cup Ahead(Ranking, S, n))) + w[n] <= Capacity[d]
    BY <1>3, <2>1, TotalIs DEF w
  <2>5. Cardinality(Units(w, Reserved \cup S)) <= Capacity[d]
    BY <1>0, <2>1, <2>2, <2>3, <2>4, OneByOne
  <2> QED BY <1>0, <2>5, TotalIs DEF w
<1>6. ASSUME NEW e \in Exclusive, e \in Reserved \cup S PROVE Reserved \cup S = {e}
  <2>0. \A a, b \in S : a # b => Before(a, b) \/ Before(b, a)
    BY <1>0 DEF Ranks, Ranking
  <2>1. CASE S = {}
    BY <1>6, <2>1 DEF Together
  <2>2. CASE S # {}
    <3>1. \A k \in S : e \notin Reserved \cup {c \in S : Before(c, k)}
      BY <1>1, <1>6 DEF Fits
    <3>2. e \in S /\ \A k \in S : ~Before(e, k)
      BY <1>6, <2>2, <3>1
    <3>3. Reserved = {} /\ \A c \in S : ~Before(c, e)
      BY <1>1, <1>6, <3>2 DEF Fits
    <3>4. \A c \in S : c = e
      BY <2>0, <3>2, <3>3
    <3> QED BY <3>2, <3>3, <3>4
  <2> QED BY <2>1, <2>2
<1> QED BY <1>4, <1>5, <1>6 DEF Together, WithinPolicy

(* What a command holds, and is about to. *)
Held ==
  Reserved \cup (IF mem.decision = None THEN {} ELSE mem.todo \cup ({mem.on} \cap Nodes))

Holding == Together(Held)

LEMMA FewerHeld ==
  ASSUME Bound, Together(Held), Held' \subseteq Held PROVE Together(Held')
<1>1. Held \subseteq Nodes
  BY DEF Held, Reserved, Bound, Typed, Memory
<1> HIDE DEF Held
<1> QED BY <1>1, FewerTogether

LEMMA HeldKept ==
  ASSUME Bound, Together(Held), [Next]_vars PROVE Together(Held')
<1>0. /\ Bound' /\ Typed /\ Typed' /\ None \notin Nodes /\ Control
  BY Steps, GoalsAssumption DEF Bound
<1>1. CASE Quiet
  <2>1. Held' \subseteq Held
    BY <1>1 DEF Quiet, Kept, Held, Reserved
  <2> QED BY <2>1, FewerHeld
<1>2. CASE Proceeds \/ Ends
  <2>1. Held' \subseteq Held
    BY <1>0, <1>2 DEF Proceeds, Ends, Kept, Held, Reserved
  <2> QED BY <2>1, FewerHeld
<1>3. CASE Works
  <2>1. PICK l \in Successors(life[mem.on]) : life' = [life EXCEPT ![mem.on] = l]
    BY <1>3 DEF Works
  <2>2. mem.on \in Nodes
    BY <1>0, <1>3 DEF Works, Typed
  <2>3. \A n \in Nodes : n # mem.on => life'[n] = life[n]
    BY <1>0, <2>1 DEF Typed
  <2>4. life'[mem.on] = l
    BY <1>0, <2>1, <2>2 DEF Typed
  <2>5. mem.decision = None => (Active(l) => Active(life[mem.on]))
    BY <1>0, <2>2, LivesForward DEF Bound, Begun, Typed
  <2>6. Reserved' \subseteq Held
    BY <2>2, <2>3, <2>4, <2>5 DEF Held, Reserved
  <2>7. Held' \subseteq Held
    BY <1>3, <2>6 DEF Works, Held
  <2> QED BY <2>7, FewerHeld
<1>4. CASE Plan
  <2>1. PICK S \in SUBSET Nodes : Plan!1!(S)
    BY <1>4 DEF Plan
  <2>2. /\ mem'.todo \subseteq S /\ mem'.on = None /\ life' = life
        /\ mem.decision = None
    BY <1>0, <1>4, <2>1 DEF Plan, Goto, Typed, Memory, Control
  <2>3. Held' \subseteq Reserved \cup S
    BY <1>0, <2>2 DEF Held, Reserved
  <2>4. Held = Reserved
    BY <2>2 DEF Held
  <2>5. Together(Reserved \cup S)
    BY <2>1, <2>4, AdmittedTogether
  <2>6. Reserved \cup S \subseteq Nodes
    BY DEF Reserved
  <2> HIDE DEF Held
  <2> QED BY <2>3, <2>5, <2>6, FewerTogether
<1>5. CASE Dispatch
  <2>1. PICK n \in Nodes : Dispatch!(n)
    BY <1>5 DEF Dispatch
  <2>2. /\ mem'.todo \subseteq mem.todo /\ mem'.on \in {mem.on} \cup mem.todo /\ life' = life
        /\ mem.decision # None
    BY <1>0, <2>1, DispatchDoes DEF documents, Control
  <2>3. Held' \subseteq Held
    BY <2>2 DEF Held, Reserved
  <2> QED BY <2>3, FewerHeld
<1>6. CASE SaveState \/ Crash
  <2>1. life' = life /\ mem' \in {mem, Blank}
    BY <1>6 DEF SaveState, Crash, Goto, documents
  <2>2. Held' \subseteq Held
    BY <2>1 DEF Held, Reserved, Blank
  <2> QED BY <2>2, FewerHeld
<1>7. CASE Reconstruct
  <2>1. PICK n \in Nodes : \E l \in Recorded(life[n]) : life' = [life EXCEPT ![n] = l]
    BY <1>7 DEF Reconstruct
  <2>2. Active(life[n])
    BY <2>1 DEF Recorded
  <2>3. \A k \in Nodes : k # n => life'[k] = life[k]
    BY <1>0, <2>1 DEF Typed
  <2>4. mem' = mem
    BY <1>7 DEF Reconstruct
  <2>5. Held' \subseteq Held
    BY <2>2, <2>3, <2>4 DEF Held, Reserved
  <2> QED BY <2>5, FewerHeld
<1> QED BY <1>1, <1>2, <1>3, <1>4, <1>5, <1>6, <1>7, Steps

(* The missions that hold resources fit the policy together, in number and *)
(* in every dimension, and an exclusive one is alone, whatever cycles,     *)
(* deaths and missions left behind there were (derive_reservations and     *)
(* _admission_reason agree).                                               *)
THEOREM CapacityKept == Spec => []WithinCapacity
<1>1. Init => Bound /\ Holding
  <2> SUFFICES ASSUME Init PROVE Holding
    BY InitBound
  <2>1. Held = {}
    BY DEF Init, Held, Reserved, Active, Unborn, Blank
  <2>2. Concurrency \in Nat /\ Capacity \in [Dimensions -> Nat] /\ Cardinality({}) = 0
    BY GoalsAssumption, FS_EmptySet
  <2>3. \A d \in Dimensions : Total({}, d) = 0
    BY <2>2, TotalIs DEF Units
  <2>4. WithinPolicy({})
    BY <2>2, <2>3 DEF WithinPolicy
  <2> QED BY <2>1, <2>4 DEF Holding, Together
<1>2. Bound /\ Holding /\ [Next]_vars => (Bound /\ Holding)'
  BY Steps, HeldKept DEF Holding, Together, WithinPolicy
<1>3. Bound /\ Holding => WithinCapacity
  <2> SUFFICES ASSUME Bound, Holding PROVE WithinCapacity
    OBVIOUS
  <2>1. Held \subseteq Nodes /\ Reserved \subseteq Held
    BY DEF Held, Reserved, Bound, Typed, Memory
  <2>2. Together(Reserved)
    BY <2>1, FewerTogether DEF Holding
  <2> QED BY <2>2, FS_Singleton DEF Together, WithinPolicy, Concurrent, WithinCapacity
<1> QED BY <1>1, <1>2, <1>3, PTL DEF Spec
=============================================================================
