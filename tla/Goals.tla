-------------------------------- MODULE Goals --------------------------------
(***************************************************************************)
(* A goal's graph of missions and the commands that work on it: the goal   *)
(* loop (goals/runner.py), the scheduling cycle (graph/scheduler) that     *)
(* admits missions within the policy's capacity, dispatches them and keeps *)
(* decisions and state, and the goal proof (graph/proof) that decides when *)
(* the goal is complete.                                                   *)
(*                                                                         *)
(* One command works on a goal at a time; it may die anywhere.  Missions   *)
(* are the ones of MissionLife, a node of the graph has one.  A decision   *)
(* is identified with the inputs its id is computed from.                  *)
(***************************************************************************)
EXTENDS Naturals, FiniteSets, FiniteSetsExt, MissionLife

CONSTANTS
  Nodes,         \* the nodes, by their place in the order of node ids
  Depends,       \* the nodes each one depends on
  Priority,      \* of each node
  Dimensions,    \* what is counted: cpu slots, gpu slots, gpu memory
  Demand,        \* of each node, in each dimension
  Exclusive,     \* the nodes that share with nobody
  Capacity,      \* of the policy, in each dimension
  Concurrency,   \* global_concurrency
  MaxAttempts,   \* dispatches a node may have
  SubrunBudget,  \* of each mission
  Session,       \* session_subruns
  MaxCycles,     \* of one goal run
  MaxCrashes,    \* bound: commands that die
  None

Commands == {"run", "portfolio", "dispatch", "schedule", "mission"}

(* What the decision's identity is computed from. *)
Inputs == [life : [Nodes -> Lives], subruns : [Nodes -> Nat],
           records : SUBSET Nodes, counters : [Nodes -> Nat], active : SUBSET Nodes]

ASSUME GoalsAssumption ==
  /\ Nodes \subseteq Nat /\ IsFiniteSet(Nodes)
  /\ Depends \in [Nodes -> SUBSET Nodes]
  /\ Priority \in [Nodes -> Nat]
  /\ Demand \in [Nodes -> [Dimensions -> Nat]]
  /\ Capacity \in [Dimensions -> Nat]
  /\ Exclusive \subseteq Nodes
  /\ {MaxAttempts, SubrunBudget} \subseteq [Nodes -> Nat \ {0}]
  /\ {Concurrency, Session, MaxCycles} \subseteq Nat \ {0}
  /\ MaxCrashes \in Nat
  /\ None \notin Inputs /\ None \notin Nodes

VARIABLES
  life,      \* the missions
  subruns,   \* the sub-runs each of them has begun
  sched,     \* scheduler/state.json
  loose,     \* the decisions on file that the state does not name
  stop,      \* whether a stop request is on file
  pc, mem,   \* the command at work
  crashes,
  attempts   \* the dispatches each node has had

vars == <<life, subruns, sched, loose, stop, pc, mem, crashes, attempts>>

documents == <<life, subruns, sched, loose>>

------------------------------------------------------------------------------
NoState == [records |-> {}, counters |-> [n \in Nodes |-> 0], active |-> {},
            last |-> None]

Blank == [command |-> "run", cycle |-> 1, todo |-> {}, continued |-> FALSE,
          admitted |-> FALSE, dispatched |-> FALSE, decision |-> None,
          records |-> {}, counters |-> [n \in Nodes |-> 0],
          on |-> None, back |-> "idle", done |-> 0, flight |-> FALSE]

Init ==
  /\ life = [n \in Nodes |-> Unborn]
  /\ subruns = [n \in Nodes |-> 0]
  /\ sched = NoState
  /\ loose = {}
  /\ stop = FALSE
  /\ pc = "idle" /\ mem = Blank
  /\ crashes = 0
  /\ attempts = [n \in Nodes |-> 0]

------------------------------------------------------------------------------
At(stages) == {n \in Nodes : life[n].stage \in stages}

(* readiness: COMPLETE, with everything upstream. *)
ProvenNodes ==
  UNION {S \in SUBSET At({"complete"}) : \A n \in S : Depends[n] \subseteq S}

(* derive_reservations: the missions that started and have not ended. *)
Reserved == {n \in Nodes : Active(life[n])}

Total(S, d) == MapThenSumSet(LAMBDA n : Demand[n][d], S)

Before(a, b) == Priority[a] > Priority[b] \/ (Priority[a] = Priority[b] /\ a < b)

(* Mutant: a dependency need only have ended. *)
CandidateOver(n) ==
  /\ life[n].stage = "new"
  /\ Depends[n] \subseteq At({"complete", "blocked"})
  /\ n \notin sched.records
  /\ sched.counters[n] < MaxAttempts[n]

(* arbiter.plan's classification; reuse is not declared. *)
Candidate(n) ==
  /\ life[n].stage = "new"
  /\ Depends[n] \subseteq ProvenNodes
  /\ n \notin sched.records
  /\ sched.counters[n] < MaxAttempts[n]

(* Mutant: what earlier cycles reserved is not counted. *)
FitsAfresh(n, chosen) ==
  /\ n \in Exclusive => chosen = {}
  /\ chosen \cap Exclusive = {}
  /\ Cardinality(chosen) < Concurrency
  /\ \A d \in Dimensions : Total(chosen, d) + Demand[n][d] <= Capacity[d]

(* _admission_reason, after the candidates chosen before it. *)
Fits(n, chosen) ==
  LET used == Reserved \cup chosen IN
  /\ n \in Exclusive => used = {}
  /\ used \cap Exclusive = {}
  /\ Cardinality(used) < Concurrency
  /\ \A d \in Dimensions : Total(used, d) + Demand[n][d] <= Capacity[d]

(* The candidates that are admitted, one after the other. *)
Admits(S) ==
  \A n \in Nodes :
    n \in S <=> Candidate(n) /\ Fits(n, {c \in S : Before(c, n)})

Decision ==
  [life |-> life, subruns |-> subruns, records |-> sched.records,
   counters |-> sched.counters, active |-> sched.active]

------------------------------------------------------------------------------
WithinPolicy(S) ==
  /\ Cardinality(S) <= Concurrency
  /\ \A d \in Dimensions : Total(S, d) <= Capacity[d]

(* scheduler reconstruct: no decision on file is untracked, none is missing. *)
Reconstructs == loose = {} /\ WithinPolicy(Reserved)

(* build_proof: every node is proven, and nothing about the scheduler doubtful. *)
GoalProven ==
  /\ ProvenNodes = Nodes
  /\ sched.last # None => Reconstructs

------------------------------------------------------------------------------
Goto(from, to, keep) ==
  /\ pc = from
  /\ pc' = to
  /\ mem' = IF to = "idle" THEN Blank ELSE keep
  /\ UNCHANGED crashes

Reads == UNCHANGED <<documents, stop, attempts>>

(* goal run; the portfolio's calls have one cycle and keep a stop request. *)
BeginGoal ==
  /\ \E command \in {"run", "portfolio"} :
       /\ Goto("idle", IF GoalProven THEN "idle" ELSE "check",
               [Blank EXCEPT !.command = command,
                             !.cycle = IF command = "run" THEN 1 ELSE MaxCycles])
       /\ stop' = (stop /\ command = "portfolio")
  /\ UNCHANGED <<documents, attempts>>

(* A cycle of its own: graph dispatch, graph schedule. *)
BeginCycle ==
  /\ \E command \in {"dispatch", "schedule"} :
       Goto("idle", "plan", [Blank EXCEPT !.command = command])
  /\ Reads

(* The operator runs one mission that has been started ... *)
BeginMission ==
  /\ \E n \in Reserved :
       Goto("idle", "session", [Blank EXCEPT !.command = "mission", !.on = n])
  /\ Reads

(* ... or has it reconstructed. *)
Reconstruct ==
  /\ pc = "idle"
  /\ \E n \in Nodes : \E l \in Recorded(life[n]) : life' = [life EXCEPT ![n] = l]
  /\ UNCHANGED <<subruns, sched, loose, stop, pc, mem, crashes, attempts>>

RequestStop ==
  /\ ~stop /\ stop' = TRUE
  /\ UNCHANGED <<documents, pc, mem, crashes, attempts>>

------------------------------------------------------------------------------
(* Mutant: the goal loop leaves missions to the dispatcher. *)
CheckNothing ==
  /\ Goto("check", IF stop THEN "idle" ELSE "continue",
          [mem EXCEPT !.todo = {}, !.continued = FALSE])
  /\ Reads

(* run_goal: a cycle begins unless a stop is requested. *)
Check ==
  /\ LET working == At({"working"}) IN
       Goto("check", IF stop THEN "idle" ELSE "continue",
            [mem EXCEPT !.todo = working, !.continued = working # {}])
  /\ Reads

(* run_mission, and back. *)
EnterSession(from, n, keep) ==
  Goto(from, "session", [keep EXCEPT !.on = n, !.back = from, !.todo = @ \ {n}])

Left == [mem EXCEPT !.on = None, !.back = "idle", !.done = 0, !.flight = FALSE]

(* _continue_active_missions, in the order of their ids. *)
Continue ==
  /\ \E n \in mem.todo :
       /\ \A k \in mem.todo : n <= k
       /\ EnterSession("continue", n, mem)
  /\ Reads

Continued ==
  /\ mem.todo = {}
  /\ Goto("continue",
          IF mem.continued /\ (GoalProven \/ stop) THEN "idle" ELSE "plan", mem)
  /\ Reads

------------------------------------------------------------------------------
(* run_cycle: load the inputs, decide, save the decision. *)
Plan ==
  /\ \E S \in SUBSET Nodes :
       /\ Admits(S)
       /\ Goto("plan", "dispatch",
               [mem EXCEPT !.todo = IF mem.command = "schedule" THEN {} ELSE S,
                           !.admitted = S # {}, !.dispatched = FALSE,
                           !.decision = Decision,
                           !.records = sched.records, !.counters = sched.counters])
  /\ loose' = IF Decision = sched.last THEN loose ELSE loose \cup {Decision}
  /\ UNCHANGED <<life, subruns, sched, stop, attempts>>

First(n) == n \in mem.todo /\ \A k \in mem.todo \ {n} : Before(n, k)

(* Mutant: an attempt counts when the dispatcher returns. *)
DispatchCountsLate ==
  \E n \in Nodes :
    /\ First(n)
    /\ \/ EnterSession("dispatch", n, [mem EXCEPT !.counters[n] = @ + 1])
       \/ Goto("dispatch", "dispatch", [mem EXCEPT !.todo = @ \ {n}])
    /\ attempts' = [attempts EXCEPT ![n] = @ + 1]
    /\ UNCHANGED <<documents, stop>>

(* An admitted node is dispatched; the dispatcher may raise at once. *)
Dispatch ==
  \E n \in Nodes :
    /\ First(n)
    /\ LET keep == [mem EXCEPT !.counters[n] = @ + 1] IN
         \/ EnterSession("dispatch", n, keep)
         \/ Goto("dispatch", "dispatch", [keep EXCEPT !.todo = @ \ {n}])
    /\ attempts' = [attempts EXCEPT ![n] = @ + 1]
    /\ UNCHANGED <<documents, stop>>

(* Mutant: a cycle that dispatched nothing has nothing to save. *)
SaveWhatWasDispatched ==
  /\ mem.todo = {}
  /\ Goto("dispatch", IF mem.command \in {"run", "portfolio"} THEN "judge" ELSE "idle", mem)
  /\ IF mem.dispatched
       THEN /\ sched' = [records |-> mem.records, counters |-> mem.counters,
                         active |-> Reserved, last |-> mem.decision]
            /\ loose' = loose \ {mem.decision}
       ELSE UNCHANGED <<sched, loose>>
  /\ UNCHANGED <<life, subruns, stop, attempts>>

(* The state is replaced once, when all are dispatched. *)
SaveState ==
  /\ mem.todo = {}
  /\ Goto("dispatch", IF mem.command \in {"run", "portfolio"} THEN "judge" ELSE "idle", mem)
  /\ sched' = [records |-> mem.records, counters |-> mem.counters,
               active |-> Reserved, last |-> mem.decision]
  /\ loose' = loose \ {mem.decision}
  /\ UNCHANGED <<life, subruns, stop, attempts>>

(* COMPLETE, STOPPED, STALLED, DISPATCH_ERROR, CYCLE_BOUND, or once more. *)
Judge ==
  /\ LET ends == \/ GoalProven \/ stop
                 \/ ~mem.admitted /\ ~mem.continued
                 \/ mem.admitted /\ ~mem.dispatched
                 \/ mem.cycle = MaxCycles
     IN  Goto("judge", IF ends THEN "idle" ELSE "check",
              [Blank EXCEPT !.command = mem.command,
                            !.cycle = IF ends THEN 1 ELSE mem.cycle + 1])
  /\ Reads

------------------------------------------------------------------------------
(* run_mission on mem.on, as MissionLife has it. *)
Mine == life[mem.on]

SessionMoves(l, keep) ==
  /\ life' = [life EXCEPT ![mem.on] = l]
  /\ mem' = keep
  /\ UNCHANGED <<pc, sched, loose, stop, crashes, attempts>>

BeginSubrun ==
  /\ pc = "session"
  /\ ~Mine.open /\ mem.done < Session /\ subruns[mem.on] < SubrunBudget[mem.on]
  /\ \E l \in Launched(Mine) : SessionMoves(l, [mem EXCEPT !.flight = TRUE])
  /\ subruns' = [subruns EXCEPT ![mem.on] = @ + 1]

EndSubrun ==
  /\ pc = "session"
  /\ mem.flight
  /\ \E l \in Recorded(Mine) :
       SessionMoves(l, [mem EXCEPT !.flight = FALSE, !.done = @ + 1])
  /\ UNCHANGED subruns

(* Also the answer to a phase that was left RUNNING. *)
StopMission ==
  /\ pc = "session"
  /\ ~mem.flight /\ mem.done < Session
  /\ \E l \in Stopped(Mine) : SessionMoves(l, mem)
  /\ UNCHANGED subruns

(* A repair round that exists, left RUNNING or closed as PASSED by a          *)
(* reconstruction, and that is not counted: it is decided for ever.           *)
Spin ==
  /\ pc = "session"
  /\ ~mem.flight /\ Mine.stage = "working" /\ mem.done < Session
  /\ Goto("session", "lost", mem)
  /\ Reads

Return ==
  /\ pc = "session"
  /\ Terminal(Mine) \/ (mem.done = Session /\ ~mem.flight)
  /\ Goto("session", mem.back,
          IF mem.back # "dispatch" THEN Left
          ELSE [Left EXCEPT !.records = @ \cup {mem.on}, !.dispatched = TRUE])
  /\ Reads

(* A transition that is not legal: caught around a dispatch only. *)
Raise ==
  /\ pc = "session"
  /\ ~Terminal(Mine)
  /\ Goto("session", IF mem.back = "dispatch" THEN "dispatch" ELSE "idle", Left)
  /\ Reads

Crash ==
  /\ pc # "idle" /\ crashes < MaxCrashes
  /\ crashes' = crashes + 1
  /\ pc' = "idle" /\ mem' = Blank
  /\ UNCHANGED <<documents, stop, attempts>>

------------------------------------------------------------------------------
Step ==
  \/ Check \/ Continue \/ Continued \/ Plan \/ Dispatch \/ SaveState \/ Judge
  \/ BeginSubrun \/ EndSubrun \/ StopMission \/ Spin \/ Return \/ Raise

Next ==
  \/ BeginGoal \/ BeginCycle \/ BeginMission \/ Reconstruct \/ RequestStop
  \/ Step \/ Crash

Spec == Init /\ [][Next]_vars

(* A command goes on; nobody has to start one. *)
FairSpec == Spec /\ WF_vars(Step)

------------------------------------------------------------------------------
(* No more missions hold resources than may run at once, and an exclusive *)
(* one is alone.                                                           *)
Concurrent ==
  /\ Cardinality(Reserved) <= Concurrency
  /\ Reserved \cap Exclusive # {} => Cardinality(Reserved) = 1

(* The missions that hold resources fit the policy together, over cycles,  *)
(* deaths and missions left behind (derive_reservations and                *)
(* _admission_reason agree).                                               *)
WithinCapacity == Concurrent /\ WithinPolicy(Reserved)

(* A mission is begun, or given up, only when all it depends on is complete *)
(* (dependency_ready on the projection of a stored decision's inputs).      *)
DependenciesFirst ==
  \A n \in Nodes : life[n].stage # "new" => Depends[n] \subseteq At({"complete"})

(* A dispatcher that raises is retried no more often than max_attempts      *)
(* says, but for the dispatch a command that died did not put on record     *)
(* (run_cycle saves the counters once, at its end).                         *)
DispatchesBounded == \A n \in Nodes : attempts[n] <= MaxAttempts[n] + crashes

(* Only a cycle cut short leaves a decision that the state does not name,  *)
(* which keeps the goal from ever being proven: one for each death, one    *)
(* for the cycle under way (save_decision, save_state, reconstruct).       *)
CrashesSpoilProof ==
  Cardinality(loose) <= crashes + (IF mem.decision = None THEN 0 ELSE 1)

(* Nothing is left to do: who is not terminal waits for who never completes. *)
Finished ==
  \A n \in Nodes : Terminal(life[n]) \/ ~(Depends[n] \subseteq At({"complete"}))

(* A mission in PLANNING keeps its resources, and nobody continues it; a   *)
(* mission nobody managed to dispatch is out of attempts.                  *)
Hindered ==
  \/ At({"planning"}) # {}
  \/ \E n \in Nodes : life[n].stage = "new" /\ sched.counters[n] = MaxAttempts[n]

Planning == pc = "plan" /\ mem.command \in {"run", "portfolio"}

(* A goal that is run again and again, with no session that raises for     *)
(* ever, leaves no mission at work half-way, and comes to its end unless   *)
(* it is hindered.                                                         *)
Settles ==
  ([]<>Planning /\ <>[][~Raise]_vars) =>
    <>[](pc # "session" => At({"working"}) = {} /\ (Finished \/ Hindered))
=============================================================================
