---------------------------- MODULE PlatformQueue ----------------------------
(***************************************************************************)
(* The multi-mission queue and its scheduler (platform/queue.py): missions *)
(* of queue.json, the operator's commands on them, schedule_once, and the  *)
(* executions it sets off.  Every tool reads the whole document, computes  *)
(* a new one and replaces the file; nothing locks it, so tools may overlap *)
(* and one may die between any two of its steps.                           *)
(*                                                                         *)
(* Abstractions.  A mission's priority, dependencies and demand are fixed  *)
(* by its first enqueue, so they are constants.  gpu stands for GPU slots  *)
(* and for GPU memory, which the code checks alike.  Projects, timestamps, *)
(* reasons and the attempts counter, which nothing reads, are left out.    *)
(* A mission's status.json, once terminal, stays so.                       *)
(***************************************************************************)
EXTENDS Integers, FiniteSets, FiniteSetsExt

CONSTANTS
  Missions,
  Operators,        \* terminals running queue commands
  Schedulers,       \* callers of schedule_once: daemon cycles, `queue schedule'
  Commands,         \* the operator commands in use
  Marks,            \* the states mark_state is called with
  Exclusive,        \* tools the operator runs only while no other tool runs
  Priority,         \* of each mission
  Depends,          \* the missions each one depends on
  Cpu, Gpu,         \* the slots each mission demands
  MaxConcurrent, CpuSlots, GpuSlots,   \* QueuePolicy
  MaxAgeBonus,      \* 64 in the code
  MaxQueueEntries,  \* model.MAX_QUEUE_ENTRIES
  Outages,          \* missions whose backend or provider may be reported down
  Dispatching,      \* schedule_once is given a dispatch_fn
  Readiness,        \* what status.json may say when an execution stops
  MaxCrashes,       \* bound: tools that die
  MaxExecutions     \* bound: executions of one mission at a time

Tools == Operators \cup Schedulers

States == {"ABSENT", "QUEUED", "ACTIVE", "PAUSED", "CANCELLED", "DONE",
           "FAILED", "BLOCKED"}

ASSUME QueueConstants ==
  /\ IsFiniteSet(Missions)
  /\ Commands \subseteq {"enqueue", "pause", "resume", "cancel", "requeue", "mark"}
  /\ Marks \subseteq States \ {"ABSENT"}
  /\ Exclusive \subseteq Tools
  /\ Priority \in [Missions -> Int]
  /\ Depends \in [Missions -> SUBSET Missions]
  /\ \A m \in Missions : m \notin Depends[m]
  /\ Cpu \in [Missions -> Nat] /\ Gpu \in [Missions -> Nat]
  /\ {MaxConcurrent, CpuSlots, MaxQueueEntries} \subseteq Nat \ {0}
  /\ {GpuSlots, MaxAgeBonus} \subseteq Nat
  /\ Outages \subseteq Missions
  /\ Dispatching \in BOOLEAN
  /\ Readiness \subseteq {"live", "ready", "failed"}
  /\ MaxExecutions \in Nat

(* queue.json: the state and the enqueue sequence number of each mission.  *)
Document == [state: [Missions -> States], seq: [Missions -> Nat], next: Nat]

VARIABLES
  queue,       \* queue.json
  canonical,   \* readiness in each mission's status.json
  executing,   \* executions of each mission under way
  pc, mem, hand,
  crashes,
  \* History:
  undelivered, \* admitted, and not yet handed to dispatch_fn or, where there
               \* is none, not yet in the decision log
  dropped,     \* in the hand of a tool when it died, and not admitted since
  disowned,    \* of each mission, executions it had when it last ceased to
               \* be active, counted as if they were the first to end
  overtaken    \* by scheduler: missions that became terminal after it looked

world == <<canonical, executing>>
local == <<pc, mem, hand, crashes>>
handing == <<undelivered, dropped>>
history == <<handing, disowned, overtaken>>
vars == <<queue, world, local, history>>

Empty == [state |-> [m \in Missions |-> "ABSENT"],
          seq |-> [m \in Missions |-> 0], next |-> 1]

Init ==
  /\ queue = Empty
  /\ canonical = [m \in Missions |-> "live"]
  /\ executing = [m \in Missions |-> 0]
  /\ pc = [t \in Tools |-> "idle"]
  /\ mem = [t \in Tools |-> Empty]
  /\ hand = [t \in Tools |-> {}]
  /\ crashes = 0
  /\ undelivered = {} /\ dropped = {}
  /\ disowned = [m \in Missions |-> 0]
  /\ overtaken = [t \in Tools |-> {}]

-----------------------------------------------------------------------------
(* The documents. *)

In(q, states) == {m \in Missions : q.state[m] \in states}

Known(q) == Missions \ In(q, {"ABSENT"})

Become(q, m, s) == [q EXCEPT !.state[m] = s]

(* Mutant: two entries share a number.                                     *)
EnqueuedSameSeq(q, m) ==
  CASE q.state[m] \in {"CANCELLED", "FAILED"} -> Become(q, m, "QUEUED")
    [] q.state[m] = "ABSENT" /\ Cardinality(Known(q)) < MaxQueueEntries ->
         [Become(q, m, "QUEUED") EXCEPT !.seq[m] = q.next]
    [] OTHER -> q

(* enqueue: a new entry takes the next sequence number, a cancelled or     *)
(* failed one is queued again under its old number, any other is left.     *)
Enqueued(q, m) ==
  CASE q.state[m] \in {"CANCELLED", "FAILED"} -> Become(q, m, "QUEUED")
    [] q.state[m] = "ABSENT" /\ Cardinality(Known(q)) < MaxQueueEntries ->
         [Become(q, m, "QUEUED") EXCEPT !.seq[m] = q.next, !.next = @ + 1]
    [] OTHER -> q

(* The operator's commands: where each applies, and what it leaves.        *)
Applied(q, command, m) ==
  CASE command = "enqueue" -> Enqueued(q, m)
    [] command = "pause" /\ q.state[m] \in {"QUEUED", "ACTIVE", "BLOCKED"} ->
         Become(q, m, "PAUSED")
    [] command = "resume" /\ q.state[m] = "PAUSED" -> Become(q, m, "QUEUED")
    [] command = "cancel" /\ q.state[m] # "ABSENT" -> Become(q, m, "CANCELLED")
    [] command = "requeue" /\ q.state[m] \notin {"ABSENT", "ACTIVE", "QUEUED"} ->
         Become(q, m, "QUEUED")
    [] OTHER -> q

(* Mutant: the canonical state is not looked at.                           *)
SyncedNever(q) == q

(* _sync_canonical: a mission that is terminal is not scheduled again.     *)
Synced(q) ==
  [q EXCEPT !.state = [m \in Missions |->
     IF canonical[m] # "live" /\ @[m] \notin {"ABSENT", "DONE", "FAILED"}
       THEN IF canonical[m] = "ready" THEN "DONE" ELSE "FAILED"
       ELSE @[m]]]

(* _validate_dependencies: a cycle among the known missions.               *)
Cyclic(q) ==
  \E S \in SUBSET Known(q) : S # {} /\ \A m \in S : Depends[m] \cap S # {}

-----------------------------------------------------------------------------
(* One scheduling decision. *)

(* Mutant: a blocked mission is not looked at again. *)
CandidatesQueued(q) == In(q, {"QUEUED"})

Candidates(q) == In(q, {"QUEUED", "BLOCKED"})

Total(demand, S) == MapThenSumSet(LAMBDA m : demand[m], S)

(* Waiting is measured in later arrivals still waiting, up to MaxAgeBonus. *)
Effective(q, m) ==
  LET newest == Max({q.seq[n] : n \in Candidates(q)})
      age    == newest - q.seq[m]
  IN  Priority[m] + IF age < MaxAgeBonus THEN age ELSE MaxAgeBonus

Before(q, n, m) ==
  \/ Effective(q, n) > Effective(q, m)
  \/ Effective(q, n) = Effective(q, m) /\ q.seq[n] < q.seq[m]

(* Mutant: a dependency that is merely over counts. *)
DependenciesOver(q, m) == Depends[m] \subseteq In(q, {"DONE", "FAILED"})

DependenciesDone(q, m) == Depends[m] \subseteq In(q, {"DONE"})

(* Mutant: the missions already active are not counted. *)
FitsBesideChosen(q, chosen, m) ==
  /\ Cardinality(chosen) < MaxConcurrent
  /\ Total(Cpu, chosen) + Cpu[m] <= CpuSlots
  /\ Gpu[m] > 0 => Total(Gpu, chosen) + Gpu[m] <= GpuSlots

(* Room for m beside the active missions and those chosen before it.       *)
Fits(q, chosen, m) ==
  LET taken == In(q, {"ACTIVE"}) \cup chosen IN
  /\ Cardinality(taken) < MaxConcurrent
  /\ Total(Cpu, taken) + Cpu[m] <= CpuSlots
  /\ Gpu[m] > 0 => Total(Gpu, taken) + Gpu[m] <= GpuSlots

(* S is what the loop over the ranked candidates selects: each is admitted *)
(* if it is ready, its backend is up and it fits beside those ranked       *)
(* before it that were admitted.  The ranking is total, so S is unique.    *)
Selects(q, down, S) ==
  \A m \in Candidates(q) :
    m \in S <=> /\ DependenciesDone(q, m) /\ m \notin down
                /\ Fits(q, {n \in S : Before(q, n, m)}, m)

(* A candidate that waits for a dependency is blocked, and so is one that  *)
(* would have had room but whose backend is down.                          *)
Blocked(q, down, S) ==
  {m \in Candidates(q) \ S :
     \/ ~DependenciesDone(q, m)
     \/ m \in down /\ Cardinality(In(q, {"ACTIVE"}) \cup
                        {n \in S : Before(q, n, m)}) < MaxConcurrent}

(* Mutant: the selected missions are not marked active. *)
DecidedUnmarked(q, down, S) ==
  [q EXCEPT !.state = [m \in Missions |->
     IF m \in Blocked(q, down, S) THEN "BLOCKED" ELSE @[m]]]

(* The selected missions are active.                                       *)
Decided(q, down, S) ==
  [q EXCEPT !.state = [m \in Missions |->
     IF m \in S THEN "ACTIVE"
     ELSE IF m \in Blocked(q, down, S) THEN "BLOCKED" ELSE @[m]]]

-----------------------------------------------------------------------------
(* Steps of the tools. *)

Goto(t, label) == pc' = [pc EXCEPT ![t] = label]
Keep(t, q) == mem' = [mem EXCEPT ![t] = q]
Take(t, S) == hand' = [hand EXCEPT ![t] = S]
Leave(t) ==
  /\ Goto(t, "idle") /\ Keep(t, Empty) /\ Take(t, {})
  /\ overtaken' = [overtaken EXCEPT ![t] = {}]

(* The whole document is replaced.                                         *)
Replace(q) ==
  /\ queue' = q
  /\ disowned' = [m \in Missions |->
       IF queue.state[m] = "ACTIVE" /\ q.state[m] # "ACTIVE"
         THEN executing[m] ELSE disowned[m]]

MayBegin(t) ==
  /\ pc[t] = "idle"
  /\ \A u \in Tools \ {t} :
       pc[u] # "idle" => t \notin Exclusive /\ u \notin Exclusive

(* A command: load queue.json and compute the new document ...             *)
Load(t, command, m) ==
  /\ MayBegin(t) /\ t \in Operators /\ command \in Commands \ {"mark"}
  /\ Applied(queue, command, m) # queue
  /\ Keep(t, Applied(queue, command, m))
  /\ Goto(t, "save")
  /\ UNCHANGED <<queue, world, hand, crashes, history>>

(* mark_state: any state its caller wants, for any mission known.          *)
Mark(t, m, outcome) ==
  /\ MayBegin(t) /\ t \in Operators /\ "mark" \in Commands
  /\ m \in Known(queue)
  /\ Keep(t, Become(queue, m, outcome))
  /\ Goto(t, "save")
  /\ UNCHANGED <<queue, world, hand, crashes, history>>

(* ... and save it. *)
Save(t) ==
  /\ pc[t] = "save"
  /\ Replace(mem[t])
  /\ Leave(t)
  /\ UNCHANGED <<world, crashes, handing>>

(* schedule_once: load, and refuse a document with a dependency cycle.     *)
ScheduleLoad(t) ==
  /\ MayBegin(t) /\ t \in Schedulers
  /\ ~Cyclic(queue)
  /\ Keep(t, queue)
  /\ Goto(t, "sync")
  /\ UNCHANGED <<queue, world, hand, crashes, history>>

(* The document is saved at once when a mission turned out terminal.       *)
ScheduleSync(t) ==
  /\ pc[t] = "sync"
  /\ Keep(t, Synced(mem[t]))
  /\ IF Synced(mem[t]) # mem[t] THEN Replace(Synced(mem[t]))
                                ELSE UNCHANGED <<queue, disowned>>
  /\ Goto(t, "decide")
  /\ UNCHANGED <<world, hand, crashes, handing, overtaken>>

(* The selected missions are saved as active ...                           *)
ScheduleSave(t) ==
  /\ pc[t] = "decide"
  /\ \E down \in SUBSET Outages, S \in SUBSET Candidates(mem[t]) :
       /\ Selects(mem[t], down, S)
       /\ Replace(Decided(mem[t], down, S))
       /\ Take(t, S)
       /\ undelivered' = undelivered \cup S /\ dropped' = dropped \ S
  /\ Keep(t, Empty)
  /\ Goto(t, "record")
  /\ UNCHANGED <<world, crashes, overtaken>>

(* ... then the decision is appended to the log ...                        *)
ScheduleRecord(t) ==
  /\ pc[t] = "record"
  /\ IF Dispatching /\ hand[t] # {}
       THEN Goto(t, "dispatch") /\ UNCHANGED <<mem, hand, undelivered, overtaken>>
       ELSE Leave(t) /\ undelivered' = undelivered \ hand[t]
  /\ UNCHANGED <<queue, world, crashes, dropped, disowned>>

(* Mutant: only the first mission is handed over. *)
DispatchFirst(t) ==
  /\ pc[t] = "dispatch"
  /\ \E m \in hand[t] :
       /\ executing[m] < MaxExecutions
       /\ executing' = [executing EXCEPT ![m] = @ + 1]
       /\ undelivered' = undelivered \ {m}
  /\ Leave(t)
  /\ UNCHANGED <<queue, canonical, crashes, dropped, disowned>>

(* ... and each mission is handed to dispatch_fn.                          *)
Dispatch(t) ==
  /\ pc[t] = "dispatch"
  /\ \E m \in hand[t] :
       /\ executing[m] < MaxExecutions
       /\ executing' = [executing EXCEPT ![m] = @ + 1]
       /\ undelivered' = undelivered \ {m}
       /\ IF hand[t] = {m} THEN Leave(t)
                           ELSE Take(t, hand[t] \ {m}) /\ UNCHANGED <<pc, mem, overtaken>>
  /\ UNCHANGED <<queue, canonical, crashes, dropped, disowned>>

(* The mission stops: ready or failed for good, or at a gate with nothing  *)
(* terminal to show.                                                       *)
Finish(m, readiness) ==
  /\ executing[m] > 0
  /\ executing' = [executing EXCEPT ![m] = @ - 1]
  /\ canonical' = [canonical EXCEPT ![m] = IF @ = "live" THEN readiness ELSE @]
  /\ disowned' = [disowned EXCEPT ![m] = IF @ > 0 THEN @ - 1 ELSE 0]
  /\ overtaken' = [t \in Tools |->
       IF pc[t] \in {"decide", "record", "dispatch"} /\ canonical'[m] # canonical[m]
         THEN overtaken[t] \cup {m} ELSE overtaken[t]]
  /\ UNCHANGED <<queue, local, handing>>

(* The tool's process dies, or dispatch_fn raises. *)
Crash(t) ==
  /\ pc[t] # "idle" /\ crashes < MaxCrashes
  /\ crashes' = crashes + 1
  /\ dropped' = dropped \cup hand[t]
  /\ Leave(t)
  /\ UNCHANGED <<queue, world, undelivered, disowned>>

Step(t) ==
  \/ Save(t) \/ ScheduleSync(t) \/ ScheduleSave(t) \/ ScheduleRecord(t)
  \/ Dispatch(t)

Begin(t) ==
  \/ \E command \in Commands, m \in Missions : Load(t, command, m)
  \/ \E m \in Missions, outcome \in Marks : Mark(t, m, outcome)
  \/ ScheduleLoad(t)

Next ==
  \/ \E t \in Tools : Begin(t) \/ Step(t) \/ Crash(t)
  \/ \E m \in Missions, readiness \in Readiness : Finish(m, readiness)

Spec == Init /\ [][Next]_vars

(* The daemon keeps cycling, tools that run keep running, executions end.  *)
FairSpec ==
  /\ Spec
  /\ \A t \in Tools : WF_vars(Step(t))
  /\ \A t \in Schedulers : SF_vars(ScheduleLoad(t))
  /\ \A m \in Missions : WF_vars(\E readiness \in Readiness : Finish(m, readiness))

-----------------------------------------------------------------------------
(* Every variable has its type, and the queue its bound. *)
TypeOK ==
  /\ queue \in Document /\ Cardinality(Known(queue)) <= MaxQueueEntries
  /\ canonical \in [Missions -> {"live", "ready", "failed"}]
  /\ executing \in [Missions -> 0..MaxExecutions]
  /\ undelivered \subseteq Missions /\ dropped \subseteq Missions
  /\ disowned \in [Missions -> 0..MaxExecutions]
  /\ overtaken \in [Tools -> SUBSET Missions]
  /\ mem \in [Tools -> Document]
  /\ hand \in [Tools -> SUBSET Missions]

AtRest == \A t \in Tools : pc[t] = "idle"

(* The active missions of queue.json never exceed the policy, however the  *)
(* tools overlap and die: each save is a whole document that one tool made *)
(* out of one it read.                                                     *)
WithinPolicy ==
  LET act == In(queue, {"ACTIVE"}) IN
  /\ Cardinality(act) <= MaxConcurrent
  /\ Total(Cpu, act) <= CpuSlots
  /\ Total(Gpu, act) <= GpuSlots

(* Sequence numbers order the missions: no two known missions share one.   *)
SeqsDistinct ==
  \A m, n \in Known(queue) : queue.seq[m] = queue.seq[n] => m = n

(* A mission starts to be active only with its dependencies done.          *)
DependenciesFirst ==
  [][\A m \in In(queue', {"ACTIVE"}) \ In(queue, {"ACTIVE"}) :
       Depends[m] \subseteq In(queue, {"DONE"})]_vars

(* A mission that is terminal in canonical state is never executed again   *)
(* ("a mission already completed/ready in canonical state is never         *)
(* re-executed", platform/queue.py), unless it became so after the         *)
(* scheduler that hands it over had synchronised its document.             *)
NeverReexecuted ==
  [][\A m \in Missions : executing'[m] > executing[m] =>
       \/ canonical[m] = "live"
       \/ \E t \in Tools : m \in (hand[t] \ hand'[t]) \cap overtaken[t]]_vars

(* An active mission is in the decision log and, with a dispatch_fn, was   *)
(* handed to it ("admitted work is never silently lost",                   *)
(* platform/supervisor.py), but for those a tool had in hand when it died  *)
(* or when its dispatch_fn raised.                                         *)
SilentOnlyAfterCrash ==
  AtRest => In(queue, {"ACTIVE"}) \cap undelivered \subseteq dropped

(* No mission is executed twice at a time, except where a command took it  *)
(* out of the active ones while it ran: its slot was free again.           *)
ExecutedOnce == \A m \in Missions : executing[m] <= disowned[m] + 1

Waiting(m) == m \in In(queue, {"QUEUED", "BLOCKED"})
Due(m) == Waiting(m) /\ Depends[m] \subseteq In(queue, {"DONE"})

(* A mission that was not waiting, and known, waits again.                 *)
Recalls == \E m \in Known(queue) : ~Waiting(m) /\ Waiting(m)'

(* An active mission that nobody works on, or is about to.                 *)
Forgotten(m) ==
  /\ m \in In(queue, {"ACTIVE"}) /\ executing[m] = 0
  /\ \A t \in Tools : m \notin hand[t]

(* A mission whose dependencies are done does not wait for ever, unless    *)
(* missions are put back in the queue again and again (these keep their    *)
(* age, and may be ranked before it each time), or one that is no longer   *)
(* worked on stays active because nobody records its outcome.              *)
NoStarvation ==
  /\ <>[][~Recalls]_vars
  /\ \A m \in Missions : []<>~Forgotten(m)
  => \A m \in Missions : Due(m) ~> ~Due(m)
=============================================================================
