------------------------------ MODULE RunsFiles ------------------------------
(***************************************************************************)
(* The orchestrator's tools as the processes they are: each command reads  *)
(* queue.json, active.json and closed.json into memory, decides, and       *)
(* writes them back one file at a time (runs/orchestration.py).  The CLI   *)
(* commands take no lock (runs/cli.py); supervisor sessions                *)
(* (runs/supervisor.py) and reconstructions (runs/reconstruction.py) hold  *)
(* the state lock (runs/locking.py) for a whole cycle.  A tool may die     *)
(* between any two steps: its memory and its lock are gone, the files and  *)
(* the jobs' processes stay.                                               *)
(*                                                                         *)
(* Abstractions.  Reading or atomically replacing one file is one step;    *)
(* closed.json is read together with active.json in a rebuild.  A lock     *)
(* timeout changes nothing, so it is not a step.  The resource gate, the   *)
(* worktree rule and the session's cycle and launch bounds only end a      *)
(* session early and are left out, as are registry runs started outside    *)
(* the orchestrator.  `orchestrate' is reap and start, repeated.           *)
(***************************************************************************)
EXTENDS RunsState

CONSTANTS
  Clis,             \* terminals: each runs one unlocked command after another
  Sessions,         \* supervisor sessions, one locked cycle after another
  Reconstructors,   \* locked reconstructions
  Commands,         \* the CLI commands in use
  Exclusive,        \* tools the operator runs only while no other tool runs
  Evidence,         \* terminals a session's observe_fn may report
  Deps,             \* depends_on of each job's specification
  PermitFailed,     \* jobs submitted with permit_failed_prereqs
  MaxSeq,           \* bound: no submission once this many seqs are handed out
  MaxLaunches,      \* bound: processes launched
  MaxCrashes,       \* bound: tools that die
  NoOne             \* the lock is free

Tools == Clis \cup Sessions \cup Reconstructors
Locking == Sessions \cup Reconstructors

ASSUME FilesConstants ==
  /\ Commands \subseteq {"enqueue", "start", "reap", "cancel"}
  /\ Evidence \subseteq {"done", "failed"}
  /\ Deps \in [Jobs -> SUBSET Jobs] /\ \A j \in Jobs : j \notin Deps[j]
  /\ PermitFailed \subseteq Jobs
  /\ Clis \cap Locking = {} /\ Exclusive \subseteq Tools
  /\ NoOne \notin Tools

VARIABLES
  lock,      \* holder of the flock on state.lock
  pc,        \* where each tool is
  mem,       \* StateBundle and start_one's copies, per tool
  hand,      \* the job, entry or record a tool is working on
  crashes

files == <<queue, active, closed>>
world == <<live, lastPid, spent>>
vars == <<files, world, lock, pc, mem, hand, crashes>>

Nothing == [job |-> "none"]   \* an empty hand

(* queue, active, closed: the rebuilt bundle; todo: its records still to   *)
(* reap; start: the queue and the records start_one read for itself.       *)
Blank == [queue |-> EmptyQueue, active |-> {}, closed |-> <<>>, todo |-> {},
          startQueue |-> EmptyQueue, startActive |-> {}]

Init ==
  /\ queue = EmptyQueue /\ active = {} /\ closed = <<>>
  /\ live = {} /\ lastPid = 0 /\ spent = [j \in Jobs |-> 0]
  /\ lock = NoOne
  /\ pc = [t \in Tools |-> "idle"]
  /\ mem = [t \in Tools |-> Blank]
  /\ hand = [t \in Tools |-> Nothing]
  /\ crashes = 0

-----------------------------------------------------------------------------
(* Bookkeeping shared by the steps. *)

Goto(t, label) == pc' = [pc EXCEPT ![t] = label]

Keep(t, fields) == mem' = [mem EXCEPT ![t] = fields]

Take(t, thing) == hand' = [hand EXCEPT ![t] = thing]

(* The command or cycle ends, by return or by exception: leaving the       *)
(* with-block closes the descriptor, which drops the lock.                 *)
Leave(t) ==
  /\ Goto(t, "idle") /\ Keep(t, Blank) /\ Take(t, Nothing)
  /\ lock' = IF lock = t THEN NoOne ELSE lock

At(t, label) == pc[t] = label /\ UNCHANGED crashes

(* What the operator sees to, and no code enforces. *)
MayBegin(t) ==
  /\ At(t, "idle")
  /\ \A u \in Tools \ {t} :
       pc[u] # "idle" => t \notin Exclusive /\ u \notin Exclusive

-----------------------------------------------------------------------------
(* cmd_enqueue: load active.json, load queue.json and check, save.         *)

Submit(t, j, max) ==
  /\ MayBegin(t) /\ t \in Clis /\ "enqueue" \in Commands
  /\ queue.seq < MaxSeq
  /\ Keep(t, [Blank EXCEPT !.active = active])
  /\ Take(t, [job |-> j, max |-> max])
  /\ Goto(t, "enqueue")
  /\ UNCHANGED <<files, world, lock>>

SubmitCheck(t) ==
  /\ At(t, "enqueue")
  /\ LET j == hand[t].job IN
       IF Enqueueable(queue, j, JobsOf(mem[t].active))
         THEN /\ Keep(t, [mem[t] EXCEPT !.queue =
                            Enqueue(queue, j, hand[t].max, 0, TRUE)])
              /\ Goto(t, "enqueue_save")
              /\ UNCHANGED <<hand, lock>>
         ELSE Leave(t)
  /\ UNCHANGED <<files, world>>

SubmitSave(t) ==
  /\ At(t, "enqueue_save")
  /\ queue' = mem[t].queue
  /\ spent' = [spent EXCEPT ![hand[t].job] = 0]
  /\ Leave(t)
  /\ UNCHANGED <<active, closed, live, lastPid>>

-----------------------------------------------------------------------------
(* start_one: load queue.json, load and prove active.json, decide, launch, *)
(* save active.json, save queue.json.                                      *)

StartLabels == {"start_decide", "launch"}

StartLoad(t) ==
  /\ \/ MayBegin(t) /\ t \in Clis /\ "start" \in Commands
     \/ At(t, "start")
  /\ lastPid + Cardinality({u \in Tools : pc[u] \in StartLabels}) < MaxLaunches
  /\ Keep(t, [mem[t] EXCEPT !.startQueue = queue])
  /\ Goto(t, "start_decide")
  /\ UNCHANGED <<files, world, lock, hand>>

(* A start that fails: a session writes the queue it rebuilt back, a       *)
(* command just ends.                                                      *)
StartFails(t) ==
  IF t \in Sessions
    THEN /\ Goto(t, "session_save") /\ UNCHANGED <<mem, hand, lock>>
    ELSE Leave(t)

(* A session starts the entry it found eligible, a command the head or the *)
(* one named by --job-id.                                                  *)
Startable(t, e) ==
  /\ e \in mem[t].startQueue.entries
  /\ t \in Sessions => e.job = hand[t].job

StartDecide(t) ==
  /\ At(t, "start_decide")
  /\ \/ /\ Admitted(mem[t].startQueue, active, LivePids)
        /\ \E e \in mem[t].startQueue.entries :
             Startable(t, e) /\ Take(t, e)
        /\ Keep(t, [mem[t] EXCEPT !.startActive = active])
        /\ Goto(t, "launch")
        /\ UNCHANGED lock
     \/ /\ \/ ~Admitted(mem[t].startQueue, active, LivePids)
           \/ \A e \in mem[t].startQueue.entries : ~Startable(t, e)
        /\ StartFails(t)
  /\ UNCHANGED <<files, world>>

(* launch_job: the process runs from here on, in no document yet. *)
Launch(t) ==
  /\ At(t, "launch")
  /\ lastPid' = lastPid + 1
  /\ live' = live \cup {[job |-> hand[t].job, pid |-> lastPid']}
  /\ spent' = [spent EXCEPT ![hand[t].job] = @ + 1]
  /\ Keep(t, [mem[t] EXCEPT !.startActive =
                WithRecord(@, Started(hand[t], lastPid')),
              !.startQueue = Remove(@, hand[t])])
  /\ Goto(t, "save_active")
  /\ UNCHANGED <<files, lock, hand>>

(* Popen fails (the command does not exist). *)
LaunchFails(t) ==
  /\ At(t, "launch")
  /\ StartFails(t)
  /\ UNCHANGED <<files, world>>

(* Mutant: queue.json is written before active.json. *)
SaveActiveQueueFirst(t) ==
  /\ At(t, "save_active")
  /\ queue' = mem[t].startQueue
  /\ Goto(t, "save_queue")
  /\ UNCHANGED <<active, closed, world, lock, mem, hand>>

SaveActive(t) ==
  /\ At(t, "save_active")
  /\ active' = mem[t].startActive
  /\ Goto(t, "save_queue")
  /\ UNCHANGED <<queue, closed, world, lock, mem, hand>>

SaveQueue(t) ==
  /\ At(t, "save_queue")
  /\ queue' = mem[t].startQueue
  /\ Leave(t)
  /\ UNCHANGED <<active, closed, world>>

-----------------------------------------------------------------------------
(* rebuild_state and reap.                                                 *)

(* A command starts at once, a session or reconstruction once it has won   *)
(* the lock.                                                               *)
RebuildQueue(t) ==
  /\ MayBegin(t)
  /\ IF t \in Locking THEN lock = NoOne /\ lock' = t
                      ELSE "reap" \in Commands /\ UNCHANGED lock
  /\ Keep(t, [Blank EXCEPT !.queue = queue])
  /\ Goto(t, "rebuild")
  /\ UNCHANGED <<files, world, hand>>

RebuildActive(t) ==
  /\ At(t, "rebuild")
  /\ Keep(t, [mem[t] EXCEPT
                !.active = active, !.closed = closed,
                !.todo = {r \in active : r.pid \notin LivePids}])
  /\ Goto(t, "reap")
  /\ UNCHANGED <<files, world, lock, hand>>

(* The terminal comes from a session's evidence; every other caller passes *)
(* none and the job counts as crashed.                                     *)
Outcomes(t) == {"crashed"} \cup (IF t \in Sessions THEN Evidence ELSE {})

(* append_closed_record reads closed.json ... *)
ReapRecord(t) ==
  /\ At(t, "reap")
  /\ \E r \in mem[t].todo, terminal \in Outcomes(t) :
       Take(t, [record |-> r, terminal |-> terminal])
  /\ Keep(t, [mem[t] EXCEPT !.closed = closed])
  /\ Goto(t, "reap_close")
  /\ UNCHANGED <<files, world, lock>>

(* Mutant: a reaped record stays active. *)
ReapedKept(t) == [mem[t] EXCEPT !.todo = @ \ {hand[t].record}]

Reaped(t) == [mem[t] EXCEPT !.todo = @ \ {hand[t].record},
                            !.active = @ \ {hand[t].record}]

(* ... and writes it back. *)
ReapClose(t) ==
  /\ At(t, "reap_close")
  /\ closed' = AppendClosed(mem[t].closed,
                            Closing(hand[t].record, hand[t].terminal))
  /\ IF WillRequeue(hand[t].record, hand[t].terminal)
       THEN /\ Goto(t, "requeue")
            /\ Keep(t, [mem[t] EXCEPT !.closed = closed'])
            /\ UNCHANGED hand
       ELSE /\ Goto(t, "reap")
            /\ Keep(t, [Reaped(t) EXCEPT !.closed = closed'])
            /\ Take(t, Nothing)
  /\ UNCHANGED <<queue, active, world, lock>>

(* The bounded re-queue.  The enqueue raises on a duplicate or a full      *)
(* queue; nothing in reap catches it, so the pass ends there.              *)
ReapRequeue(t) ==
  /\ At(t, "requeue")
  /\ IF Enqueueable(mem[t].queue, hand[t].record.job, {})
       THEN /\ queue' = Requeue(mem[t].queue, hand[t].record)
            /\ Keep(t, [Reaped(t) EXCEPT !.queue = queue'])
            /\ Take(t, Nothing)
            /\ Goto(t, "reap")
            /\ UNCHANGED lock
       ELSE Leave(t) /\ UNCHANGED queue
  /\ UNCHANGED <<active, closed, world>>

(* Only after the last record is active.json written. *)
ReapSave(t) ==
  /\ At(t, "reap")
  /\ mem[t].todo = {}
  /\ active' = mem[t].active
  /\ IF t \in Sessions
       THEN Goto(t, "session_decide") /\ UNCHANGED <<lock, mem, hand>>
       ELSE Leave(t)
  /\ UNCHANGED <<queue, closed, world>>

-----------------------------------------------------------------------------
(* The rest of a supervisor cycle (run_session).                           *)

(* find_dependency_cycle over the queued specifications: j starts a walk   *)
(* along prerequisites that never ends.                                    *)
LeadsToCycle(q, j) ==
  LET graph == {e.job : e \in {f \in q.entries : f.spec}} IN
  \E S \in SUBSET graph : j \in S /\ \A n \in S : Deps[n] \cap S # {}

(* resolve_dependencies against the latest terminal of each prerequisite.  *)
Resolved(c, j) ==
  \A d \in Deps[j] :
    /\ d \in ClosedJobs(c)
    /\ TerminalMap(c)[d] = "done" \/ j \in PermitFailed

(* Mutant: prerequisites are not looked at. *)
EligibleAnyway(m, e) == e.spec /\ ~LeadsToCycle(m.queue, e.job)

Eligible(m, e) ==
  e.spec /\ ~LeadsToCycle(m.queue, e.job) /\ Resolved(m.closed, e.job)

(* The entry, in seq order, that settles the scan: one whose job already   *)
(* has a closed record halts the session, an eligible one is started.      *)
Settles(m, e) == e.job \in ClosedJobs(m.closed) \/ Eligible(m, e)

Chosen(m, e) ==
  /\ e \in m.queue.entries /\ Settles(m, e)
  /\ \A f \in m.queue.entries : Settles(m, f) => e.seq <= f.seq

(* snapshot counts the active records into an empty dict and raises        *)
(* KeyError when there is one, so a session goes on only without any.      *)
SessionEnds(t) ==
  /\ At(t, "session_decide")
  /\ \/ mem[t].active # {}
     \/ \A e \in mem[t].queue.entries : ~Settles(mem[t], e)
  /\ Leave(t)
  /\ UNCHANGED <<files, world>>

SessionDecide(t) ==
  /\ At(t, "session_decide")
  /\ mem[t].active = {}
  /\ \E e \in mem[t].queue.entries :
       /\ Chosen(mem[t], e)
       /\ IF e.job \in ClosedJobs(mem[t].closed)
            THEN Goto(t, "session_save") /\ UNCHANGED hand
            ELSE Goto(t, "start") /\ Take(t, e)
  /\ UNCHANGED <<files, world, lock, mem>>

(* The in-memory queue is written back before the session stops. *)
SessionSave(t) ==
  /\ At(t, "session_save")
  /\ queue' = mem[t].queue
  /\ Leave(t)
  /\ UNCHANGED <<active, closed, world>>

-----------------------------------------------------------------------------
(* cancel_job: prove, SIGTERM the group and wait, close, save active.json. *)

Cancel(t) ==
  /\ MayBegin(t) /\ t \in Clis /\ "cancel" \in Commands
  /\ \E r \in active : r.pid \in LivePids /\ Take(t, [record |-> r])
  /\ Keep(t, [Blank EXCEPT !.active = active])
  /\ Goto(t, "terminate")
  /\ UNCHANGED <<files, world, lock>>

(* The group dies within the grace period, or was already gone. *)
Terminate(t) ==
  /\ At(t, "terminate")
  /\ live' = {p \in live : p.pid # hand[t].record.pid}
  /\ Goto(t, "cancel_read")
  /\ UNCHANGED <<files, lastPid, spent, lock, mem, hand>>

(* cancel_pending: still alive after the grace period, nothing recorded. *)
TerminatePending(t) ==
  /\ At(t, "terminate")
  /\ hand[t].record.pid \in LivePids
  /\ Leave(t)
  /\ UNCHANGED <<files, world>>

CancelRead(t) ==
  /\ At(t, "cancel_read")
  /\ Keep(t, [mem[t] EXCEPT !.closed = closed])
  /\ Goto(t, "cancel_close")
  /\ UNCHANGED <<files, world, lock, hand>>

CancelClose(t) ==
  /\ At(t, "cancel_close")
  /\ closed' = AppendClosed(mem[t].closed, Closing(hand[t].record, "cancelled"))
  /\ Goto(t, "cancel_save")
  /\ UNCHANGED <<queue, active, world, lock, mem, hand>>

CancelSave(t) ==
  /\ At(t, "cancel_save")
  /\ active' = {r \in mem[t].active : r.job # hand[t].record.job}
  /\ Leave(t)
  /\ UNCHANGED <<queue, closed, world>>

-----------------------------------------------------------------------------
(* The world around the tools. *)

Exit(p) ==
  /\ live' = live \ {p}
  /\ UNCHANGED <<files, lastPid, spent, lock, pc, mem, hand, crashes>>

(* The tool's process dies; the kernel drops its lock. *)
Crash(t) ==
  /\ pc[t] # "idle" /\ crashes < MaxCrashes
  /\ crashes' = crashes + 1
  /\ Leave(t)
  /\ UNCHANGED <<files, world>>

Step(t) ==
  \/ SubmitCheck(t) \/ SubmitSave(t)
  \/ StartDecide(t) \/ Launch(t) \/ LaunchFails(t)
  \/ SaveActive(t) \/ SaveQueue(t)
  \/ RebuildActive(t) \/ ReapRecord(t) \/ ReapClose(t) \/ ReapRequeue(t)
  \/ ReapSave(t)
  \/ SessionEnds(t) \/ SessionDecide(t) \/ SessionSave(t)
  \/ Terminate(t) \/ TerminatePending(t) \/ CancelRead(t) \/ CancelClose(t)
  \/ CancelSave(t)

Begin(t) ==
  \/ \E j \in Jobs, max \in 1..MaxAttemptsLimit : Submit(t, j, max)
  \/ StartLoad(t) \/ RebuildQueue(t) \/ Cancel(t)

Next ==
  \/ \E t \in Tools : Begin(t) \/ Step(t) \/ Crash(t)
  \/ \E p \in live : Exit(p)

Spec == Init /\ [][Next]_vars

-----------------------------------------------------------------------------
(* Every variable has its type. *)
TypeOK ==
  /\ queue \in QueueDoc
  /\ active \in SUBSET ActiveRecord
  /\ closed \in Seq(ClosedRecord) /\ Len(closed) <= MaxClosedRecords
  /\ live \in SUBSET Process
  /\ spent \in [Jobs -> Nat]
  /\ lock \in Locking \cup {NoOne}
  /\ \A t \in Locking : pc[t] # "idle" => lock = t

AtRest == \A t \in Tools : pc[t] = "idle"

Attempted(records, e) == \E r \in records : r.job = e.job /\ r.seq = e.seq

(* No job falls between the files, however a tool dies: an entry leaves    *)
(* queue.json only for a record of the same attempt, and a record leaves   *)
(* active.json only for a closed one.  The order of the writes in          *)
(* start_one, reap and cancel_job is what makes it so.                     *)
NothingLost ==
  [][/\ \A e \in queue.entries \ queue'.entries :
          Attempted(active', e) \/ Attempted({closed'[i] : i \in DOMAIN closed'}, e)
     /\ \A r \in active \ active' :
          Attempted({closed'[i] : i \in DOMAIN closed'}, r)]_vars

(* Processes no record names: nobody can cancel, reap or count them. *)
Orphans == {p \in live : \A r \in active : r.pid # p.pid}

(* At rest there are at most as many orphans as tools that died.           *)
OrphansFromCrashes == AtRest => Cardinality(Orphans) <= crashes

(* The attempts a job's entry or record counts fall short of the launches  *)
(* it had by at most one for each tool that died.                          *)
AttemptsUndercounted ==
  AtRest => /\ \A e \in queue.entries :
                 spent[e.job] <= e.attempts + crashes
            /\ \A r \in active : spent[r.job] <= r.attempts + crashes

(* What the deaths of tools between two writes can do to the accounts, and *)
(* all they can do, is one orphan or one uncounted attempt for each.       *)
CrashDamage == OrphansFromCrashes /\ AttemptsUndercounted

(* No job runs twice at a time.                                            *)
RunsOnce == \A p, q \in live : p.job = q.job => p = q

(* Whatever a session launches, its prerequisites have a closed record,    *)
(* and the latest of each is done unless the job permits failed ones: the  *)
(* files may have changed since the session looked (an operator's start    *)
(* command ignores prerequisites).                                         *)
NoSpeculativeStart ==
  [][\A t \in Sessions :
       pc[t] = "launch" /\ pc'[t] # pc[t] =>
         \A p \in live' \ live : Resolved(closed, p.job)]_vars
=============================================================================
