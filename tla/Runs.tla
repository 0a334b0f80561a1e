-------------------------------- MODULE Runs --------------------------------
(***************************************************************************)
(* What the multi-run orchestrator promises: its operations                *)
(* (runs/orchestration.py, runs/cli.py) as atomic steps on the three       *)
(* documents, with the jobs' processes running beside them.  Reaping is    *)
(* one step per record: a pass of reap is a sequence of them, and active.- *)
(* json is written at its end.  RunsFiles is the detailed specification,   *)
(* one step per file read or written, with the tools interleaved; it       *)
(* implements this one while tools run one at a time (RunsRefinement).     *)
(***************************************************************************)
EXTENDS RunsState

VARIABLE pass   \* records the pass of reap at work has dealt with

vars == <<queue, active, closed, live, lastPid, spent, pass>>

Init ==
  /\ queue = EmptyQueue
  /\ active = {}
  /\ closed = <<>>
  /\ live = {}
  /\ lastPid = 0
  /\ spent = [j \in Jobs |-> 0]
  /\ pass = {}

(* An operation begins when no pass of reap is at work. *)
Alone == pass = {} /\ UNCHANGED pass

(* cmd_enqueue: submit a fresh job, or one that is neither queued nor      *)
(* active any more, with an attempts budget.                               *)
Submit(j, max) ==
  /\ Alone
  /\ Enqueueable(queue, j, JobsOf(active))
  /\ queue' = Enqueue(queue, j, max, 0, TRUE)
  /\ spent' = [spent EXCEPT ![j] = 0]
  /\ UNCHANGED <<active, closed, live, lastPid>>

(* start_one: the head entry, or the one named by --job-id.  Admission     *)
(* also proves that every record's process is live, but that proof comes   *)
(* before the launch and a job may end in between: it is no guard here.    *)
Start(e) ==
  /\ Alone
  /\ Room(queue, active)
  /\ lastPid' = lastPid + 1
  /\ live' = live \cup {[job |-> e.job, pid |-> lastPid']}
  /\ active' = WithRecord(active, Started(e, lastPid'))
  /\ queue' = Remove(queue, e)
  /\ spent' = [spent EXCEPT ![e.job] = @ + 1]
  /\ UNCHANGED closed

(* The job's process ends, whatever its status. *)
Exit(p) ==
  /\ live' = live \ {p}
  /\ UNCHANGED <<queue, active, closed, lastPid, spent, pass>>

(* reap of one record whose process is not live: closed and, while its     *)
(* budget lasts, queued again.                                             *)
Reap(r, terminal) ==
  /\ r \notin pass /\ r.pid \notin LivePids
  /\ closed' = AppendClosed(closed, Closing(r, terminal))
  /\ IF WillRequeue(r, terminal)
       THEN /\ Enqueueable(queue, r.job, {})
            /\ queue' = Requeue(queue, r)
       ELSE UNCHANGED queue
  /\ pass' = pass \cup {r}
  /\ UNCHANGED <<active, live, lastPid, spent>>

(* The re-queue is refused, by a full queue or because the job is queued   *)
(* already: reap raises, and the pass ends with its records closed, some   *)
(* of them queued again, and all of them still in active.json.             *)
ReapCut(r, terminal) ==
  /\ r \notin pass /\ r.pid \notin LivePids
  /\ WillRequeue(r, terminal) /\ ~Enqueueable(queue, r.job, {})
  /\ closed' = AppendClosed(closed, Closing(r, terminal))
  /\ pass' = {}
  /\ UNCHANGED <<queue, active, live, lastPid, spent>>

(* reap has dealt with every record and writes active.json.                *)
ReapEnds ==
  /\ active' = active \ pass
  /\ pass' = {}
  /\ UNCHANGED <<queue, closed, live, lastPid, spent>>

(* cancel_job: the process group is signalled and the record closed once   *)
(* the group is gone.  The proof of ownership comes before the signal, so  *)
(* the job may have ended by itself in between; it counts as cancelled all *)
(* the same.                                                               *)
Cancel(r) ==
  /\ Alone
  /\ live' = {p \in live : p.pid # r.pid}
  /\ closed' = AppendClosed(closed, Closing(r, "cancelled"))
  /\ active' = active \ {r}
  /\ UNCHANGED <<queue, lastPid, spent>>

Next ==
  \/ \E j \in Jobs, max \in 1..MaxAttemptsLimit : Submit(j, max)
  \/ \E e \in queue.entries : Start(e)
  \/ \E p \in live : Exit(p)
  \/ \E r \in active, t \in {"done", "failed", "crashed"} :
       Reap(r, t) \/ ReapCut(r, t)
  \/ ReapEnds
  \/ \E r \in active : Cancel(r)

Spec == Init /\ [][Next]_vars
-----------------------------------------------------------------------------
(* Every variable has its type; the sets are finite, and the closed        *)
(* document never outgrows its bound.                                      *)
TypeOK ==
  /\ queue \in QueueDoc /\ IsFiniteSet(queue.entries)
  /\ active \in SUBSET ActiveRecord /\ IsFiniteSet(active)
  /\ closed \in Seq(ClosedRecord) /\ Len(closed) <= MaxClosedRecords
  /\ live \in SUBSET Process
  /\ lastPid \in Nat
  /\ spent \in [Jobs -> Nat]
  /\ pass \in SUBSET active

(* A full queue is frozen: admission refuses every start, enqueue refuses  *)
(* every submission and re-queue, so no operation changes the queue again. *)
FullQueueFrozen ==
  [][Cardinality(queue.entries) >= MaxQueueEntries => UNCHANGED queue]_vars

(* A job that leaves the queue is started; a record a pass has dealt with  *)
(* is closed, and one leaves active.json only then or when it is cancelled.*)
NothingLost ==
  [][LET closes(r) == \E i \in DOMAIN closed' :
                         closed'[i].seq = r.seq /\ closed'[i].job = r.job
     IN /\ \A e \in queue.entries \ queue'.entries :
             \E r \in active' : r.job = e.job /\ r.seq = e.seq /\ r.max = e.max
        /\ \A r \in pass' \ pass : closes(r)
        /\ \A r \in active \ active' : r \in pass \/ closes(r)]_vars
=============================================================================
