----------------------------- MODULE RunsState -----------------------------
(***************************************************************************)
(* What the orchestrator's tools share: the three documents of its state   *)
(* root and the processes of its jobs, and what the documents should say   *)
(* of the processes and of each other.                                     *)
(***************************************************************************)
EXTENDS RunsStore

VARIABLES
  queue,    \* queue.json
  active,   \* active.json, as a set of records
  closed,   \* closed.json
  live,     \* processes running a job: [job, pid]
  lastPid,  \* launches so far; a fresh process and token for each
  spent     \* history: launches of each job since it was last submitted

Process == [job: Jobs, pid: Nat]
LivePids == {p.pid : p \in live}
-----------------------------------------------------------------------------
(* A job has one home: no two entries, no two records, and an entry and a  *)
(* record (the DUPLICATE_IDENTITY rule of store.py and admission.py) only  *)
(* where a pass of reap has queued the job again and not dropped its       *)
(* record: the process is gone, and the entry carries on the record's      *)
(* attempts and budget, without its specification.                         *)
OneHome ==
  /\ \A e, f \in queue.entries : e.job = f.job => e = f
  /\ \A r, s \in active : r.job = s.job => r = s
  /\ \A e \in queue.entries, r \in active :
       e.job = r.job => /\ r.pid \notin LivePids
                        /\ e.attempts = r.attempts /\ e.max = r.max /\ ~e.spec

(* Every process that runs a job has a record that names it, so it can be  *)
(* cancelled, reaped and counted by admission.                             *)
Accounted ==
  \A p \in live : \E r \in active : r.pid = p.pid /\ r.job = p.job

(* No more processes run than the capacity admission was given. *)
WithinCapacity == Cardinality(active) <= Capacity

(* Re-queueing never loops: the attempts a job's entry or record counts    *)
(* are the launches it really had since it was submitted, a queued job has *)
(* an attempt left and a started one has not exceeded its budget.          *)
Budget ==
  /\ \A e \in queue.entries : spent[e.job] = e.attempts /\ e.attempts < e.max
  /\ \A r \in active : spent[r.job] = r.attempts /\ r.attempts <= r.max

(* A sequence number names one attempt: no two entries and no two records  *)
(* share one, nor do an entry and anything else; a closed record shares it *)
(* only with the record it closes and with another closing of that attempt *)
(* by a pass that was cut (terminal_map relies on it).                     *)
SeqUnique ==
  /\ \A e, f \in queue.entries : e.seq = f.seq => e = f
  /\ \A r, s \in active : r.seq = s.seq => r = s
  /\ \A e \in queue.entries, r \in active : e.seq # r.seq
  /\ \A i \in DOMAIN closed :
       /\ \A k \in DOMAIN closed : closed[i].seq = closed[k].seq =>
            closed[i].job = closed[k].job /\ closed[i].attempts = closed[k].attempts
       /\ \A e \in queue.entries : closed[i].seq # e.seq
       /\ \A r \in active : closed[i].seq = r.seq =>
            closed[i].job = r.job /\ closed[i].attempts = r.attempts
  /\ \A e \in queue.entries : e.seq <= queue.seq
  /\ \A r \in active : r.seq <= queue.seq
  /\ \A i \in DOMAIN closed : closed[i].seq <= queue.seq
=============================================================================
