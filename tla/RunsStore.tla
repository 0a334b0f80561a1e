----------------------------- MODULE RunsStore -----------------------------
(***************************************************************************)
(* The durable documents of the multi-run orchestrator and the operations  *)
(* on them: queue.json, active.json and closed.json (runs/store.py), and   *)
(* the admission decision computed from them (runs/admission.py).          *)
(*                                                                         *)
(* Abstractions.  Job ids, commands and job specifications are model       *)
(* values; of a specification only its presence is kept, because a         *)
(* re-queued entry loses it and the supervisor then skips the entry.       *)
(* Lists whose order the code restores on every load (the queue, sorted by *)
(* seq) are sets; timestamps, workspaces and log paths are left out.       *)
(* retry_wait is left out: every writer in the code stores 0.              *)
(***************************************************************************)
EXTENDS Integers, FiniteSets, Sequences

CONSTANTS
  Jobs,              \* the job identities operators submit
  Capacity,          \* concurrent proven jobs admission allows
  MaxQueueEntries,   \* model.MAX_QUEUE_ENTRIES (64 in the code)
  MaxClosedRecords,  \* model.MAX_CLOSED_RECORDS (256 in the code)
  MaxAttemptsLimit   \* model.MAX_ATTEMPTS_LIMIT (3 in the code)

ASSUME StoreConstants ==
  /\ Capacity \in Nat \ {0}                 \* at most model.MAX_CAPACITY (16)
  /\ MaxQueueEntries \in Nat \ {0}
  /\ MaxClosedRecords \in Nat \ {0} /\ Capacity <= MaxClosedRecords
  /\ MaxAttemptsLimit \in Nat \ {0}

(* The terminal outcomes a closed record may carry. *)
Terminals == {"done", "failed", "crashed", "cancelled"}

(* A queued job: attempts is the number of attempts already consumed. *)
QueueEntry ==
  [job: Jobs, seq: Nat, attempts: Nat, max: 1..MaxAttemptsLimit, spec: BOOLEAN]

QueueDoc == [seq: Nat, entries: SUBSET QueueEntry]

EmptyQueue == [seq |-> 0, entries |-> {}]

(* A started job: attempts counts the current one, pid stands for the      *)
(* process and its launch token, which no two launches share.              *)
ActiveRecord ==
  [job: Jobs, seq: Nat, attempts: Nat, max: 1..MaxAttemptsLimit, pid: Nat]

ClosedRecord == [job: Jobs, seq: Nat, attempts: Nat, terminal: Terminals]

JobsOf(records) == {r.job : r \in records}

-----------------------------------------------------------------------------
(* Queue operations. *)

(* Mutant: the active identities are not reserved. *)
EnqueueableIgnoringActive(q, j, reserved) ==
  /\ j \notin JobsOf(q.entries)
  /\ Cardinality(q.entries) < MaxQueueEntries

(* An identity already queued or reserved, and a full queue, are refused. *)
Enqueueable(q, j, reserved) ==
  /\ j \notin JobsOf(q.entries) \cup reserved
  /\ Cardinality(q.entries) < MaxQueueEntries

(* QueueDoc.enqueue and QueueDoc.enqueue_spec: the new entry takes the next *)
(* sequence number; a fresh job has consumed no attempt and has its spec.   *)
Enqueue(q, j, max, attempts, spec) ==
  [seq     |-> q.seq + 1,
   entries |-> q.entries \cup
                 {[job |-> j, seq |-> q.seq + 1, attempts |-> attempts,
                   max |-> max, spec |-> spec]}]

Remove(q, e) == [q EXCEPT !.entries = @ \ {e}]

-----------------------------------------------------------------------------
(* Closed records. *)

(* append_closed_record keeps the newest MaxClosedRecords records. *)
AppendClosed(c, r) ==
  IF Len(c) < MaxClosedRecords THEN Append(c, r) ELSE Append(Tail(c), r)

ClosedJobs(c) == {c[i].job : i \in DOMAIN c}

(* The terminal of the record of j with the highest sequence number; of    *)
(* records that share it the first one wins, as in the code's strict >.    *)
Latest(c, j) ==
  CHOOSE i \in DOMAIN c :
    /\ c[i].job = j
    /\ \A k \in DOMAIN c : c[k].job = j =>
         \/ c[i].seq > c[k].seq
         \/ c[i].seq = c[k].seq /\ i <= k

TerminalMap(c) == [j \in ClosedJobs(c) |-> c[Latest(c, j)].terminal]

-----------------------------------------------------------------------------
(* Admission and the transitions between documents. *)

(* evaluate_admission over the documents: every record must be proven      *)
(* (live is the set of pids that are), and there must be room: a record    *)
(* less than the capacity, a queue that is not full, no identity in both   *)
(* documents.                                                              *)
Room(q, act) ==
  /\ Cardinality(act) < Capacity
  /\ Cardinality(q.entries) < MaxQueueEntries
  /\ JobsOf(act) \cap JobsOf(q.entries) = {}

Admitted(q, act, live) == (\A r \in act : r.pid \in live) /\ Room(q, act)

(* Mutant: the attempt is not counted. *)
StartedUncounted(e, p) ==
  [job |-> e.job, seq |-> e.seq, attempts |-> e.attempts, max |-> e.max,
   pid |-> p]

(* start_one: the record written for entry e, launched as process p. *)
Started(e, p) ==
  [job |-> e.job, seq |-> e.seq, attempts |-> e.attempts + 1, max |-> e.max,
   pid |-> p]

(* start_one: an older record of the same job gives way to the new one. *)
WithRecord(act, r) == {s \in act : s.job # r.job} \cup {r}

Closing(r, terminal) ==
  [job |-> r.job, seq |-> r.seq, attempts |-> r.attempts,
   terminal |-> terminal]

(* reap: a job that is not done and has attempts left is queued again. *)
WillRequeue(r, terminal) == terminal # "done" /\ r.attempts < r.max

Requeue(q, r) == Enqueue(q, r.job, r.max, r.attempts, FALSE)
=============================================================================
