--------------------------- MODULE RunsRefinement ---------------------------
(***************************************************************************)
(* RunsFiles implements Runs while one tool works on the files at a time,  *)
(* but for the deaths of tools: each operation takes effect at one step.   *)
(*   start_one   when the process is launched, before either save          *)
(*   reap        record by record, when closed.json is written, and at its *)
(*               end, when active.json is                                  *)
(*   cancel_job  when the process group is gone, before the documents know *)
(*   enqueue     when queue.json is saved                                  *)
(* Until its last save a tool's memory holds the documents that are due.   *)
(***************************************************************************)
EXTENDS RunsFiles

Doing(t, labels) == pc[t] \in labels

Busy(labels) == \E t \in Tools : Doing(t, labels)

The(labels) == CHOOSE t \in Tools : Doing(t, labels)

Starting == {"save_active", "save_queue"}
Reaping == {"reap", "reap_close"}
Cancelling == {"cancel_read", "cancel_close", "cancel_save"}

(* The pass of reap at work will get its last record queued again. *)
Requeuing(t) ==
  Doing(t, {"requeue"}) /\ Enqueueable(mem[t].queue, hand[t].record.job, {})

(* queue.json as it will be once the tool at work has saved it. *)
QueueDue ==
  IF Busy(Starting) THEN mem[The(Starting)].startQueue
  ELSE IF Busy({"requeue"}) THEN LET t == The({"requeue"}) IN
                                 IF Requeuing(t)
                                   THEN Requeue(mem[t].queue, hand[t].record)
                                   ELSE queue
  ELSE queue

ActiveDue ==
  IF Busy({"save_active"}) THEN mem[The({"save_active"})].startActive
  ELSE IF Busy(Cancelling) THEN active \ {hand[The(Cancelling)].record}
  ELSE active

(* What a pass of reap has dropped in its memory; nothing once it is cut.  *)
PassDue ==
  IF Busy(Reaping) THEN active \ mem[The(Reaping)].active
  ELSE IF Busy({"requeue"}) THEN LET t == The({"requeue"}) IN
                                 IF Requeuing(t)
                                   THEN (active \ mem[t].active) \cup {hand[t].record}
                                   ELSE {}
  ELSE {}

ClosedDue ==
  IF Busy(Cancelling \ {"cancel_save"})
    THEN AppendClosed(closed, Closing(hand[The(Cancelling)].record, "cancelled"))
    ELSE closed

Promise == INSTANCE Runs WITH queue <- QueueDue, active <- ActiveDue,
                              closed <- ClosedDue, pass <- PassDue

(* Whatever a tool does, other than dying, is what the atomic orchestrator *)
(* does, also after the death of another one.                              *)
Implements ==
  Promise!Init /\ [][crashes' = crashes => [Promise!Next]_Promise!vars]_vars
=============================================================================
