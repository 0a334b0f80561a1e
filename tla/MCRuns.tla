------------------------------- MODULE MCRuns -------------------------------
(* Runs with the sequence numbers bounded for TLC. *)
EXTENDS Runs

CONSTANT MaxSeq   \* bound: sequence numbers handed out

Bounded == queue.seq <= MaxSeq
=============================================================================
