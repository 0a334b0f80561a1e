----------------------------- MODULE MCDelivery -----------------------------
(* One runner and one operator of the release, whose checks are green. *)
EXTENDS Delivery, TLC

CONSTANTS w0, w1, t1

MCContents == {w0, w1}
MCCommands ==
  [t \in {t1} |-> {"handoff", "go_commit", "bind_pr", "watch_ci",
                   "merge_handoff", "go_merge", "closure"}]
MCCiSets == {{"success"}}
=============================================================================
