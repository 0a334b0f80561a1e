------------------------------ MODULE MCRelease ------------------------------
(* One operator who releases a mission, and one who merges it meanwhile. *)
EXTENDS Release, TLC

CONSTANTS t1, t2, x0, x1

MCTools == {t1, t2}
MCCommands == [t \in MCTools |->
  IF t = t1 THEN AllCommands ELSE {"merge_handoff", "go_merge"}]
MCContents == {x0, x1}
MCSymmetry == Permutations(MCContents)
MCCiSets == {{"success"}, {"success", "queued"}}
==============================================================================
