--------------------------- MODULE ReviewedRelease ---------------------------
(* What a mission and its release promise together: the change that is     *)
(* committed was approved by a review, there is one such commit and one    *)
(* merge of it.                                                            *)
CONSTANTS Changes, Nothing

VARIABLES approved, committed, landed

released == <<approved, committed, landed>>

Init ==
  /\ approved = {}
  /\ committed = Nothing
  /\ landed = FALSE

Approve ==
  /\ \E c \in Changes : approved' = approved \cup {c}
  /\ UNCHANGED <<committed, landed>>

Commit ==
  /\ committed = Nothing
  /\ committed' \in approved
  /\ UNCHANGED <<approved, landed>>

Land ==
  /\ committed # Nothing
  /\ ~landed
  /\ landed' = TRUE
  /\ UNCHANGED <<approved, committed>>

Next == Approve \/ Commit \/ Land

Spec == Init /\ [][Next]_released
==============================================================================
