------------------------------ MODULE Delivery ------------------------------
(***************************************************************************)
(* A mission and its release over one workspace: the release commands act  *)
(* on the review gate they derive from the mission's documents, while      *)
(* runners and the operator of the mission go on writing them.             *)
(***************************************************************************)
EXTENDS Mission, Sequences

CONSTANTS Tools, Commands, CiSets, MaxCommits, MaxPulls, Nothing

VARIABLES commits, head, tip, pulls, checks, merged, doc, step, local,
          greenSeen, unrecorded

releaseVars == <<commits, head, tip, pulls, checks, merged, doc, step, local,
                 greenSeen, unrecorded>>
deliveryVars == <<missionVars, releaseVars>>

------------------------------------------------------------------------------
(* _fresh_review: the last evidence of a patch is its passing review. *)
Fresh(patch) ==
  evidence = [kind |-> "REVIEW_COMPLETED", patch |-> patch, pass |-> TRUE]

(* The closure's patch, the status' when the closure has none. *)
Recorded(ofClosure, ofStatus) ==
  IF ofClosure # NoPatch THEN ofClosure ELSE ofStatus

Reviewed == Recorded(closure.reviewed, status.reviewed)
Current == Recorded(closure.current, status.current)

(* derive_review_gate: the closed mission is ready, its review fresh. *)
Gate ==
  /\ closure.life = "COMPLETE"
  /\ closure.ready = "READY_FOR_COMMIT"
  /\ status.active
  /\ Current # NoPatch
  /\ Reviewed = Current
  /\ Fresh(Current)

(* A patch of the mission is known by what it leaves in the workspace. *)
ReviewGate ==
  [ready |-> Gate, patch |-> IF Reviewed = NoPatch THEN workspace ELSE Reviewed[2]]

R == INSTANCE Release WITH
  evidence <- ReviewGate, worktree <- workspace, pc <- step,
  torn <- unrecorded, outside <- 0, MaxOutside <- 0

Init == MissionInit /\ R!Init

(* The mission's runners and its operator. *)
MissionMoves == MissionNext /\ UNCHANGED releaseVars

(* The release commands, and the check runs of the branch. *)
ReleaseMoves ==
  /\ UNCHANGED missionVars
  /\ (\E t \in Tools : R!Tool(t)) \/ R!ChecksMove

Next == MissionMoves \/ ReleaseMoves

Spec == Init /\ [][Next]_deliveryVars

FairSpec ==
  Spec /\ \A r \in Runners : WF_missionVars(PhaseStep(r) \/ RunStep(r))

------------------------------------------------------------------------------
(* Mission and release implement the promise of a reviewed release: what   *)
(* the work tree held when a review passed is what is committed, and it is *)
(* committed and merged once (assembly/, release/).                        *)
Promise == INSTANCE ReviewedRelease WITH
  Changes   <- Contents,
  approved  <- {p[2] : p \in passed},
  committed <- IF Len(commits) = 1 THEN Nothing ELSE commits[2].content,
  landed    <- merged # <<>>

Delivers == Promise!Spec
==============================================================================
