------------------------------- MODULE Release -------------------------------
(***************************************************************************)
(* The human-gated release of one mission (release/): its documents, the   *)
(* eight commands that move them, and the Git and GitHub state they act on.*)
(*                                                                         *)
(* No command takes a lock.  Every read that a later write relies on, every*)
(* document written and every call of Git or GitHub is a step of its own;  *)
(* a command stops between two steps when its process dies, when an adapter*)
(* fails or when a check refuses (Abandon).  Documents are replaced whole  *)
(* by write_json, so a write is one step.  A document that does not exist  *)
(* has commit, head or pull request number 0.                              *)
(***************************************************************************)
EXTENDS Naturals, Sequences, FiniteSets

CONSTANTS
  Tools,         \* processes that run a release command
  Commands,      \* the commands each of them is given
  Contents,      \* what the work tree may hold, each with a patch identity
  CiSets,        \* the sets of check-run states a commit may have
  MaxOutside,    \* bound on what others do meanwhile
  MaxCommits,    \* bound on the commits made
  MaxPulls       \* bound on the pull requests opened

AllCommands == {"handoff", "go_commit", "bind_pr", "watch_ci",
                "merge_handoff", "go_merge", "closure"}

RunStates == {"queued", "in_progress", "success", "failure", "cancelled",
              "unknown"}

ASSUME ReleaseAssumption ==
  /\ Commands \in [Tools -> SUBSET AllCommands]
  /\ CiSets \subseteq SUBSET RunStates
  /\ MaxCommits \in Nat \ {0}
  /\ MaxPulls \in Nat
  /\ MaxOutside \in Nat

VARIABLES
  evidence,  \* the review gate derived from the mission's documents
  worktree,  \* what the work tree holds
  commits,   \* the commits made, 1 is the baseline
  head,      \* the local HEAD
  tip,       \* the branch on the remote, 0 before the first push
  pulls,     \* the pull requests of the branch
  checks,    \* the check runs of each commit
  merged,    \* the merges into the base branch, in order
  doc,       \* the release documents
  pc,        \* the next step of each process
  local,     \* what each process keeps from its reads
  outside,   \* how often others acted, ChecksMove apart
  greenSeen, \* whether its commit was green since t's go-merge began
  torn       \* what commands that stopped left without a document

mission == <<evidence, worktree>>
repo == <<commits, head>>
github == <<tip, pulls, checks, merged>>
observed == <<greenSeen, torn>>
vars == <<mission, repo, github, doc, pc, local, outside, observed>>

------------------------------------------------------------------------------
Made == 1 .. Len(commits)

(* What a push of the current HEAD requires of the remote branch. *)
FastForward == tip \in commits[head].ancestors \cup {0}

(* The head GitHub shows for pull request p: an open one follows the branch. *)
PullHead(p) == IF pulls[p].state = "OPEN" THEN tip ELSE pulls[p].head

Open(p) == p \in DOMAIN pulls /\ pulls[p].state = "OPEN"

(* Fold the states of the check runs of one commit into one decision. *)
CombineCi(states) ==
  IF states = {} THEN "missing"
  ELSE IF "failure" \in states THEN "failure"
  ELSE IF "cancelled" \in states THEN "cancelled"
  ELSE IF "unknown" \in states THEN "unknown"
  ELSE IF states = {"success"} THEN "success"
  ELSE IF states \subseteq {"queued", "success"} THEN "queued"
  ELSE "in_progress"

Green(ci) == ci = "success"

CiStage(ci) ==
  CASE ci = "success"                     -> "CI_SUCCESS"
    [] ci \in {"queued", "in_progress"}   -> "CI_PENDING"
    [] OTHER                              -> "CI_FAILED"

Stages == {"NONE", "COMMIT_HANDOFF", "COMMITTED", "PR_BOUND", "CI_PENDING",
           "CI_SUCCESS", "CI_FAILED", "MERGE_HANDOFF", "MERGED", "RELEASED"}

CiStates == RunStates \cup {"missing"}

------------------------------------------------------------------------------
Blank == [head |-> 0, patch |-> "none", commit |-> 0,
          pr |-> 0, stage |-> "NONE", ci |-> "missing"]

Init ==
  /\ worktree \in Contents
  /\ evidence \in [ready : BOOLEAN, patch : {worktree}]
  /\ \E w \in Contents :
       commits = <<[content |-> w, ancestors |-> {1}, by |-> "others"]>>
  /\ head = 1
  /\ tip = 0
  /\ pulls = <<>>
  /\ checks = [c \in 1 .. MaxCommits |-> {}]
  /\ merged = <<>>
  /\ doc = [state         |-> [stage |-> "NONE", commit |-> 0],
            commitHandoff |-> [head |-> 0, patch |-> Blank.patch],
            commitResult  |-> [commit |-> 0, patch |-> Blank.patch],
            binding       |-> [commit |-> 0, pr |-> 0],
            ciStatus      |-> [commit |-> 0, ci |-> "missing"],
            mergeHandoff  |-> [commit |-> 0, pr |-> 0],
            mergeResult   |-> [pr |-> 0, verified |-> FALSE],
            closure       |-> [commit |-> 0, patch |-> Blank.patch,
                               verified |-> FALSE]]
  /\ pc = [t \in Tools |-> "idle"]
  /\ local = [t \in Tools |-> Blank]
  /\ outside = 0
  /\ greenSeen = [t \in Tools |-> FALSE]
  /\ torn = {}

(* The next step of t's command, with what it keeps. *)
Goto(t, from, to, keep) ==
  /\ pc[t] = from
  /\ pc' = [pc EXCEPT ![t] = to]
  /\ local' = [local EXCEPT ![t] = keep]

(* A step of t that only reads the documents, Git and GitHub. *)
Reads == UNCHANGED <<mission, repo, github, doc, observed>>

(* A step of t that replaces one document, the last of its command or not. *)
Writes(t, from, to, documents) ==
  /\ Goto(t, from, to, IF to = "idle" THEN Blank ELSE local[t])
  /\ doc' = documents
  /\ UNCHANGED <<mission, repo, github, observed>>

Stage(stage, commit) ==
  [doc EXCEPT !.state = [stage |-> stage, commit |-> commit]]

(* _require_committed: the release commit the state document names. *)
Committed(c) == doc.state.commit = c /\ c # 0

Begin(t, command) == command \in Commands[t] /\ pc[t] = "idle"

------------------------------------------------------------------------------
(* handoff: the GO COMMIT handoff for the reviewed patch and the exact HEAD. *)
Handoff(t) ==
  /\ Begin(t, "handoff")
  /\ evidence.ready
  /\ Goto(t, "idle", "h_write",
          [Blank EXCEPT !.head = head, !.patch = evidence.patch])
  /\ Reads

WriteCommitHandoff(t) ==
  Writes(t, "h_write", "h_state",
         [doc EXCEPT !.commitHandoff = [head  |-> local[t].head,
                                        patch |-> local[t].patch]])

(* Mutant: the stage is not looked at. *)
HandoffStageAny(t) == Goto(t, "h_state", "h_put", local[t]) /\ Reads

(* _write_state looks at the stage, then replaces the document. *)
HandoffStage(t) ==
  /\ doc.state.stage \in {"NONE", "COMMIT_HANDOFF"}
  /\ Goto(t, "h_state", "h_put", local[t])
  /\ Reads

HandoffKeepsStage(t) ==
  /\ doc.state.stage \notin {"NONE", "COMMIT_HANDOFF"}
  /\ Goto(t, "h_state", "idle", Blank)
  /\ Reads

WriteHandoffState(t) == Writes(t, "h_put", "idle", Stage("COMMIT_HANDOFF", 0))

------------------------------------------------------------------------------
(* Mutant: a release that is committed may be committed again. *)
GoCommitAgain(t) ==
  /\ Begin(t, "go_commit")
  /\ doc.commitHandoff.head # 0
  /\ Goto(t, "idle", "c_recheck", [Blank EXCEPT !.head  = doc.commitHandoff.head,
                                                !.patch = doc.commitHandoff.patch])
  /\ Reads

(* go-commit: recheck, stage everything, commit, push, record. *)
GoCommit(t) ==
  /\ Begin(t, "go_commit")
  /\ doc.commitHandoff.head # 0
  /\ doc.state.stage \in {"NONE", "COMMIT_HANDOFF"}
  /\ Goto(t, "idle", "c_recheck", [Blank EXCEPT !.head  = doc.commitHandoff.head,
                                                !.patch = doc.commitHandoff.patch])
  /\ Reads

RecheckCommit(t) ==
  /\ evidence.ready
  /\ evidence.patch = local[t].patch
  /\ head = local[t].head
  /\ Goto(t, "c_recheck", "c_commit", local[t])
  /\ Reads

NewCommit(content, parent, by) ==
  /\ Len(commits) < MaxCommits
  /\ commits' = Append(commits,
       [content   |-> content,
        ancestors |-> commits[parent].ancestors \cup {Len(commits) + 1},
        by        |-> by])

(* git add -A and git commit: it fails when there is nothing to commit. *)
CommitAll(t) ==
  /\ worktree # commits[head].content
  /\ Goto(t, "c_commit", "c_verify", local[t])
  /\ NewCommit(worktree, head, "release")
  /\ head' = Len(commits) + 1
  /\ UNCHANGED <<mission, github, doc, observed>>

(* The commit is the HEAD read afterwards, which must have moved. *)
ReadCommitted(t) ==
  /\ head # local[t].head
  /\ Goto(t, "c_verify", "c_head", [local[t] EXCEPT !.commit = head])
  /\ Reads

(* Mutant: the commit is recorded before it is pushed. *)
PushExpectsLater(t) ==
  /\ head = local[t].commit
  /\ Goto(t, "c_head", "c_result", local[t])
  /\ Reads

PushExpects(t) ==
  /\ head = local[t].commit
  /\ Goto(t, "c_head", "c_push", local[t])
  /\ Reads

(* The push sends what HEAD is now to the branch. *)
Push(t) ==
  /\ FastForward
  /\ Goto(t, "c_push", "c_result", local[t])
  /\ tip' = head
  /\ UNCHANGED <<mission, repo, pulls, checks, merged, doc, observed>>

WriteCommitResult(t) ==
  Writes(t, "c_result", "c_state",
         [doc EXCEPT !.commitResult = [commit |-> local[t].commit,
                                       patch  |-> local[t].patch]])

WriteCommitState(t) ==
  Writes(t, "c_state", "idle", Stage("COMMITTED", local[t].commit))

------------------------------------------------------------------------------
(* bind-pr: exactly one pull request for the exact commit. *)
BindPr(t) ==
  /\ Begin(t, "bind_pr")
  /\ \E c \in Made :
       /\ Committed(c)
       /\ doc.binding.commit # c
       /\ head = c
       /\ Goto(t, "idle", "b_find", [Blank EXCEPT !.commit = c])
  /\ Reads

(* Every pull request of the branch counts, whatever its state. *)
FindPull(t) ==
  /\ Len(pulls) = 1
  /\ PullHead(1) = local[t].commit
  /\ Goto(t, "b_find", "b_write", [local[t] EXCEPT !.pr = 1])
  /\ Reads

FindNoPull(t) ==
  /\ pulls = <<>>
  /\ Goto(t, "b_find", "b_create", local[t])
  /\ Reads

(* GitHub keeps one open pull request per branch and base. *)
CreatePull(t) ==
  /\ Len(pulls) < MaxPulls
  /\ tip # 0
  /\ \A p \in DOMAIN pulls : ~Open(p)
  /\ Goto(t, "b_create", "b_check", local[t])
  /\ pulls' = Append(pulls, [state |-> "OPEN", head |-> 0])
  /\ UNCHANGED <<mission, repo, tip, checks, merged, doc, observed>>

(* The pull requests of the branch are listed again, the newest is taken. *)
CheckPull(t) ==
  /\ Goto(t, "b_check", "b_write", [local[t] EXCEPT !.pr = Len(pulls)])
  /\ PullHead(Len(pulls)) = local[t].commit
  /\ Reads

WriteBinding(t) ==
  Writes(t, "b_write", "b_state",
         [doc EXCEPT !.binding = [commit |-> local[t].commit,
                                  pr     |-> local[t].pr]])

WriteBoundState(t) ==
  Writes(t, "b_state", "idle", Stage("PR_BOUND", local[t].commit))

------------------------------------------------------------------------------
(* watch-ci: the state of the checks of the exact commit, recorded. *)
WatchCi(t) ==
  /\ Begin(t, "watch_ci")
  /\ \E c \in Made :
       /\ Committed(c)
       /\ doc.binding.commit = c
       /\ Goto(t, "idle", "w_write",
               [Blank EXCEPT !.commit = c, !.ci = CombineCi(checks[c])])
  /\ Reads

WriteCiStatus(t) ==
  Writes(t, "w_write", "w_state",
         [doc EXCEPT !.ciStatus = [commit |-> local[t].commit,
                                   ci     |-> local[t].ci]])

WriteCiState(t) ==
  Writes(t, "w_state", "idle", Stage(CiStage(local[t].ci), local[t].commit))

------------------------------------------------------------------------------
(* _recheck: the bound pull request is open on the exact commit, ... *)
RecheckPull(t, from, to, keep) ==
  /\ doc.binding.commit = local[t].commit
  /\ Open(doc.binding.pr)
  /\ PullHead(doc.binding.pr) = local[t].commit
  /\ Goto(t, from, to, keep)
  /\ Reads

(* Mutant: checks that have not failed are enough. *)
RecheckCiUnfailed(t, from, to) ==
  /\ Committed(local[t].commit)
  /\ doc.binding.commit = local[t].commit
  /\ CombineCi(checks[local[t].commit]) # "failure"
  /\ Goto(t, from, to, [local[t] EXCEPT !.ci = CombineCi(checks[local[t].commit])])
  /\ Reads

(* ... and the checks of the commit the documents name are green. *)
RecheckCi(t, from, to) ==
  /\ Committed(local[t].commit)
  /\ doc.binding.commit = local[t].commit
  /\ Green(CombineCi(checks[local[t].commit]))
  /\ Goto(t, from, to, [local[t] EXCEPT !.ci = CombineCi(checks[local[t].commit])])
  /\ Reads

(* merge-handoff: every precondition verified, the gate written. *)
MergeHandoff(t) ==
  /\ Begin(t, "merge_handoff")
  /\ \E c \in Made :
       /\ Committed(c)
       /\ Goto(t, "idle", "m_pull",
               [Blank EXCEPT !.commit = c, !.stage = doc.state.stage])
  /\ Reads

HandoffPull(t) ==
  RecheckPull(t, "m_pull", "m_ci", [local[t] EXCEPT !.pr = doc.binding.pr])

HandoffCi(t) == RecheckCi(t, "m_ci", "m_write")

WriteMergeHandoff(t) ==
  Writes(t, "m_write", IF local[t].stage \in {"MERGED", "RELEASED"}
                       THEN "idle" ELSE "m_state",
         [doc EXCEPT !.mergeHandoff = [commit |-> local[t].commit,
                                       pr     |-> local[t].pr]])

(* The stage that forbids it was read when the command began. *)
WriteMergeHandoffState(t) ==
  Writes(t, "m_state", "idle", Stage("MERGE_HANDOFF", local[t].commit))

------------------------------------------------------------------------------
(* go-merge: recheck, merge with the expected head, verify, record. *)
GoMerge(t) ==
  /\ Begin(t, "go_merge")
  /\ doc.mergeResult.pr = 0
  /\ \E c \in Made :
       /\ Committed(c)
       /\ doc.mergeHandoff.commit = c
       /\ Goto(t, "idle", "g_pull",
               [Blank EXCEPT !.commit = c, !.pr = doc.mergeHandoff.pr])
       /\ greenSeen' = [greenSeen EXCEPT ![t] = Green(CombineCi(checks[c]))]
  /\ UNCHANGED <<mission, repo, github, doc, torn>>

MergePull(t) == RecheckPull(t, "g_pull", "g_ci", local[t])

MergeCi(t) == RecheckCi(t, "g_ci", "g_merge")

(* GitHub merges an open pull request whose head is the expected one. *)
Merge(t) ==
  /\ Open(local[t].pr)
  /\ PullHead(local[t].pr) = local[t].commit
  /\ Goto(t, "g_merge", "g_verify", local[t])
  /\ pulls' = [pulls EXCEPT ![local[t].pr] =
                 [state |-> "MERGED", head |-> local[t].commit]]
  /\ merged' = Append(merged, [pr |-> local[t].pr, commit |-> local[t].commit])
  /\ greenSeen' = [greenSeen EXCEPT ![t] = FALSE]
  /\ UNCHANGED <<mission, repo, tip, checks, doc, torn>>

(* Mutant: a merge the base branch does not show is an error. *)
VerifyMergeOrFail(t) ==
  /\ \E to \in {"g_verified", "idle"} :
       Goto(t, "g_verify", to, IF to = "idle" THEN Blank ELSE local[t])
  /\ Reads

(* branch_head may already show another merge, or fail to answer. *)
VerifyMerge(t) ==
  /\ \E to \in {"g_verified", "g_unverified"} :
       Goto(t, "g_verify", to, local[t])
  /\ Reads

WriteMergeResult(t) ==
  \E from \in {"g_verified", "g_unverified"} :
    Writes(t, from, "g_state",
           [doc EXCEPT !.mergeResult = [pr       |-> local[t].pr,
                                        verified |-> from = "g_verified"]])

WriteMergedState(t) ==
  Writes(t, "g_state", "idle", Stage("MERGED", local[t].commit))

------------------------------------------------------------------------------
(* Mutant: the merge result is not asked for. *)
ClosureUnmerged(t) ==
  /\ Begin(t, "closure")
  /\ doc.mergeHandoff.commit # 0
  /\ doc.binding.commit # 0
  /\ doc.commitResult.commit = doc.binding.commit
  /\ Goto(t, "idle", "k_write",
          [Blank EXCEPT !.commit = doc.commitResult.commit,
                        !.patch  = doc.commitHandoff.patch,
                        !.pr     = doc.binding.pr])
  /\ Reads

(* closure: the chain of documents, checked link by link. *)
Closure(t) ==
  /\ Begin(t, "closure")
  /\ doc.mergeResult.pr # 0
  /\ doc.mergeHandoff.commit # 0
  /\ doc.binding.commit # 0
  /\ doc.commitResult.commit = doc.binding.commit
  /\ Goto(t, "idle", "k_write",
          [Blank EXCEPT !.commit = doc.commitResult.commit,
                        !.patch  = doc.commitHandoff.patch,
                        !.pr     = doc.binding.pr])
  /\ Reads

(* The target branch shows the merge now, or did when it was merged. *)
WriteClosure(t) ==
  \E shown \in BOOLEAN :
    Writes(t, "k_write", "k_state",
           [doc EXCEPT !.closure =
              [commit   |-> local[t].commit,
               patch    |-> local[t].patch,
               verified |-> shown \/ doc.mergeResult.verified]])

WriteReleasedState(t) ==
  Writes(t, "k_state", "idle", Stage("RELEASED", local[t].commit))

------------------------------------------------------------------------------
(* A commit or a merge of the command that the next one does not see yet. *)
Unrecorded(step) ==
  (IF step \in {"c_verify", "c_head", "c_push", "c_result", "c_state"} THEN {"commit"} ELSE {})
    \cup (IF step \in {"g_verify", "g_verified", "g_unverified"} THEN {"merge"} ELSE {})

(* A command ends early: its process dies, a check or an adapter refuses. *)
Abandon(t) ==
  /\ pc[t] # "idle"
  /\ Goto(t, pc[t], "idle", Blank)
  /\ torn' = torn \cup Unrecorded(pc[t])
  /\ greenSeen' = [greenSeen EXCEPT ![t] = FALSE]
  /\ UNCHANGED <<mission, repo, github, doc>>

------------------------------------------------------------------------------
(* What happens outside: reviews of the mission, work in the checkout, *)
(* pushes of others to the branch, check runs, a pull request closed.  *)
Others ==
  /\ outside < MaxOutside
  /\ outside' = outside + 1
  /\ UNCHANGED <<doc, pc, local, observed>>

Review ==
  /\ evidence' = [ready |-> TRUE, patch |-> worktree]
  /\ UNCHANGED <<worktree, repo, github>>

Withdraw ==
  /\ evidence' = [evidence EXCEPT !.ready = FALSE]
  /\ UNCHANGED <<worktree, repo, github>>

Edit ==
  /\ worktree' \in Contents
  /\ UNCHANGED <<evidence, repo, github>>

CommitByHand ==
  /\ worktree # commits[head].content
  /\ NewCommit(worktree, head, "others")
  /\ head' = Len(commits) + 1
  /\ UNCHANGED <<mission, github>>

PushByOthers ==
  /\ tip # 0
  /\ \E w \in Contents : NewCommit(w, tip, "others")
  /\ tip' = Len(commits) + 1
  /\ UNCHANGED <<mission, head, pulls, checks, merged>>

ChecksMove ==
  /\ \E c \in Made \ {1}, s \in CiSets :
       /\ tip = c
       /\ checks' = [checks EXCEPT ![c] = s]
       /\ greenSeen' = [t \in Tools |->
            greenSeen[t] \/ /\ pc[t] \in {"g_pull", "g_ci", "g_merge"}
                            /\ local[t].commit = c
                            /\ Green(CombineCi(s))]
  /\ UNCHANGED <<mission, repo, tip, pulls, merged, doc, pc, local, outside, torn>>

CloseByHand ==
  /\ \E p \in DOMAIN pulls :
       /\ Open(p)
       /\ pulls' = [pulls EXCEPT ![p] = [state |-> "CLOSED", head |-> tip]]
  /\ UNCHANGED <<mission, repo, tip, checks, merged>>

Elsewhere ==
  \/ ChecksMove
  \/ /\ Review \/ Withdraw \/ Edit \/ CommitByHand \/ PushByOthers
         \/ CloseByHand
     /\ Others

------------------------------------------------------------------------------
CommitStep(t) ==
  \/ Handoff(t) \/ WriteCommitHandoff(t) \/ HandoffStage(t)
  \/ HandoffKeepsStage(t) \/ WriteHandoffState(t)
  \/ GoCommit(t) \/ RecheckCommit(t) \/ CommitAll(t) \/ ReadCommitted(t)
  \/ PushExpects(t) \/ Push(t) \/ WriteCommitResult(t) \/ WriteCommitState(t)

PullStep(t) ==
  \/ BindPr(t) \/ FindPull(t) \/ FindNoPull(t) \/ CreatePull(t) \/ CheckPull(t)
  \/ WriteBinding(t) \/ WriteBoundState(t)
  \/ WatchCi(t) \/ WriteCiStatus(t) \/ WriteCiState(t)

MergeStep(t) ==
  \/ MergeHandoff(t) \/ HandoffPull(t) \/ HandoffCi(t)
  \/ WriteMergeHandoff(t) \/ WriteMergeHandoffState(t)
  \/ GoMerge(t) \/ MergePull(t) \/ MergeCi(t) \/ Merge(t) \/ VerifyMerge(t)
  \/ WriteMergeResult(t) \/ WriteMergedState(t)
  \/ Closure(t) \/ WriteClosure(t) \/ WriteReleasedState(t)

Tool(t) == CommitStep(t) \/ PullStep(t) \/ MergeStep(t) \/ Abandon(t)

Next ==
  \/ (\E t \in Tools : Tool(t)) /\ UNCHANGED outside
  \/ Elsewhere

Spec == Init /\ [][Next]_vars

------------------------------------------------------------------------------
Steps == {"idle", "h_write", "h_state", "h_put", "c_recheck", "c_commit",
          "c_verify", "c_head", "c_push", "c_result", "c_state", "b_find",
          "b_create", "b_check", "b_write", "b_state", "w_write", "w_state",
          "m_pull", "m_ci", "m_write", "m_state", "g_pull", "g_ci", "g_merge",
          "g_verify", "g_verified", "g_unverified", "g_state", "k_write",
          "k_state"}

Shas == 0 .. MaxCommits
Numbers == 0 .. MaxPulls
Identities == Contents \cup {"none"}
Kept == [head : Shas, patch : Identities, commit : Shas, pr : Numbers,
         stage : Stages, ci : CiStates]

Documents ==
  [state         : [stage : Stages, commit : Shas],
   commitHandoff : [head : Shas, patch : Identities],
   commitResult  : [commit : Shas, patch : Identities],
   binding       : [commit : Shas, pr : Numbers],
   ciStatus      : [commit : Shas, ci : CiStates],
   mergeHandoff  : [commit : Shas, pr : Numbers],
   mergeResult   : [pr : Numbers, verified : BOOLEAN],
   closure       : [commit : Shas, patch : Identities, verified : BOOLEAN]]

(* The type invariant: the documents, the repository and the processes. *)
TypeOK ==
  /\ evidence \in [ready : BOOLEAN, patch : Contents]
  /\ worktree \in Contents
  /\ commits \in Seq([content : Contents, ancestors : SUBSET Shas,
                      by : {"release", "others"}])
  /\ Len(commits) \in 1 .. MaxCommits
  /\ head \in Made
  /\ tip \in Made \cup {0}
  /\ pulls \in Seq([state : {"OPEN", "CLOSED", "MERGED"}, head : Shas])
  /\ Len(pulls) \in Numbers
  /\ checks \in [1 .. MaxCommits -> CiSets \cup {{}}]
  /\ merged \in Seq([pr : Numbers, commit : Shas])
  /\ doc \in Documents
  /\ pc \in [Tools -> Steps]
  /\ local \in [Tools -> Kept]
  /\ outside \in 0 .. MaxOutside
  /\ greenSeen \in [Tools -> BOOLEAN]
  /\ torn \subseteq {"commit", "merge"}

(* A merge is made only by a go-merge during which the checks of the exact *)
(* commit it merges were all green (merge_gate._recheck).                  *)
MergedWhileGreen ==
  [][merged' # merged =>
       \E t \in Tools : /\ pc[t] = "g_merge" /\ greenSeen[t]
                        /\ merged'[Len(merged')].commit = local[t].commit]_vars

(* A merge GitHub made is in merge-result.json unless the go-merge that    *)
(* made it is still at work or stopped before it could write it.           *)
MergeRecorded ==
  \/ merged = <<>>
  \/ doc.mergeResult.pr # 0
  \/ \E t \in Tools : Unrecorded(pc[t]) = {"merge"}
  \/ "merge" \in torn

(* The commit of the release state is on the remote branch. *)
CommittedIsPushed ==
  doc.state.commit # 0 => /\ tip # 0
                          /\ doc.state.commit \in commits[tip].ancestors

(* release-closure.json names a commit that was merged. *)
ClosureTruth ==
  doc.closure.commit # 0 =>
    \E i \in DOMAIN merged : merged[i].commit = doc.closure.commit

(* A release is merged at most once, and commits once unless a go-commit   *)
(* stopped between the commit and its record.                              *)
ReleasedOnce ==
  /\ Len(merged) <= 1
  /\ \/ Cardinality({c \in Made : commits[c].by = "release"}) <= 1
     \/ "commit" \in torn

(* The release commit, once recorded, is never replaced or forgotten. *)
CommitKept ==
  [][doc.state.commit # 0 => doc'.state.commit = doc.state.commit]_vars
==============================================================================
