---------------------------- MODULE ReleaseProofs ----------------------------
(***************************************************************************)
(* Proofs about Release: for any number of operators, commands, commits    *)
(* and pull requests, however commands interleave and wherever they stop.  *)
(* Three facts are kept by every step: what a command knows of the checks  *)
(* it merges on, the pull request it has merged, and that a commit which   *)
(* has reached the remote branch stays on it.  Then the chain of documents:*)
(* where one process is given the commands that commit and open the pull   *)
(* request, a release has one commit, one merge, and a closure that tells  *)
(* the truth about them, however many processes watch, merge and close     *)
(* beside it.                                                              *)
(***************************************************************************)
EXTENDS Release, FiniteSetTheorems, TLAPS

Commit == [content : Contents, ancestors : SUBSET Shas,
           by : {"release", "others"}]
Pull == [state : {"OPEN", "CLOSED", "MERGED"}, head : Shas]

(* TypeOK in its parts. *)
RepoType ==
  /\ commits \in Seq(Commit) /\ Len(commits) \in 1 .. MaxCommits
  /\ head \in Made /\ tip \in Made \cup {0}

HubType ==
  /\ pulls \in Seq(Pull) /\ Len(pulls) \in Numbers
  /\ checks \in [1 .. MaxCommits -> CiSets \cup {{}}]
  /\ merged \in Seq([pr : Numbers, commit : Shas])

ToolType == pc \in [Tools -> Steps] /\ local \in [Tools -> Kept]

RestType ==
  /\ evidence \in [ready : BOOLEAN, patch : Contents]
  /\ worktree \in Contents
  /\ outside \in 0 .. MaxOutside
  /\ greenSeen \in [Tools -> BOOLEAN]
  /\ torn \subseteq {"commit", "merge"}

Typed == RepoType /\ HubType /\ ToolType /\ RestType /\ doc \in Documents

LEMMA TypedIsTypeOK == Typed => TypeOK
BY DEF Typed, TypeOK, RepoType, HubType, ToolType, RestType, Commit, Pull

(* A command's step leaves what the other commands do alone.               *)
LEMMA GotoMoves ==
  ASSUME ToolType, NEW t \in Tools, NEW from, NEW to \in Steps,
         NEW keep \in Kept, Goto(t, from, to, keep)
  PROVE  /\ ToolType' /\ pc[t] = from /\ pc'[t] = to /\ local'[t] = keep
         /\ \A u \in Tools \ {t} : pc'[u] = pc[u] /\ local'[u] = local[u]
BY DEF ToolType, Goto

(* Nothing is kept by a command that has not begun.                        *)
LEMMA BlankKept == Blank \in Kept
BY ReleaseAssumption
DEF Blank, Kept, Shas, Numbers, Identities, Stages, CiStates, RunStates

(* A set of check states has a name.                                       *)
LEMMA CombineCiType ==
  ASSUME NEW states PROVE CombineCi(states) \in CiStates
BY DEF CombineCi, CiStates, RunStates

------------------------------------------------------------------------------
(* The state at first is of its type.                                      *)
LEMMA InitTyped == Init => Typed
<1> SUFFICES ASSUME Init PROVE Typed
  OBVIOUS
<1> USE ReleaseAssumption
<1>1. RepoType
  BY DEF Init, RepoType, Commit, Made, Shas
<1>2. HubType
  BY DEF Init, HubType, Pull, Numbers
<1>3. ToolType
  BY BlankKept DEF Init, ToolType, Steps
<1>4. RestType
  BY DEF Init, RestType
<1>5. doc \in Documents
  BY DEF Init, Documents, Blank, Shas, Numbers, Identities, Stages, CiStates
<1> QED BY <1>1, <1>2, <1>3, <1>4, <1>5 DEF Typed

(* A step that only reads.                                                 *)
LEMMA ReadsTyped ==
  ASSUME Typed, ToolType', Reads, outside' = outside PROVE Typed'
BY DEF Typed, Reads, mission, repo, github, observed, RepoType, HubType,
             RestType, Made

(* A step that replaces a document.                                        *)
LEMMA WritesTyped ==
  ASSUME Typed, NEW t \in Tools, NEW from, NEW to \in Steps,
         NEW documents \in Documents, Writes(t, from, to, documents),
         outside' = outside
  PROVE  Typed'
<1>1. ToolType'
  BY GotoMoves, BlankKept DEF Writes, ToolType, Typed
<1> QED BY <1>1
    DEF Typed, Writes, mission, repo, github, observed, RepoType, HubType, RestType, Made

(* What a command keeps when it begins and learns something.               *)
LEMMA KeptTyped ==
  ASSUME Typed, NEW t \in Tools
  PROVE  /\ local[t] \in Kept
         /\ \A c \in Shas, p \in Identities, n \in Numbers, s \in Stages, ci \in CiStates :
              [head |-> c, patch |-> p, commit |-> c, pr |-> n, stage |-> s, ci |-> ci]
                \in Kept
         /\ Made \subseteq Shas /\ head \in Shas /\ tip \in Shas
         /\ "none" \in Identities /\ 0 \in Numbers
         /\ evidence.patch \in Identities
         /\ doc.commitHandoff.head \in Shas /\ doc.commitHandoff.patch \in Identities
         /\ doc.commitResult.commit \in Shas /\ doc.binding.pr \in Numbers
         /\ doc.mergeHandoff.pr \in Numbers /\ doc.state.stage \in Stages
BY ReleaseAssumption DEF Typed, ToolType, RepoType, RestType, Documents, Kept,
   Shas, Numbers, Identities, Made

(* The steps of go-commit and handoff that read.                           *)
LEMMA CommitReadsTyped ==
  ASSUME Typed, NEW t \in Tools, outside' = outside,
         \/ Handoff(t) \/ HandoffStage(t) \/ HandoffKeepsStage(t) \/ GoCommit(t)
         \/ RecheckCommit(t) \/ ReadCommitted(t) \/ PushExpects(t)
  PROVE  Typed'
<1> USE KeptTyped, BlankKept
<1>0. \E from, to \in Steps, keep \in Kept : Goto(t, from, to, keep) /\ Reads
  <2>1. CASE Handoff(t)
    <3>1. [Blank EXCEPT !.head = head, !.patch = evidence.patch] \in Kept
      BY DEF Kept, Blank
    <3> QED BY <2>1, <3>1 DEF Handoff, Steps
  <2>2. CASE GoCommit(t)
    <3>1. [Blank EXCEPT !.head = doc.commitHandoff.head,
                        !.patch = doc.commitHandoff.patch] \in Kept
      BY DEF Kept, Blank
    <3> QED BY <2>2, <3>1 DEF GoCommit, Steps
  <2>3. CASE ReadCommitted(t)
    <3>1. [local[t] EXCEPT !.commit = head] \in Kept
      BY DEF Kept
    <3> QED BY <2>3, <3>1 DEF ReadCommitted, Steps
  <2>4. CASE HandoffStage(t) \/ HandoffKeepsStage(t) \/ RecheckCommit(t)
             \/ PushExpects(t)
    BY <2>4 DEF HandoffStage, HandoffKeepsStage, RecheckCommit, PushExpects, Steps
  <2> QED BY <2>1, <2>2, <2>3, <2>4
<1>1. ToolType'
  BY <1>0, GotoMoves DEF Typed
<1> QED BY <1>0, <1>1, ReadsTyped

(* The steps about the pull request and its checks that read.              *)
LEMMA PullReadsTyped ==
  ASSUME Typed, NEW t \in Tools, outside' = outside,
         \/ BindPr(t) \/ FindPull(t) \/ FindNoPull(t) \/ CheckPull(t)
         \/ WatchCi(t) \/ MergeHandoff(t) \/ HandoffPull(t) \/ HandoffCi(t)
         \/ MergePull(t) \/ MergeCi(t) \/ VerifyMerge(t) \/ Closure(t)
  PROVE  Typed'
<1> USE KeptTyped, BlankKept
<1>0. \E from, to \in Steps, keep \in Kept : Goto(t, from, to, keep) /\ Reads
  <2>1. CASE BindPr(t) \/ WatchCi(t) \/ MergeHandoff(t)
    <3>1. \A c \in Made, ci \in CiStates :
            /\ [Blank EXCEPT !.commit = c] \in Kept
            /\ [Blank EXCEPT !.commit = c, !.ci = ci] \in Kept
            /\ [Blank EXCEPT !.commit = c, !.stage = doc.state.stage] \in Kept
      BY DEF Kept, Blank
    <3> QED BY <2>1, <3>1, CombineCiType DEF BindPr, WatchCi, MergeHandoff, Steps
  <2>2. CASE FindPull(t) \/ CheckPull(t)
    <3>1. Len(pulls) \in Numbers /\ (Len(pulls) = 1 => 1 \in Numbers)
      BY DEF Typed, HubType
    <3>2. \A p \in Numbers : [local[t] EXCEPT !.pr = p] \in Kept
      BY DEF Kept
    <3> QED BY <2>2, <3>1, <3>2 DEF FindPull, CheckPull, Steps
  <2>3. CASE HandoffPull(t) \/ MergePull(t)
    <3>1. [local[t] EXCEPT !.pr = doc.binding.pr] \in Kept
      BY DEF Kept
    <3> QED BY <2>3, <3>1 DEF HandoffPull, MergePull, RecheckPull, Steps
  <2>4. CASE HandoffCi(t) \/ MergeCi(t)
    <3>1. [local[t] EXCEPT !.ci = CombineCi(checks[local[t].commit])] \in Kept
      BY CombineCiType DEF Kept
    <3> QED BY <2>4, <3>1 DEF HandoffCi, MergeCi, RecheckCi, Steps
  <2>5. CASE Closure(t)
    <3>1. [Blank EXCEPT !.commit = doc.commitResult.commit,
                        !.patch  = doc.commitHandoff.patch,
                        !.pr     = doc.binding.pr] \in Kept
      BY DEF Kept, Blank
    <3> QED BY <2>5, <3>1 DEF Closure, Steps
  <2>6. CASE FindNoPull(t) \/ VerifyMerge(t)
    BY <2>6 DEF FindNoPull, VerifyMerge, Steps
  <2> QED BY <2>1, <2>2, <2>3, <2>4, <2>5, <2>6
<1>1. ToolType'
  BY <1>0, GotoMoves DEF Typed
<1> QED BY <1>0, <1>1, ReadsTyped

(* A command that stops.                                                   *)
LEMMA AbandonTyped ==
  ASSUME Typed, NEW t \in Tools, outside' = outside, Abandon(t) PROVE Typed'
<1>1. ToolType'
  BY BlankKept, GotoMoves DEF Abandon, Typed, Steps
<1>2. RestType'
  BY DEF Abandon, Typed, RestType, mission, Unrecorded
<1> QED BY <1>1, <1>2 DEF Abandon, Typed, repo, github, RepoType, HubType, Made

(* The documents a command writes.                                         *)
LEMMA CommitWritesTyped ==
  ASSUME Typed, NEW t \in Tools, outside' = outside,
         \/ WriteCommitHandoff(t) \/ WriteHandoffState(t) \/ WriteCommitResult(t)
         \/ WriteCommitState(t) \/ WriteBinding(t) \/ WriteBoundState(t)
         \/ WriteCiStatus(t)
  PROVE  Typed'
<1> USE KeptTyped
<1>0. doc \in Documents
  BY DEF Typed
<1>1. local[t].commit \in Shas /\ local[t].head \in Shas /\ local[t].pr \in Numbers
      /\ local[t].patch \in Identities /\ local[t].ci \in CiStates /\ 0 \in Shas
  BY ReleaseAssumption DEF Kept, Shas
<1>2. \E from, to \in Steps, documents \in Documents : Writes(t, from, to, documents)
  <2>1. CASE WriteCommitHandoff(t)
    <3>1. [doc EXCEPT !.commitHandoff = [head |-> local[t].head, patch |-> local[t].patch]]
            \in Documents
      BY <1>0, <1>1 DEF Documents
    <3> QED BY <2>1, <3>1 DEF WriteCommitHandoff, Steps
  <2>2. CASE WriteHandoffState(t) \/ WriteCommitState(t) \/ WriteBoundState(t)
    <3>1. /\ Stage("COMMIT_HANDOFF", 0) \in Documents
          /\ Stage("COMMITTED", local[t].commit) \in Documents
          /\ Stage("PR_BOUND", local[t].commit) \in Documents
      BY <1>0, <1>1 DEF Documents, Stage, Stages
    <3> QED BY <2>2, <3>1 DEF WriteHandoffState, WriteCommitState, WriteBoundState, Steps
  <2>3. CASE WriteCommitResult(t)
    <3>1. [doc EXCEPT !.commitResult = [commit |-> local[t].commit,
                                        patch |-> local[t].patch]] \in Documents
      BY <1>0, <1>1 DEF Documents
    <3> QED BY <2>3, <3>1 DEF WriteCommitResult, Steps
  <2>4. CASE WriteBinding(t)
    <3>1. [doc EXCEPT !.binding = [commit |-> local[t].commit, pr |-> local[t].pr]]
            \in Documents
      BY <1>0, <1>1 DEF Documents
    <3> QED BY <2>4, <3>1 DEF WriteBinding, Steps
  <2>5. CASE WriteCiStatus(t)
    <3>1. [doc EXCEPT !.ciStatus = [commit |-> local[t].commit, ci |-> local[t].ci]]
            \in Documents
      BY <1>0, <1>1 DEF Documents
    <3> QED BY <2>5, <3>1 DEF WriteCiStatus, Steps
  <2> QED BY <2>1, <2>2, <2>3, <2>4, <2>5
<1> QED BY <1>2, WritesTyped

LEMMA MergeWritesTyped ==
  ASSUME Typed, NEW t \in Tools, outside' = outside,
         \/ WriteCiState(t) \/ WriteMergeHandoff(t) \/ WriteMergeHandoffState(t)
         \/ WriteMergeResult(t) \/ WriteMergedState(t) \/ WriteClosure(t)
         \/ WriteReleasedState(t)
  PROVE  Typed'
<1> USE KeptTyped
<1>0. doc \in Documents
  BY DEF Typed
<1>1. local[t].commit \in Shas /\ local[t].pr \in Numbers
      /\ local[t].patch \in Identities /\ local[t].ci \in CiStates
  BY DEF Kept
<1>2. \E from, to \in Steps, documents \in Documents : Writes(t, from, to, documents)
  <2>1. CASE WriteCiState(t) \/ WriteMergeHandoffState(t) \/ WriteMergedState(t)
             \/ WriteReleasedState(t)
    <3>1. /\ Stage(CiStage(local[t].ci), local[t].commit) \in Documents
          /\ Stage("MERGE_HANDOFF", local[t].commit) \in Documents
          /\ Stage("MERGED", local[t].commit) \in Documents
          /\ Stage("RELEASED", local[t].commit) \in Documents
      BY <1>0, <1>1 DEF Documents, Stage, Stages, CiStage
    <3> QED BY <2>1, <3>1 DEF WriteCiState, WriteMergeHandoffState, WriteMergedState,
                              WriteReleasedState, Steps
  <2>2. CASE WriteMergeHandoff(t)
    <3>1. [doc EXCEPT !.mergeHandoff = [commit |-> local[t].commit, pr |-> local[t].pr]]
            \in Documents
      BY <1>0, <1>1 DEF Documents
    <3>2. (IF local[t].stage \in {"MERGED", "RELEASED"} THEN "idle" ELSE "m_state")
            \in Steps /\ "m_write" \in Steps
      BY DEF Steps
    <3> QED BY <2>2, <3>1, <3>2 DEF WriteMergeHandoff
  <2>3. CASE WriteMergeResult(t)
    <3>1. \A v \in BOOLEAN :
            [doc EXCEPT !.mergeResult = [pr |-> local[t].pr, verified |-> v]] \in Documents
      BY <1>0, <1>1 DEF Documents
    <3>2. PICK from \in {"g_verified", "g_unverified"} :
            Writes(t, from, "g_state",
                   [doc EXCEPT !.mergeResult = [pr |-> local[t].pr,
                                                verified |-> from = "g_verified"]])
      BY <2>3 DEF WriteMergeResult
    <3>3. from \in Steps /\ "g_state" \in Steps
      BY <3>2 DEF Steps
    <3>4. (from = "g_verified") \in BOOLEAN
      OBVIOUS
    <3> QED BY <3>1, <3>2, <3>3, <3>4
  <2>4. CASE WriteClosure(t)
    <3>1. \A v \in BOOLEAN :
            [doc EXCEPT !.closure = [commit |-> local[t].commit,
                                     patch |-> local[t].patch, verified |-> v]]
              \in Documents
      BY <1>0, <1>1 DEF Documents
    <3>2. doc.mergeResult.verified \in BOOLEAN
      BY <1>0 DEF Documents
    <3>3. PICK shown \in BOOLEAN :
            Writes(t, "k_write", "k_state",
                   [doc EXCEPT !.closure = [commit |-> local[t].commit,
                                            patch |-> local[t].patch,
                                            verified |-> shown \/ doc.mergeResult.verified]])
      BY <2>4 DEF WriteClosure
    <3>4. (shown \/ doc.mergeResult.verified) \in BOOLEAN
      BY <3>2
    <3>5. "k_write" \in Steps /\ "k_state" \in Steps
      BY DEF Steps
    <3> QED BY <3>1, <3>3, <3>4, <3>5
  <2> QED BY <2>1, <2>2, <2>3, <2>4
<1> QED BY <1>2, WritesTyped

------------------------------------------------------------------------------
(* A new commit is one more, and holds the history of its parent.          *)
LEMMA NewCommitTyped ==
  ASSUME Typed, NEW w \in Contents, NEW parent \in Made,
         NEW by \in {"release", "others"}, NewCommit(w, parent, by)
  PROVE  /\ commits' \in Seq(Commit)
         /\ Len(commits') = Len(commits) + 1 /\ Len(commits') \in 1 .. MaxCommits
         /\ \A c \in Made : commits'[c] = commits[c]
         /\ commits'[Len(commits')].ancestors =
              commits[parent].ancestors \cup {Len(commits')}
<1> DEFINE new == [content |-> w,
                   ancestors |-> commits[parent].ancestors \cup {Len(commits) + 1},
                   by |-> by]
<1>1. Len(commits) + 1 \in 1 .. MaxCommits /\ commits \in Seq(Commit)
  BY ReleaseAssumption DEF NewCommit, Typed, RepoType
<1>2. commits[parent] \in Commit
  BY <1>1 DEF Made
<1>3. new \in Commit
  BY <1>1, <1>2 DEF Commit, Shas
<1>4. commits' = Append(commits, new)
  BY DEF NewCommit
<1> QED BY <1>1, <1>3, <1>4 DEF Made

(* The steps of commands that move Git and GitHub.                         *)
LEMMA EffectsTyped ==
  ASSUME Typed, NEW t \in Tools, outside' = outside,
         CommitAll(t) \/ Push(t) \/ CreatePull(t) \/ GoMerge(t) \/ Merge(t)
  PROVE  Typed'
<1> USE KeptTyped, BlankKept
<1>1. CASE CommitAll(t)
  <2>1. NewCommit(worktree, head, "release") /\ worktree \in Contents /\ head \in Made
    BY <1>1 DEF CommitAll, Typed, RepoType, RestType
  <2>2. RepoType'
    BY <1>1, <2>1, NewCommitTyped DEF CommitAll, github, Typed, RepoType, Made
  <2>3. ToolType'
    BY <1>1, GotoMoves DEF CommitAll, Typed, Steps
  <2> QED BY <1>1, <2>2, <2>3
      DEF CommitAll, Typed, HubType, RestType, mission, github, observed
<1>2. CASE Push(t)
  <2>1. ToolType'
    BY <1>2, GotoMoves DEF Push, Typed, Steps
  <2> QED BY <1>2, <2>1 DEF Push, Typed, RepoType, HubType, RestType, Made,
                            mission, repo, observed
<1>3. CASE CreatePull(t)
  <2>1. ToolType'
    BY <1>3, GotoMoves DEF CreatePull, Typed, Steps
  <2>2. pulls' \in Seq(Pull) /\ Len(pulls') \in Numbers
    BY <1>3, ReleaseAssumption DEF CreatePull, Typed, HubType, Pull, Numbers, Shas
  <2> QED BY <1>3, <2>1, <2>2 DEF CreatePull, Typed, RepoType, HubType, RestType,
                                  Made, mission, repo, observed
<1>4. CASE GoMerge(t)
  <2>1. PICK c \in Made :
          /\ Goto(t, "idle", "g_pull", [Blank EXCEPT !.commit = c, !.pr = doc.mergeHandoff.pr])
          /\ greenSeen' = [greenSeen EXCEPT ![t] = Green(CombineCi(checks[c]))]
    BY <1>4 DEF GoMerge
  <2>2. [Blank EXCEPT !.commit = c, !.pr = doc.mergeHandoff.pr] \in Kept
    BY DEF Kept, Blank
  <2>3. ToolType'
    BY <2>1, <2>2, GotoMoves DEF Typed, Steps
  <2>4. greenSeen' \in [Tools -> BOOLEAN]
    BY <2>1 DEF Typed, RestType, Green
  <2> QED BY <1>4, <2>3, <2>4 DEF GoMerge, Typed, RepoType, HubType, RestType,
                                  Made, mission, repo, github
<1>5. CASE Merge(t)
  <2>1. ToolType'
    BY <1>5, GotoMoves DEF Merge, Typed, Steps
  <2>2. local[t].pr \in Numbers /\ local[t].commit \in Shas
    BY DEF Kept
  <2>3. pulls' \in Seq(Pull) /\ Len(pulls') = Len(pulls)
    <3>1. [state |-> "MERGED", head |-> local[t].commit] \in Pull
      BY <2>2 DEF Pull
    <3>2. pulls' = [pulls EXCEPT ![local[t].pr] =
                      [state |-> "MERGED", head |-> local[t].commit]]
      BY <1>5 DEF Merge
    <3>3. pulls \in Seq(Pull) /\ local[t].pr \in DOMAIN pulls
      BY <1>5 DEF Merge, Open, Typed, HubType
    <3> QED BY <3>1, <3>2, <3>3
  <2>4. merged' \in Seq([pr : Numbers, commit : Shas])
    BY <1>5, <2>2 DEF Merge, Typed, HubType
  <2>5. greenSeen' \in [Tools -> BOOLEAN]
    BY <1>5 DEF Merge, Typed, RestType
  <2> QED BY <1>5, <2>1, <2>3, <2>4, <2>5
      DEF Merge, Typed, RepoType, HubType, RestType, Made, mission, repo
<1> QED BY <1>1, <1>2, <1>3, <1>4, <1>5

(* What happens outside.                                                   *)
LEMMA ChecksTyped ==
  ASSUME Typed, ChecksMove PROVE Typed'
<1>1. PICK c \in Made \ {1}, s \in CiSets :
        /\ checks' = [checks EXCEPT ![c] = s]
        /\ greenSeen' = [t \in Tools |->
             greenSeen[t] \/ /\ pc[t] \in {"g_pull", "g_ci", "g_merge"}
                             /\ local[t].commit = c
                             /\ Green(CombineCi(s))]
  BY DEF ChecksMove
<1>2. checks' \in [1 .. MaxCommits -> CiSets \cup {{}}]
  BY <1>1 DEF Typed, HubType
<1>3. greenSeen' \in [Tools -> BOOLEAN]
  BY <1>1 DEF Typed, RestType, Green
<1> QED BY <1>2, <1>3 DEF ChecksMove, Typed, RepoType, HubType, ToolType, RestType,
                          Made, mission, repo

LEMMA OthersTyped ==
  ASSUME Typed, Others,
         Review \/ Withdraw \/ Edit \/ CommitByHand \/ PushByOthers \/ CloseByHand
  PROVE  Typed'
<1>0. ToolType' /\ doc' \in Documents /\ outside' \in 0 .. MaxOutside
      /\ greenSeen' = greenSeen /\ torn' = torn
  BY ReleaseAssumption DEF Others, observed, Typed, ToolType, RestType
<1>1. CASE Review \/ Withdraw \/ Edit
  <2>1. evidence' \in [ready : BOOLEAN, patch : Contents] /\ worktree' \in Contents
    <3>1. CASE Review
      BY <3>1 DEF Review, Typed, RestType
    <3>2. CASE Withdraw
      BY <3>2 DEF Withdraw, Typed, RestType
    <3>3. CASE Edit
      BY <3>3 DEF Edit, Typed, RestType
    <3> QED BY <1>1, <3>1, <3>2, <3>3
  <2> QED BY <1>0, <1>1, <2>1 DEF Review, Withdraw, Edit, Typed, RepoType, HubType,
                                  RestType, Made, repo, github
<1>2. CASE CommitByHand
  <2>1. NewCommit(worktree, head, "others") /\ worktree \in Contents /\ head \in Made
    BY <1>2 DEF CommitByHand, Typed, RepoType, RestType
  <2>2. RepoType'
    BY <1>2, <2>1, NewCommitTyped DEF CommitByHand, github, Typed, RepoType, Made
  <2> QED BY <1>0, <1>2, <2>2 DEF CommitByHand, Typed, HubType, RestType, mission, github
<1>3. CASE PushByOthers
  <2>1. PICK w \in Contents : NewCommit(w, tip, "others")
    BY <1>3 DEF PushByOthers
  <2>2. tip \in Made
    BY <1>3 DEF PushByOthers, Typed, RepoType
  <2>3. RepoType'
    BY <1>3, <2>1, <2>2, NewCommitTyped DEF PushByOthers, Typed, RepoType, Made
  <2> QED BY <1>0, <1>3, <2>3 DEF PushByOthers, Typed, HubType, RestType, mission
<1>4. CASE CloseByHand
  <2>1. PICK p \in DOMAIN pulls :
          pulls' = [pulls EXCEPT ![p] = [state |-> "CLOSED", head |-> tip]]
    BY <1>4 DEF CloseByHand
  <2>2. [state |-> "CLOSED", head |-> tip] \in Pull
    BY ReleaseAssumption DEF Pull, Typed, RepoType, Shas, Made
  <2>3. pulls' \in Seq(Pull) /\ Len(pulls') = Len(pulls)
    BY <2>1, <2>2 DEF Typed, HubType
  <2> QED BY <1>0, <1>4, <2>3 DEF CloseByHand, Typed, RepoType, HubType, RestType,
                                  Made, mission, repo
<1> QED BY <1>1, <1>2, <1>3, <1>4

(* Every step keeps the types.                                             *)
LEMMA NextTyped == Typed /\ [Next]_vars => Typed'
<1> SUFFICES ASSUME Typed, [Next]_vars PROVE Typed'
  OBVIOUS
<1>1. CASE (\E t \in Tools : Tool(t)) /\ outside' = outside
  <2> PICK t \in Tools : Tool(t)
    BY <1>1
  <2>1. CASE CommitStep(t)
    BY <1>1, <2>1, CommitReadsTyped, CommitWritesTyped, EffectsTyped DEF CommitStep
  <2>2. CASE PullStep(t)
    BY <1>1, <2>2, PullReadsTyped, CommitWritesTyped, MergeWritesTyped, EffectsTyped
    DEF PullStep
  <2>3. CASE MergeStep(t)
    BY <1>1, <2>3, PullReadsTyped, MergeWritesTyped, EffectsTyped DEF MergeStep
  <2>4. CASE Abandon(t)
    BY <1>1, <2>4, AbandonTyped
  <2> QED BY <2>1, <2>2, <2>3, <2>4 DEF Tool
<1>2. CASE Elsewhere
  BY <1>2, ChecksTyped, OthersTyped DEF Elsewhere
<1>3. CASE UNCHANGED vars
  BY <1>3 DEF vars, mission, repo, github, observed, Typed, RepoType, HubType,
              ToolType, RestType, Made
<1> QED BY <1>1, <1>2, <1>3 DEF Next

(* The documents, the repository and the commands of a release are of      *)
(* their types (release/).                                                 *)
THEOREM TypeCorrect == Spec => []TypeOK
<1>1. Init => Typed
  <2> SUFFICES ASSUME Init PROVE Typed
    OBVIOUS
  <2> QED BY InitTyped
<1>2. Typed /\ [Next]_vars => Typed'
  BY NextTyped
<1>3. Typed => TypeOK
  BY TypedIsTypeOK
<1> QED BY <1>1, <1>2, <1>3, PTL DEF Spec

------------------------------------------------------------------------------
(* Merges.  A go-merge that has verified the checks saw them green, or     *)
(* sees them green when they are green now; the pull request it merged has *)
(* a number.                                                               *)
GreenInv ==
  \A t \in Tools :
    /\ pc[t] \in {"g_pull", "g_ci"} => local[t].commit \in 1 .. MaxCommits
    /\ pc[t] = "g_merge" => greenSeen[t]
    /\ pc[t] \in {"g_pull", "g_ci"} /\ Green(CombineCi(checks[local[t].commit]))
         => greenSeen[t]

Merging == {"g_verify", "g_verified", "g_unverified"}

MergedPull == \A t \in Tools : pc[t] \in Merging => local[t].pr # 0

MergeInv == GreenInv /\ MergedPull /\ MergeRecorded

(* The steps before a merge is verified and after it is recorded.          *)
PlainStep(t) ==
  \/ CommitStep(t) \/ PullStep(t)
  \/ MergeHandoff(t) \/ HandoffPull(t) \/ HandoffCi(t)
  \/ WriteMergeHandoff(t) \/ WriteMergeHandoffState(t) \/ WriteMergedState(t)
  \/ Closure(t) \/ WriteClosure(t) \/ WriteReleasedState(t)

(* They merge nothing and are no part of a merge.                          *)
LEMMA PlainSteps ==
  ASSUME Typed, NEW t \in Tools, PlainStep(t)
  PROVE  /\ pc'[t] \notin {"g_pull", "g_ci", "g_merge"} \cup Merging
         /\ pc[t] \notin Merging
         /\ \A u \in Tools \ {t} : pc'[u] = pc[u] /\ local'[u] = local[u]
         /\ checks' = checks /\ greenSeen' = greenSeen
         /\ merged' = merged /\ torn' = torn
         /\ doc'.mergeResult = doc.mergeResult
<1>1. CASE CommitStep(t)
  <2>1. /\ checks' = checks /\ greenSeen' = greenSeen
        /\ merged' = merged /\ torn' = torn
    BY <1>1 DEF CommitStep, Handoff, WriteCommitHandoff, HandoffStage,
       HandoffKeepsStage, WriteHandoffState, GoCommit, RecheckCommit, CommitAll,
       ReadCommitted, PushExpects, Push, WriteCommitResult, WriteCommitState,
       Reads, Writes, github, observed
  <2>2. doc'.mergeResult = doc.mergeResult
    BY <1>1 DEF CommitStep, Handoff, WriteCommitHandoff, HandoffStage,
       HandoffKeepsStage, WriteHandoffState, GoCommit, RecheckCommit, CommitAll,
       ReadCommitted, PushExpects, Push, WriteCommitResult, WriteCommitState,
       Reads, Writes, Stage, Typed, Documents
  <2>3. \E from, to \in Steps \ Merging : \E keep :
          Goto(t, from, to, keep) /\ to \notin {"g_pull", "g_ci", "g_merge"}
    BY <1>1 DEF CommitStep, Handoff, WriteCommitHandoff, HandoffStage,
       HandoffKeepsStage, WriteHandoffState, GoCommit, RecheckCommit, CommitAll,
       ReadCommitted, PushExpects, Push, WriteCommitResult, WriteCommitState,
       Reads, Writes, Steps, Merging
  <2> QED BY <2>1, <2>2, <2>3 DEF Goto, Typed, ToolType
<1>2. CASE PullStep(t)
  <2>1. /\ checks' = checks /\ greenSeen' = greenSeen
        /\ merged' = merged /\ torn' = torn
    BY <1>2 DEF PullStep, BindPr, FindPull, FindNoPull, CreatePull, CheckPull,
       WriteBinding, WriteBoundState, WatchCi, WriteCiStatus, WriteCiState,
       Reads, Writes, github, observed
  <2>2. doc'.mergeResult = doc.mergeResult
    BY <1>2 DEF PullStep, BindPr, FindPull, FindNoPull, CreatePull, CheckPull,
       WriteBinding, WriteBoundState, WatchCi, WriteCiStatus, WriteCiState,
       Reads, Writes, Stage, Typed, Documents
  <2>3. \E from, to \in Steps \ Merging : \E keep :
          Goto(t, from, to, keep) /\ to \notin {"g_pull", "g_ci", "g_merge"}
    <3>1. CASE BindPr(t) \/ WatchCi(t)
      <4>1. \E to \in {"b_find", "w_write"} : \E keep : Goto(t, "idle", to, keep)
        BY <3>1 DEF BindPr, WatchCi
      <4> QED BY <4>1 DEF Steps, Merging
    <3>2. CASE FindPull(t) \/ FindNoPull(t) \/ CreatePull(t) \/ CheckPull(t)
      BY <3>2 DEF FindPull, FindNoPull, CreatePull, CheckPull, Steps, Merging
    <3>3. CASE WriteBinding(t) \/ WriteBoundState(t) \/ WriteCiStatus(t)
               \/ WriteCiState(t)
      BY <3>3 DEF WriteBinding, WriteBoundState, WriteCiStatus, WriteCiState,
                  Writes, Steps, Merging
    <3> QED BY <1>2, <3>1, <3>2, <3>3 DEF PullStep
  <2> QED BY <2>1, <2>2, <2>3 DEF Goto, Typed, ToolType
<1>3. CASE MergeHandoff(t) \/ HandoffPull(t) \/ HandoffCi(t)
           \/ WriteMergeHandoff(t) \/ WriteMergeHandoffState(t)
  <2>1. /\ checks' = checks /\ greenSeen' = greenSeen
        /\ merged' = merged /\ torn' = torn
    BY <1>3 DEF MergeHandoff, HandoffPull, HandoffCi, RecheckPull,
       RecheckCi, WriteMergeHandoff, WriteMergeHandoffState,
       Reads, Writes, github, observed
  <2>2. doc'.mergeResult = doc.mergeResult
    BY <1>3 DEF MergeHandoff, HandoffPull, HandoffCi, RecheckPull,
       RecheckCi, WriteMergeHandoff, WriteMergeHandoffState,
       Reads, Writes, Stage, Typed, Documents
  <2>3. \E from, to \in Steps \ Merging : \E keep :
          Goto(t, from, to, keep) /\ to \notin {"g_pull", "g_ci", "g_merge"}
    <3>1. CASE MergeHandoff(t)
      <4>1. \E keep : Goto(t, "idle", "m_pull", keep)
        BY <3>1 DEF MergeHandoff
      <4> QED BY <4>1 DEF Steps, Merging
    <3>2. CASE HandoffPull(t) \/ HandoffCi(t) \/ WriteMergeHandoffState(t)
      BY <3>2 DEF HandoffPull, HandoffCi, RecheckPull, RecheckCi,
                  WriteMergeHandoffState, Writes, Steps, Merging
    <3>3. CASE WriteMergeHandoff(t)
      <4>1. \E to \in {"idle", "m_state"} : \E keep : Goto(t, "m_write", to, keep)
        BY <3>3 DEF WriteMergeHandoff, Writes
      <4> QED BY <4>1 DEF Steps, Merging
    <3> QED BY <1>3, <3>1, <3>2, <3>3
  <2> QED BY <2>1, <2>2, <2>3 DEF Goto, Typed, ToolType
<1>4. CASE WriteMergedState(t) \/ Closure(t) \/ WriteClosure(t)
           \/ WriteReleasedState(t)
  <2>1. /\ checks' = checks /\ greenSeen' = greenSeen
        /\ merged' = merged /\ torn' = torn
    BY <1>4 DEF WriteMergedState, Closure, WriteClosure, WriteReleasedState,
       Reads, Writes, github, observed
  <2>2. doc'.mergeResult = doc.mergeResult
    BY <1>4 DEF WriteMergedState, Closure, WriteClosure, WriteReleasedState,
       Reads, Writes, Stage, Typed, Documents
  <2>3. \E from, to \in Steps \ Merging : \E keep :
          Goto(t, from, to, keep) /\ to \notin {"g_pull", "g_ci", "g_merge"}
    BY <1>4 DEF WriteMergedState, Closure, WriteClosure, WriteReleasedState,
       Reads, Writes, Steps, Merging
  <2> QED BY <2>1, <2>2, <2>3 DEF Goto, Typed, ToolType
<1> QED BY <1>1, <1>2, <1>3, <1>4 DEF PlainStep

(* A step that is no part of a merge leaves the others' knowledge alone.   *)
LEMMA PlainKeeps ==
  ASSUME Typed, MergeInv, NEW t \in Tools, PlainStep(t) PROVE MergeInv'
<1> USE PlainSteps DEF MergeInv
<1>1. GreenInv'
  BY DEF GreenInv, Merging
<1>2. MergedPull'
  BY DEF MergedPull, Merging
<1>3. MergeRecorded'
  <2>1. \A u \in Tools : Unrecorded(pc[u]) = {"merge"} => pc'[u] = pc[u]
    BY DEF Unrecorded, Merging
  <2> QED BY <2>1 DEF MergeRecorded
<1> QED BY <1>1, <1>2, <1>3

(* What the go-merge that does the step knows.                             *)
LEMMA MergingKeeps ==
  ASSUME Typed, Typed', MergeInv, NEW t \in Tools,
         \/ GoMerge(t) \/ MergePull(t) \/ MergeCi(t) \/ Merge(t) \/ VerifyMerge(t)
         \/ WriteMergeResult(t) \/ Abandon(t)
  PROVE  MergeInv'
<1> USE DEF MergeInv
<1>0. \A u \in Tools \ {t} :
        pc'[u] = pc[u] /\ local'[u] = local[u] /\ greenSeen'[u] = greenSeen[u]
  BY DEF Typed, ToolType, RestType, Goto, GoMerge, MergePull, MergeCi, Merge,
     VerifyMerge, WriteMergeResult, Abandon, RecheckPull, RecheckCi, Reads,
     Writes, observed
<1>1. checks' = checks
  BY DEF GoMerge, MergePull, MergeCi, Merge, VerifyMerge, WriteMergeResult,
     Abandon, RecheckPull, RecheckCi, Reads, Writes, github
<1>2. /\ pc'[t] \in {"g_pull", "g_ci"} => local'[t].commit \in 1 .. MaxCommits
      /\ pc'[t] = "g_merge" => greenSeen'[t]
      /\ pc'[t] \in {"g_pull", "g_ci"} /\ Green(CombineCi(checks[local'[t].commit]))
           => greenSeen'[t]
  <2>1. CASE GoMerge(t)
    <3>1. PICK c \in Made :
            /\ Goto(t, "idle", "g_pull",
                    [Blank EXCEPT !.commit = c, !.pr = doc.mergeHandoff.pr])
            /\ greenSeen' = [greenSeen EXCEPT ![t] = Green(CombineCi(checks[c]))]
      BY <2>1 DEF GoMerge
    <3>2. pc'[t] = "g_pull" /\ local'[t].commit = c /\ c \in 1 .. MaxCommits
      BY <3>1, ReleaseAssumption DEF Goto, Typed, ToolType, RepoType, Made, Blank
    <3>3. greenSeen'[t] = Green(CombineCi(checks[c]))
      BY <3>1 DEF Typed, RestType
    <3> QED BY <3>2, <3>3
  <2>2. CASE MergePull(t)
    <3>1. pc[t] = "g_pull" /\ pc'[t] = "g_ci" /\ local'[t] = local[t]
          /\ greenSeen' = greenSeen
      BY <2>2 DEF MergePull, RecheckPull, Goto, Reads, observed, Typed, ToolType
    <3> QED BY <3>1 DEF GreenInv
  <2>3. CASE MergeCi(t)
    <3>1. pc[t] = "g_ci" /\ pc'[t] = "g_merge" /\ greenSeen' = greenSeen
          /\ Green(CombineCi(checks[local[t].commit]))
      BY <2>3 DEF MergeCi, RecheckCi, Goto, Reads, observed, Typed, ToolType
    <3> QED BY <3>1 DEF GreenInv
  <2>4. CASE Merge(t) \/ VerifyMerge(t) \/ WriteMergeResult(t) \/ Abandon(t)
    <3>1. pc'[t] \in {"g_verify", "g_verified", "g_unverified", "g_state", "idle"}
      BY <2>4 DEF Merge, VerifyMerge, WriteMergeResult, Abandon, Writes, Goto,
                  Typed, ToolType
    <3> QED BY <3>1
  <2> QED BY <2>1, <2>2, <2>3, <2>4
<1>3. GreenInv'
  BY <1>0, <1>1, <1>2 DEF GreenInv
<1>4. pc'[t] \in Merging => local'[t].pr # 0
  <2>1. CASE Merge(t)
    <3>1. local[t].pr \in DOMAIN pulls /\ local'[t] = local[t]
      BY <2>1 DEF Merge, Open, Goto, Typed, ToolType
    <3> QED BY <3>1 DEF Typed, HubType
  <2>2. CASE VerifyMerge(t)
    <3>1. pc[t] = "g_verify" /\ local'[t] = local[t]
      BY <2>2 DEF VerifyMerge, Goto, Typed, ToolType
    <3> QED BY <3>1 DEF MergedPull, Merging
  <2>3. CASE GoMerge(t) \/ MergePull(t) \/ MergeCi(t) \/ WriteMergeResult(t)
             \/ Abandon(t)
    <3>1. pc'[t] \in {"g_pull", "g_ci", "g_merge", "g_state", "idle"}
      BY <2>3 DEF GoMerge, MergePull, MergeCi, WriteMergeResult, Abandon,
                  RecheckPull, RecheckCi, Writes, Goto, Typed, ToolType
    <3> QED BY <3>1 DEF Merging
  <2> QED BY <2>1, <2>2, <2>3
<1>5. MergedPull'
  BY <1>0, <1>4 DEF MergedPull
<1>6. MergeRecorded'
  <2>1. CASE GoMerge(t) \/ MergePull(t) \/ MergeCi(t)
    <3>1. /\ pc[t] \notin Merging /\ merged' = merged /\ doc' = doc /\ torn' = torn
      BY <2>1 DEF GoMerge, MergePull, MergeCi, RecheckPull, RecheckCi, Goto, Reads,
                  github, observed, Merging
    <3>2. \A u \in Tools : Unrecorded(pc[u]) = {"merge"} => pc'[u] = pc[u]
      BY <1>0, <3>1 DEF Unrecorded, Merging
    <3> QED BY <3>1, <3>2 DEF MergeRecorded
  <2>2. CASE Merge(t) \/ VerifyMerge(t)
    <3>1. pc'[t] \in Merging
      BY <2>2 DEF Merge, VerifyMerge, Goto, Typed, ToolType, Merging
    <3>2. Unrecorded(pc'[t]) = {"merge"}
      BY <3>1 DEF Unrecorded, Merging
    <3> QED BY <3>2 DEF MergeRecorded
  <2>3. CASE WriteMergeResult(t)
    <3>1. doc'.mergeResult.pr = local[t].pr /\ pc[t] \in Merging
      BY <2>3 DEF WriteMergeResult, Writes, Goto, Merging, Typed, Documents
    <3> QED BY <3>1 DEF MergeRecorded, MergedPull
  <2>4. CASE Abandon(t)
    <3>1. torn' = torn \cup Unrecorded(pc[t]) /\ merged' = merged /\ doc' = doc
      BY <2>4 DEF Abandon, github
    <3>2. \A u \in Tools \ {t} : Unrecorded(pc'[u]) = Unrecorded(pc[u])
      BY <1>0
    <3> QED BY <3>1, <3>2 DEF MergeRecorded
  <2> QED BY <2>1, <2>2, <2>3, <2>4
<1> QED BY <1>3, <1>5, <1>6

(* Check runs that become green are seen by the go-merges at work.         *)
LEMMA ElsewhereKeeps ==
  ASSUME Typed, MergeInv, Elsewhere PROVE MergeInv'
<1> USE DEF MergeInv
<1>1. pc' = pc /\ local' = local /\ merged' = merged /\ doc' = doc /\ torn' = torn
  BY DEF Elsewhere, ChecksMove, Others, Review, Withdraw, Edit, CommitByHand,
         PushByOthers, CloseByHand, github, observed
<1>2. CASE ChecksMove
  <2>1. PICK c \in Made \ {1}, s \in CiSets :
          /\ checks' = [checks EXCEPT ![c] = s]
          /\ greenSeen' = [t \in Tools |->
               greenSeen[t] \/ /\ pc[t] \in {"g_pull", "g_ci", "g_merge"}
                               /\ local[t].commit = c
                               /\ Green(CombineCi(s))]
    BY <1>2 DEF ChecksMove
  <2>2. \A d \in 1 .. MaxCommits : checks'[d] = IF d = c THEN s ELSE checks[d]
    BY <2>1 DEF Typed, HubType, RepoType, Made
  <2>3. GreenInv'
    <3> SUFFICES ASSUME NEW t \in Tools
                 PROVE  /\ pc[t] \in {"g_pull", "g_ci"} =>
                             local[t].commit \in 1 .. MaxCommits
                        /\ pc[t] = "g_merge" => greenSeen'[t]
                        /\ pc[t] \in {"g_pull", "g_ci"}
                             /\ Green(CombineCi(checks'[local[t].commit]))
                             => greenSeen'[t]
      BY <1>1 DEF GreenInv
    <3> QED BY <1>1, <2>1, <2>2 DEF GreenInv
  <2> QED BY <1>1, <2>3 DEF MergedPull, MergeRecorded
<1>3. CASE ~ChecksMove
  <2>1. checks' = checks /\ greenSeen' = greenSeen
    BY <1>3 DEF Elsewhere, Others, Review, Withdraw, Edit, CommitByHand,
                PushByOthers, CloseByHand, github, observed
  <2> QED BY <1>1, <2>1 DEF GreenInv, MergedPull, MergeRecorded
<1> QED BY <1>2, <1>3

LEMMA MergeInvariant == Spec => [](Typed /\ MergeInv)
<1>1. Init => Typed /\ MergeInv
  <2> SUFFICES ASSUME Init PROVE MergeInv
    BY InitTyped
  <2>1. \A t \in Tools : pc[t] = "idle"
    BY DEF Init
  <2> QED BY <2>1 DEF Init, MergeInv, GreenInv, MergedPull, Merging, MergeRecorded
<1>2. Typed /\ MergeInv /\ [Next]_vars => (Typed /\ MergeInv)'
  <2> SUFFICES ASSUME Typed, MergeInv, [Next]_vars PROVE MergeInv'
    BY NextTyped
  <2>0. Typed'
    BY NextTyped
  <2>1. CASE \E t \in Tools : Tool(t)
    BY <2>0, <2>1, PlainKeeps, MergingKeeps DEF Tool, MergeStep, PlainStep
  <2>2. CASE Elsewhere
    BY <2>2, ElsewhereKeeps
  <2>3. CASE UNCHANGED vars
    BY <2>3 DEF vars, github, observed, MergeInv, GreenInv, MergedPull, MergeRecorded
  <2> QED BY <2>1, <2>2, <2>3 DEF Next
<1> QED BY <1>1, <1>2, PTL DEF Spec

(* A merge GitHub made is in merge-result.json unless the go-merge that    *)
(* made it is at work or stopped before it could write it (merge_gate.py). *)
THEOREM MergesAreRecorded == Spec => []MergeRecorded
<1>1. Typed /\ MergeInv => MergeRecorded
  BY DEF MergeInv
<1> QED BY <1>1, MergeInvariant, PTL

(* A merge is made only by a go-merge during which the checks of the exact *)
(* commit it merges were all green (merge_gate._recheck).                  *)
THEOREM MergesAreGreen == Spec => MergedWhileGreen
<1> DEFINE Merged ==
      merged' # merged =>
        \E t \in Tools : /\ pc[t] = "g_merge" /\ greenSeen[t]
                         /\ merged'[Len(merged')].commit = local[t].commit
<1>1. Typed /\ MergeInv /\ [Next]_vars => Merged
  <2> SUFFICES ASSUME Typed, MergeInv, [Next]_vars, merged' # merged
               PROVE  \E t \in Tools : /\ pc[t] = "g_merge" /\ greenSeen[t]
                                       /\ merged'[Len(merged')].commit = local[t].commit
    OBVIOUS
  <2>1. PICK t \in Tools : Tool(t)
    BY DEF Next, Elsewhere, ChecksMove, Others, Review, Withdraw, Edit, CommitByHand,
           PushByOthers, CloseByHand, vars, github
  <2>2. ~PlainStep(t)
    BY PlainSteps
  <2>3. Merge(t)
    BY <2>1, <2>2 DEF Tool, MergeStep, PlainStep, GoMerge, MergePull, MergeCi,
       VerifyMerge, WriteMergeResult, Abandon, RecheckPull, RecheckCi, Reads,
       Writes, github
  <2>4. pc[t] = "g_merge" /\ greenSeen[t]
    BY <2>3 DEF Merge, Goto, MergeInv, GreenInv
  <2>5. merged' = Append(merged, [pr |-> local[t].pr, commit |-> local[t].commit])
    BY <2>3 DEF Merge
  <2>6. merged'[Len(merged')].commit = local[t].commit
    BY <2>5 DEF Typed, HubType
  <2> QED BY <2>4, <2>6
<1>2. [Next]_vars /\ Typed /\ MergeInv => [Merged]_vars
  BY <1>1
<1>3. Spec => [][Merged]_vars
  BY <1>2, MergeInvariant, PTL DEF Spec
<1> QED BY <1>3 DEF MergedWhileGreen

------------------------------------------------------------------------------
(* Commits.  A commit holds the history of its ancestors, and a commit that *)
(* reached the branch is on it from then on.                                *)
History ==
  \A c \in Made :
    /\ c \in commits[c].ancestors /\ commits[c].ancestors \subseteq Made
    /\ \A a \in commits[c].ancestors : commits[a].ancestors \subseteq commits[c].ancestors

On(c) == c # 0 => tip # 0 /\ c \in commits[tip].ancestors

(* The steps of a command whose commit is on the branch.                   *)
Beyond == {"c_result", "c_state", "b_find", "b_create", "b_check", "b_write",
           "b_state", "w_write", "w_state", "m_pull", "m_ci", "m_write",
           "m_state", "g_pull", "g_ci", "g_merge", "g_verify", "g_verified",
           "g_unverified", "g_state", "k_write", "k_state"}

Known ==
  /\ On(doc.state.commit) /\ On(doc.commitResult.commit)
  /\ \A t \in Tools :
       /\ pc[t] \in Beyond => On(local[t].commit)
       /\ pc[t] \in {"c_head", "c_push"} =>
            local[t].commit \in commits[head].ancestors

PushInv == History /\ Known

(* What is new on a commit's history is the commit.                        *)
LEMMA NewCommitHistory ==
  ASSUME Typed, History, NEW w \in Contents, NEW parent \in Made,
         NEW by \in {"release", "others"}, NewCommit(w, parent, by)
  PROVE  /\ History'
         /\ \A c \in Made : commits'[c].ancestors = commits[c].ancestors
         /\ commits[parent].ancestors \subseteq commits'[Len(commits')].ancestors
<1> DEFINE n == Len(commits')
<1>1. /\ Made' = Made \cup {n} /\ n \notin Made
      /\ \A c \in Made : commits'[c] = commits[c]
      /\ commits'[n].ancestors = commits[parent].ancestors \cup {n}
  BY NewCommitTyped DEF Made, Typed, RepoType
<1>2. commits[parent].ancestors \subseteq Made
      /\ \A a \in commits[parent].ancestors :
           commits[a].ancestors \subseteq commits[parent].ancestors
  BY DEF History
<1>3. ASSUME NEW c \in Made'
      PROVE  /\ c \in commits'[c].ancestors /\ commits'[c].ancestors \subseteq Made'
             /\ \A a \in commits'[c].ancestors :
                  commits'[a].ancestors \subseteq commits'[c].ancestors
  <2>1. CASE c \in Made
    BY <1>1, <2>1 DEF History
  <2>2. CASE c = n
    BY <1>1, <1>2, <2>2
  <2> QED BY <1>1, <2>1, <2>2
<1> QED BY <1>1, <1>3 DEF History

(* No step takes a commit off the branch, nor off the local history.       *)
LEMMA NothingLost ==
  ASSUME Typed, Typed', History, [Next]_vars
  PROVE  /\ History'
         /\ \A c \in Nat : On(c) => On(c)'
         /\ commits[head].ancestors \subseteq commits'[head'].ancestors
<1>0. head \in Made /\ tip \in Made \cup {0} /\ worktree \in Contents
  BY DEF Typed, RepoType, RestType
<1>1. ASSUME NEW by \in {"release", "others"}, NewCommit(worktree, head, by),
             head' = Len(commits) + 1, tip' = tip
      PROVE  /\ History'
             /\ \A c \in Nat : On(c) => On(c)'
             /\ commits[head].ancestors \subseteq commits'[head'].ancestors
  <2>1. head' = Len(commits')
    BY <1>0, <1>1, NewCommitTyped
  <2>2. /\ History'
        /\ \A c \in Made : commits'[c].ancestors = commits[c].ancestors
        /\ commits[head].ancestors \subseteq commits'[head'].ancestors
    BY <1>0, <1>1, <2>1, NewCommitHistory
  <2> QED BY <1>0, <1>1, <2>2 DEF On
<1>2. CASE \E t \in Tools : CommitAll(t)
  BY <1>1, <1>2 DEF CommitAll, github
<1>3. CASE CommitByHand
  BY <1>1, <1>3 DEF CommitByHand, github
<1>4. CASE PushByOthers
  <2>1. PICK w \in Contents : NewCommit(w, tip, "others")
    BY <1>4 DEF PushByOthers
  <2>2. tip \in Made /\ tip' = Len(commits) + 1 /\ head' = head
    BY <1>0, <1>4 DEF PushByOthers
  <2>3. tip' = Len(commits')
    BY <2>1, <2>2, NewCommitTyped
  <2>4. /\ History'
        /\ \A c \in Made : commits'[c].ancestors = commits[c].ancestors
        /\ commits[tip].ancestors \subseteq commits'[tip'].ancestors
    BY <2>1, <2>2, <2>3, NewCommitHistory
  <2>5. tip' # 0
    BY <2>2 DEF Typed, RepoType
  <2> QED BY <1>0, <2>2, <2>4, <2>5 DEF On
<1>5. CASE \E t \in Tools : Push(t)
  <2>1. tip' = head /\ commits' = commits /\ head' = head
        /\ tip \in commits[head].ancestors \cup {0}
    BY <1>5 DEF Push, FastForward, repo
  <2>2. head # 0
    BY <1>0 DEF Made
  <2>3. tip # 0 => commits[tip].ancestors \subseteq commits[head].ancestors
    BY <1>0, <2>1 DEF History
  <2> QED BY <2>1, <2>2, <2>3 DEF On, History, Made
<1>6. CASE UNCHANGED <<commits, head, tip>>
  BY <1>6 DEF On, History, Made
<1>7. ASSUME NEW t \in Tools, Tool(t), ~CommitAll(t), ~Push(t)
      PROVE  UNCHANGED <<commits, head, tip>>
  <2>1. CASE CommitStep(t)
    BY <1>7, <2>1 DEF CommitStep, Handoff, WriteCommitHandoff, HandoffStage,
       HandoffKeepsStage, WriteHandoffState, GoCommit, RecheckCommit,
       ReadCommitted, PushExpects, WriteCommitResult, WriteCommitState,
       Reads, Writes, repo, github
  <2>2. CASE PullStep(t)
    BY <2>2 DEF PullStep, BindPr, FindPull, FindNoPull, CreatePull, CheckPull,
       WriteBinding, WriteBoundState, WatchCi, WriteCiStatus, WriteCiState,
       Reads, Writes, repo, github
  <2>3. CASE MergeStep(t)
    BY <2>3 DEF MergeStep, MergeHandoff, HandoffPull, HandoffCi, RecheckPull,
       RecheckCi, WriteMergeHandoff, WriteMergeHandoffState, GoMerge, MergePull,
       MergeCi, Merge, VerifyMerge, WriteMergeResult, WriteMergedState, Closure,
       WriteClosure, WriteReleasedState, Reads, Writes, repo, github
  <2>4. CASE Abandon(t)
    BY <2>4 DEF Abandon, repo, github
  <2> QED BY <1>7, <2>1, <2>2, <2>3, <2>4 DEF Tool
<1>8. CASE Elsewhere /\ ~CommitByHand /\ ~PushByOthers
  BY <1>6, <1>8 DEF Elsewhere, ChecksMove, Review, Withdraw, Edit, CloseByHand,
     repo, github
<1>9. CASE UNCHANGED vars
  BY <1>6, <1>9 DEF vars, repo, github
<1> QED BY <1>2, <1>3, <1>4, <1>5, <1>6, <1>7, <1>8, <1>9 DEF Next

(* What a command learns of a commit, and what it records of it.           *)
Learns(t) ==
  /\ \/ doc'.state.commit \in {doc.state.commit, 0}
     \/ pc[t] \in Beyond /\ doc'.state.commit = local[t].commit
  /\ \/ doc'.commitResult.commit = doc.commitResult.commit
     \/ pc[t] \in Beyond /\ doc'.commitResult.commit = local[t].commit
  /\ pc'[t] \in Beyond =>
       \/ pc[t] \in Beyond /\ local'[t].commit = local[t].commit
       \/ local'[t].commit \in {doc.state.commit, doc.commitResult.commit}
       \/ Push(t) /\ pc[t] = "c_push" /\ local'[t].commit = local[t].commit
  /\ pc'[t] \in {"c_head", "c_push"} =>
       \/ pc[t] = "c_head" /\ local'[t].commit = local[t].commit
       \/ local'[t].commit = head

LEMMA CommitLearns ==
  ASSUME Typed, NEW t \in Tools, CommitStep(t) PROVE Learns(t)
<1> USE DEF Typed, ToolType, Kept, Documents
<1>1. CASE Handoff(t) \/ HandoffStage(t) \/ HandoffKeepsStage(t) \/ GoCommit(t)
           \/ RecheckCommit(t) \/ CommitAll(t) \/ WriteCommitHandoff(t)
           \/ WriteHandoffState(t)
  <2>1. pc'[t] \notin Beyond \cup {"c_head", "c_push"}
    BY <1>1 DEF Handoff, HandoffStage, HandoffKeepsStage, GoCommit, RecheckCommit,
       CommitAll, WriteCommitHandoff, WriteHandoffState, Goto, Writes, Beyond
  <2>2. doc'.state.commit \in {doc.state.commit, 0}
        /\ doc'.commitResult.commit = doc.commitResult.commit
    BY <1>1 DEF Handoff, HandoffStage, HandoffKeepsStage, GoCommit, RecheckCommit,
       CommitAll, WriteCommitHandoff, WriteHandoffState, Reads, Writes, Stage
  <2> QED BY <2>1, <2>2 DEF Learns
<1>2. CASE ReadCommitted(t) \/ PushExpects(t)
  <2>1. doc' = doc
    BY <1>2 DEF ReadCommitted, PushExpects, Reads
  <2>2. /\ pc'[t] \in {"c_head", "c_push"}
        /\ \/ pc[t] = "c_head" /\ local'[t].commit = local[t].commit
           \/ local'[t].commit = head
    BY <1>2 DEF ReadCommitted, PushExpects, Goto
  <2> QED BY <2>1, <2>2 DEF Learns, Beyond
<1>3. CASE Push(t)
  <2>1. doc' = doc
    BY <1>3 DEF Push
  <2>2. pc[t] = "c_push" /\ pc'[t] = "c_result" /\ local'[t] = local[t]
    BY <1>3 DEF Push, Goto
  <2> QED BY <1>3, <2>1, <2>2 DEF Learns
<1>4. CASE WriteCommitResult(t) \/ WriteCommitState(t)
  <2>1. pc[t] \in {"c_result", "c_state"} /\ pc'[t] \in {"c_state", "idle"}
        /\ (pc'[t] = "c_state" => local'[t] = local[t])
    BY <1>4 DEF WriteCommitResult, WriteCommitState, Writes, Goto
  <2>2. /\ doc'.state.commit \in {doc.state.commit, local[t].commit}
        /\ doc'.commitResult.commit \in {doc.commitResult.commit, local[t].commit}
    BY <1>4 DEF WriteCommitResult, WriteCommitState, Writes, Stage
  <2> QED BY <2>1, <2>2 DEF Learns, Beyond
<1> QED BY <1>1, <1>2, <1>3, <1>4 DEF CommitStep

LEMMA PullLearns ==
  ASSUME Typed, NEW t \in Tools, PullStep(t) PROVE Learns(t)
<1> USE DEF Typed, ToolType, Kept, Documents
<1>1. CASE BindPr(t) \/ WatchCi(t)
  <2>1. doc' = doc
    BY <1>1 DEF BindPr, WatchCi, Reads
  <2>2. PICK c \in Made, to \in {"b_find", "w_write"}, ci \in CiStates :
          Committed(c) /\ \/ Goto(t, "idle", to, [Blank EXCEPT !.commit = c])
                          \/ Goto(t, "idle", to, [Blank EXCEPT !.commit = c, !.ci = ci])
    BY <1>1, CombineCiType DEF BindPr, WatchCi
  <2>3. [Blank EXCEPT !.commit = c].commit = c
        /\ [Blank EXCEPT !.commit = c, !.ci = ci].commit = c
    BY DEF Blank
  <2>4. pc'[t] \in {"b_find", "w_write"} /\ local'[t].commit = doc.state.commit
    BY <2>2, <2>3 DEF Goto, Committed
  <2> QED BY <2>1, <2>4 DEF Learns
<1>2. CASE FindPull(t) \/ FindNoPull(t) \/ CreatePull(t) \/ CheckPull(t)
  <2>1. doc' = doc
    BY <1>2 DEF FindPull, FindNoPull, CreatePull, CheckPull, Reads
  <2>2. pc[t] \in {"b_find", "b_create", "b_check"}
        /\ pc'[t] \in {"b_create", "b_check", "b_write"}
        /\ local'[t].commit = local[t].commit
    BY <1>2 DEF FindPull, FindNoPull, CreatePull, CheckPull, Goto
  <2> QED BY <2>1, <2>2 DEF Learns, Beyond
<1>3. CASE WriteBinding(t) \/ WriteBoundState(t) \/ WriteCiStatus(t) \/ WriteCiState(t)
  <2>1. pc[t] \in {"b_write", "b_state", "w_write", "w_state"}
        /\ pc'[t] \in {"b_state", "w_state", "idle"}
        /\ (pc'[t] # "idle" => local'[t] = local[t])
    BY <1>3 DEF WriteBinding, WriteBoundState, WriteCiStatus, WriteCiState, Writes, Goto
  <2>2. /\ doc'.state.commit \in {doc.state.commit, local[t].commit}
        /\ doc'.commitResult.commit = doc.commitResult.commit
    BY <1>3 DEF WriteBinding, WriteBoundState, WriteCiStatus, WriteCiState, Writes, Stage
  <2> QED BY <2>1, <2>2 DEF Learns, Beyond
<1> QED BY <1>1, <1>2, <1>3 DEF PullStep

LEMMA MergeLearns ==
  ASSUME Typed, NEW t \in Tools, MergeStep(t) \/ Abandon(t) PROVE Learns(t)
<1> USE DEF Typed, ToolType, Kept, Documents
<1>1. CASE MergeHandoff(t) \/ GoMerge(t)
  <2>1. doc' = doc
    BY <1>1 DEF MergeHandoff, GoMerge, Reads
  <2>2. PICK c \in Made, to \in {"m_pull", "g_pull"} :
          Committed(c) /\ \/ Goto(t, "idle", to,
                                  [Blank EXCEPT !.commit = c, !.stage = doc.state.stage])
                          \/ Goto(t, "idle", to,
                                  [Blank EXCEPT !.commit = c, !.pr = doc.mergeHandoff.pr])
    BY <1>1 DEF MergeHandoff, GoMerge
  <2>3. [Blank EXCEPT !.commit = c, !.stage = doc.state.stage].commit = c
        /\ [Blank EXCEPT !.commit = c, !.pr = doc.mergeHandoff.pr].commit = c
    BY DEF Blank
  <2>4. pc'[t] \in {"m_pull", "g_pull"} /\ local'[t].commit = doc.state.commit
    BY <2>2, <2>3 DEF Goto, Committed
  <2> QED BY <2>1, <2>4 DEF Learns
<1>2. CASE Closure(t)
  <2>1. doc' = doc /\ pc'[t] = "k_write"
        /\ local'[t].commit = doc.commitResult.commit
    BY <1>2 DEF Closure, Reads, Goto, Blank
  <2> QED BY <2>1 DEF Learns
<1>3. CASE HandoffPull(t) \/ HandoffCi(t) \/ MergePull(t) \/ MergeCi(t) \/ Merge(t)
           \/ VerifyMerge(t)
  <2>1. doc' = doc
    BY <1>3 DEF HandoffPull, HandoffCi, MergePull, MergeCi, Merge, VerifyMerge,
       RecheckPull, RecheckCi, Reads
  <2>2. pc[t] \in {"m_pull", "m_ci", "g_pull", "g_ci", "g_merge", "g_verify"}
        /\ pc'[t] \notin {"c_head", "c_push"}
        /\ local'[t].commit = local[t].commit
    BY <1>3 DEF HandoffPull, HandoffCi, MergePull, MergeCi, Merge, VerifyMerge,
       RecheckPull, RecheckCi, Goto
  <2> QED BY <2>1, <2>2 DEF Learns, Beyond
<1>4. CASE WriteMergeHandoff(t) \/ WriteMergeHandoffState(t) \/ WriteMergeResult(t)
           \/ WriteMergedState(t) \/ WriteClosure(t) \/ WriteReleasedState(t)
  <2>1. pc[t] \in {"m_write", "m_state", "g_verified", "g_unverified", "g_state",
                   "k_write", "k_state"}
        /\ pc'[t] \in {"m_state", "g_state", "k_state", "idle"}
        /\ (pc'[t] # "idle" => local'[t] = local[t])
    BY <1>4 DEF WriteMergeHandoff, WriteMergeHandoffState, WriteMergeResult,
       WriteMergedState, WriteClosure, WriteReleasedState, Writes, Goto
  <2>2. /\ doc'.state.commit \in {doc.state.commit, local[t].commit}
        /\ doc'.commitResult.commit = doc.commitResult.commit
    BY <1>4 DEF WriteMergeHandoff, WriteMergeHandoffState, WriteMergeResult,
       WriteMergedState, WriteClosure, WriteReleasedState, Writes, Stage
  <2> QED BY <2>1, <2>2 DEF Learns, Beyond
<1>5. CASE Abandon(t)
  <2>1. pc'[t] = "idle" /\ doc' = doc
    BY <1>5 DEF Abandon, Goto
  <2> QED BY <2>1 DEF Learns, Beyond
<1> QED BY <1>1, <1>2, <1>3, <1>4, <1>5 DEF MergeStep

(* A command is alone in what it changes of what commands know.            *)
LEMMA OthersKnow ==
  ASSUME Typed, NEW t \in Tools, Tool(t)
  PROVE  \A u \in Tools \ {t} : pc'[u] = pc[u] /\ local'[u] = local[u]
<1>1. ASSUME NEW from, NEW to, NEW keep, Goto(t, from, to, keep)
      PROVE  \A u \in Tools \ {t} : pc'[u] = pc[u] /\ local'[u] = local[u]
  BY <1>1 DEF Goto, Typed, ToolType
<1>2. CASE CommitStep(t)
  BY <1>1, <1>2 DEF CommitStep, Handoff, WriteCommitHandoff, HandoffStage,
     HandoffKeepsStage, WriteHandoffState, GoCommit, RecheckCommit, CommitAll,
     ReadCommitted, PushExpects, Push, WriteCommitResult, WriteCommitState, Writes
<1>3. CASE PullStep(t)
  BY <1>1, <1>3 DEF PullStep, BindPr, FindPull, FindNoPull, CreatePull, CheckPull,
     WriteBinding, WriteBoundState, WatchCi, WriteCiStatus, WriteCiState, Writes
<1>4. CASE MergeStep(t)
  BY <1>1, <1>4 DEF MergeStep, MergeHandoff, HandoffPull, HandoffCi, RecheckPull,
     RecheckCi, WriteMergeHandoff, WriteMergeHandoffState, GoMerge, MergePull,
     MergeCi, Merge, VerifyMerge, WriteMergeResult, WriteMergedState, Closure,
     WriteClosure, WriteReleasedState, Writes
<1>5. CASE Abandon(t)
  BY <1>1, <1>5 DEF Abandon
<1> QED BY <1>2, <1>3, <1>4, <1>5 DEF Tool

LEMMA KnownKept ==
  ASSUME Typed, Typed', PushInv, [Next]_vars PROVE PushInv'
<1> USE DEF PushInv
<1>1. /\ History'
      /\ \A c \in Nat : On(c) => On(c)'
      /\ commits[head].ancestors \subseteq commits'[head'].ancestors
  BY NothingLost
<1>2. /\ doc.state.commit \in Nat /\ doc.commitResult.commit \in Nat
      /\ \A u \in Tools : local[u].commit \in Nat
  BY DEF Typed, ToolType, Documents, Kept, Shas
<1>3. CASE doc' = doc /\ pc' = pc /\ local' = local
  BY <1>1, <1>2, <1>3 DEF Known, On
<1>4. CASE \E t \in Tools : Tool(t)
  <2> PICK t \in Tools : Tool(t)
    BY <1>4
  <2>1. Learns(t)
    BY CommitLearns, PullLearns, MergeLearns DEF Tool
  <2>2. On(doc.state.commit)' /\ On(doc.commitResult.commit)'
    BY <1>1, <1>2, <2>1 DEF Learns, Known, On
  <2>3. pc'[t] \in Beyond => On(local[t].commit)'
    <3>1. CASE Push(t) /\ pc[t] = "c_push" /\ local'[t].commit = local[t].commit
      <4>1. tip' = head /\ commits' = commits /\ head \in Made
        BY <3>1 DEF Push, repo, Typed, RepoType
      <4>2. local[t].commit \in commits[head].ancestors
        BY <3>1 DEF Known
      <4> QED BY <3>1, <4>1, <4>2 DEF On, Made
    <3>2. CASE pc[t] \in Beyond /\ local'[t].commit = local[t].commit
      BY <1>1, <1>2, <3>2 DEF Known, On
    <3>3. CASE local'[t].commit \in {doc.state.commit, doc.commitResult.commit}
      BY <1>1, <1>2, <3>3 DEF Known, On
    <3> QED BY <2>1, <3>1, <3>2, <3>3 DEF Learns
  <2>4. pc'[t] \in {"c_head", "c_push"} =>
          local'[t].commit \in commits'[head'].ancestors
    <3>1. head \in commits[head].ancestors
      BY DEF History, Typed, RepoType
    <3> QED BY <1>1, <2>1, <3>1 DEF Learns, Known
  <2>5. \A u \in Tools \ {t} : pc'[u] = pc[u] /\ local'[u] = local[u]
    BY OthersKnow
  <2>6. \A u \in Tools \ {t} :
          /\ pc'[u] \in Beyond => On(local[u].commit)'
          /\ pc'[u] \in {"c_head", "c_push"} =>
               local'[u].commit \in commits'[head'].ancestors
    BY <1>1, <1>2, <2>5 DEF Known, On
  <2> QED BY <1>1, <2>2, <2>3, <2>4, <2>6 DEF Known
<1>5. CASE Elsewhere \/ UNCHANGED vars
  BY <1>3, <1>5 DEF Elsewhere, ChecksMove, Others, vars
<1> QED BY <1>4, <1>5 DEF Next

(* The commit of the release state is on the remote branch, whoever pushes *)
(* or commits meanwhile (handoff.go_commit).                               *)
THEOREM CommitsArePushed == Spec => []CommittedIsPushed
<1>1. Init => Typed /\ PushInv
  <2> SUFFICES ASSUME Init PROVE PushInv
    BY InitTyped
  <2>1. Made = {1} /\ commits[1].ancestors = {1} /\ \A t \in Tools : pc[t] = "idle"
    BY DEF Init, Made
  <2>2. doc.state.commit = 0 /\ doc.commitResult.commit = 0
    BY DEF Init
  <2> QED BY <2>1, <2>2 DEF PushInv, History, Known, On, Beyond
<1>2. Typed /\ PushInv /\ [Next]_vars => (Typed /\ PushInv)'
  BY NextTyped, KnownKept
<1>3. PushInv => CommittedIsPushed
  BY DEF PushInv, Known, On, CommittedIsPushed
<1> QED BY <1>1, <1>2, <1>3, PTL DEF Spec

------------------------------------------------------------------------------
(* A process that may commit, forget a commit, or open a pull request.     *)
Releases(t) == Commands[t] \cap {"handoff", "go_commit", "bind_pr"} # {}

OneReleaser == \A t, u \in Tools : Releases(t) /\ Releases(u) => t = u

------------------------------------------------------------------------------
(* The steps of handoff that change the stage, and of go-commit; those of  *)
(* the commands that follow a commit; those of the one process.            *)
Tearing == {"c_verify", "c_head", "c_push", "c_result", "c_state"}
Before == {"h_put", "c_recheck", "c_commit"} \cup Tearing
Binding == {"b_find", "b_create", "b_check", "b_write", "b_state"}
Closing == {"k_write", "k_state"}
After == Binding \cup Merging \cup Closing
           \cup {"w_write", "w_state", "m_pull", "m_ci", "m_write", "m_state",
                 "g_pull", "g_ci", "g_merge", "g_state"}
Owned == {"h_write", "h_state"} \cup Before \cup Binding

(* No commit is recorded.                                                  *)
Early == doc.state.stage \in {"NONE", "COMMIT_HANDOFF"}

(* The commit of the release was merged.                                   *)
Landed == \E i \in DOMAIN merged : merged[i].commit = doc.state.commit

Released == {c \in Made : commits[c].by = "release"}

(* The stage says which commands are at work, and which commit they keep.  *)
Staged ==
  /\ Early => doc.state.commit = 0 /\ doc.mergeResult.pr = 0
  /\ ~Early => doc.state.commit # 0
  /\ doc.binding.commit \in {0, doc.state.commit}
  /\ doc.closure.commit \in {0, doc.state.commit}

AtWork ==
  \A t \in Tools :
    /\ pc[t] \in Owned => Releases(t)
    /\ pc[t] \in Before => Early
    /\ pc[t] \in After => ~Early /\ local[t].commit = doc.state.commit
    /\ pc[t] \in Tearing \ {"c_verify"} => local[t].commit # 0

(* What is recorded as merged is.                                          *)
Truth ==
  \/ Landed
  \/ /\ doc.mergeResult.pr = 0 /\ doc.closure.commit = 0
     /\ \A t \in Tools : pc[t] \notin Merging \cup Closing

(* A commit is made once, on the way to its record.                        *)
OneCommit ==
  \/ "commit" \in torn
  \/ /\ \A c, d \in Released : c = d
     /\ Released # {} => ~Early \/ \E t \in Tools : pc[t] \in Tearing

(* A pull request is opened once, and merged once.                         *)
OnePull ==
  /\ Len(pulls) <= 1 /\ Len(merged) <= 1
  /\ merged # <<>> => pulls # <<>> /\ \A p \in DOMAIN pulls : ~Open(p)
  /\ \A t \in Tools : pc[t] = "b_create" => pulls = <<>>

ChainInv == Staged /\ AtWork /\ Truth /\ OneCommit /\ OnePull

------------------------------------------------------------------------------
(* What t's step may change, when it makes no commit, no record of one, no *)
(* pull request and no merge.                                              *)
Orderly(t) ==
  /\ UNCHANGED <<commits, merged, pulls>>
  /\ doc'.state.commit = doc.state.commit
  /\ doc'.state.stage \in {"NONE", "COMMIT_HANDOFF"} <=> Early
  /\ doc'.binding.commit \in {doc.binding.commit, doc.state.commit}
  /\ \/ doc'.mergeResult.pr = doc.mergeResult.pr
     \/ pc[t] \in Merging
  /\ \/ doc'.closure.commit = doc.closure.commit
     \/ pc[t] \in Closing /\ doc'.closure.commit = doc.state.commit
  /\ torn \subseteq torn'
  /\ pc[t] \in Tearing /\ pc'[t] \notin Tearing => "commit" \in torn'
  /\ pc'[t] \in Owned => Releases(t)
  /\ pc'[t] \in Before => Early
  /\ pc'[t] \in After => ~Early /\ local'[t].commit = doc.state.commit
  /\ pc'[t] \in Tearing \ {"c_verify"} => local'[t].commit # 0
  /\ pc'[t] \in Merging \cup Closing => Landed
  /\ pc'[t] = "b_create" => pulls = <<>>

(* Such a step keeps the chain.                                            *)
LEMMA OrderlyKeeps ==
  ASSUME Typed, ChainInv, NEW t \in Tools, Tool(t), Orderly(t)
  PROVE  ChainInv'
<1> USE DEF ChainInv
<1>1. \A u \in Tools \ {t} : pc'[u] = pc[u] /\ local'[u] = local[u]
  BY OthersKnow
<1>2. (Early' <=> Early) /\ (Landed' <=> Landed) /\ Released' = Released
  BY DEF Orderly, Early, Landed, Released, Made
<1>4. pc[t] \in Merging \cup Closing => Landed /\ ~Early
  BY DEF Truth, AtWork, After
<1>5. Staged'
  BY <1>2, <1>4 DEF Orderly, Staged
<1>6. AtWork'
  BY <1>1, <1>2 DEF Orderly, AtWork
<1>7. Truth'
  BY <1>1, <1>2, <1>4 DEF Orderly, Truth
<1>8. OneCommit'
  BY <1>1, <1>2 DEF Orderly, OneCommit
<1>9. OnePull'
  BY <1>1 DEF Orderly, OnePull, Open
<1> QED BY <1>5, <1>6, <1>7, <1>8, <1>9

(* handoff and go-commit, but for the commit and its record.               *)
LEMMA CommitOrderly ==
  ASSUME Typed, ChainInv, NEW t \in Tools, CommitStep(t),
         ~CommitAll(t), ~WriteCommitState(t)
  PROVE  Orderly(t)
<1> USE DEF ChainInv, Tearing, Before, Owned
<1>0. pc'[t] \notin After \cup Merging \cup Closing \cup {"b_create"}
  BY DEF CommitStep, Handoff, WriteCommitHandoff, HandoffStage, HandoffKeepsStage,
     WriteHandoffState, GoCommit, RecheckCommit, ReadCommitted, PushExpects, Push,
     WriteCommitResult, Writes, Goto, Typed, ToolType, After, Binding, Merging, Closing
<1>1. CASE Handoff(t) \/ GoCommit(t)
  <2>1. Releases(t)
    BY <1>1 DEF Handoff, GoCommit, Begin, Releases
  <2>2. /\ pc[t] = "idle" /\ doc' = doc /\ torn' = torn
        /\ \/ pc'[t] = "h_write"
           \/ pc'[t] = "c_recheck" /\ Early
    <3>1. pc \in [Tools -> Steps]
      BY DEF Typed, ToolType
    <3>2. CASE Handoff(t)
      BY <3>1, <3>2 DEF Handoff, Begin, Goto, Reads, observed
    <3>3. CASE GoCommit(t)
      BY <3>1, <3>3 DEF GoCommit, Begin, Goto, Reads, observed, Early
    <3> QED BY <1>1, <3>2, <3>3
  <2> QED BY <1>0, <1>1, <2>1, <2>2 DEF Orderly, Handoff, GoCommit, Reads, repo, github,
                                  Early
<1>2. CASE HandoffStage(t) \/ HandoffKeepsStage(t) \/ RecheckCommit(t)
           \/ ReadCommitted(t) \/ PushExpects(t) \/ Push(t)
  <2>1. /\ doc' = doc /\ torn' = torn /\ UNCHANGED <<commits, merged, pulls>>
    BY <1>2 DEF HandoffStage, HandoffKeepsStage, RecheckCommit, ReadCommitted,
       PushExpects, Push, Reads, repo, github, observed
  <2>2. pc[t] \in {"h_state"} \cup Before /\ (pc[t] \in Before => Early) /\ Releases(t)
    BY <1>2 DEF HandoffStage, HandoffKeepsStage, RecheckCommit, ReadCommitted,
       PushExpects, Push, Goto, AtWork
  <2>3. pc'[t] \in Before => Early
    BY <1>2, <2>2 DEF HandoffStage, HandoffKeepsStage, RecheckCommit, ReadCommitted,
       PushExpects, Push, Goto, Early, Typed, ToolType
  <2>4. pc[t] \in Tearing => pc'[t] \in Tearing
    BY <1>2 DEF HandoffStage, HandoffKeepsStage, RecheckCommit, ReadCommitted,
       PushExpects, Push, Goto, Typed, ToolType
  <2>5. pc'[t] \in Tearing \ {"c_verify"} => local'[t].commit # 0
    <3>1. head # 0
      BY DEF Typed, RepoType, Made
    <3>2. CASE ReadCommitted(t)
      <4>1. local'[t] = [local[t] EXCEPT !.commit = head] /\ local[t] \in Kept
        BY <3>2 DEF ReadCommitted, Goto, Typed, ToolType
      <4> QED BY <3>1, <4>1 DEF Kept
    <3>3. CASE PushExpects(t) \/ Push(t)
      BY <3>3 DEF PushExpects, Push, Goto, AtWork, Typed, ToolType
    <3>4. CASE HandoffStage(t) \/ HandoffKeepsStage(t) \/ RecheckCommit(t)
      BY <3>4 DEF HandoffStage, HandoffKeepsStage, RecheckCommit, Goto, Typed, ToolType
    <3> QED BY <1>2, <3>2, <3>3, <3>4
  <2> QED BY <1>0, <2>1, <2>2, <2>3, <2>4, <2>5 DEF Orderly, Early
<1>3. CASE WriteCommitHandoff(t) \/ WriteHandoffState(t) \/ WriteCommitResult(t)
  <2>1. /\ torn' = torn /\ UNCHANGED <<commits, merged, pulls>>
        /\ doc'.binding = doc.binding /\ doc'.mergeResult = doc.mergeResult
        /\ doc'.closure = doc.closure
    BY <1>3 DEF WriteCommitHandoff, WriteHandoffState, WriteCommitResult, Writes,
       Stage, repo, github, observed, Typed, Documents
  <2>2. /\ \/ pc[t] = "h_write" /\ pc'[t] = "h_state"
           \/ pc[t] = "h_put" /\ pc'[t] = "idle"
           \/ pc[t] = "c_result" /\ pc'[t] = "c_state" /\ local'[t] = local[t]
        /\ pc[t] = "h_put" \/ doc'.state = doc.state
        /\ pc[t] = "h_put" => doc'.state = [stage |-> "COMMIT_HANDOFF", commit |-> 0]
    <3>1. pc \in [Tools -> Steps] /\ local \in [Tools -> Kept] /\ doc \in Documents
      BY DEF Typed, ToolType
    <3>2. CASE WriteCommitHandoff(t)
      BY <3>1, <3>2 DEF WriteCommitHandoff, Writes, Goto, Documents
    <3>3. CASE WriteHandoffState(t)
      BY <3>1, <3>3 DEF WriteHandoffState, Writes, Goto, Stage, Documents
    <3>4. CASE WriteCommitResult(t)
      BY <3>1, <3>4 DEF WriteCommitResult, Writes, Goto, Documents
    <3> QED BY <1>3, <3>2, <3>3, <3>4
  <2>3. /\ Releases(t) /\ (pc[t] # "h_write" => Early)
        /\ pc[t] = "c_result" => local[t].commit # 0
    BY <2>2 DEF AtWork
  <2>4. Early => doc.state.commit = 0
    BY DEF Staged
  <2> QED BY <1>0, <2>1, <2>2, <2>3, <2>4 DEF Orderly, Early
<1> QED BY <1>1, <1>2, <1>3 DEF CommitStep

(* A step on the recorded commit that writes at most its own documents.    *)
Follows(t) ==
  /\ UNCHANGED <<commits, merged, pulls, torn>>
  /\ doc'.state.commit = doc.state.commit
  /\ doc'.state.stage \in {"NONE", "COMMIT_HANDOFF"} <=> Early
  /\ doc'.binding.commit \in {doc.binding.commit, doc.state.commit}
  /\ pc[t] \in {"idle"} \cup After /\ pc'[t] \in {"idle"} \cup After
  /\ pc'[t] \in After => ~Early /\ local'[t].commit = doc.state.commit
  /\ pc'[t] = "b_create" => pulls = <<>>
  /\ pc'[t] \in Binding => Releases(t)
  /\ pc'[t] \in Merging => pc[t] \in Merging

(* Such a step is orderly.                                                 *)
LEMMA FollowsOrderly ==
  ASSUME NEW t \in Tools, Follows(t),
         doc'.mergeResult.pr = doc.mergeResult.pr \/ pc[t] \in Merging,
         \/ doc'.closure.commit = doc.closure.commit
         \/ pc[t] \in Closing /\ doc'.closure.commit = doc.state.commit,
         pc[t] \in Merging \cup Closing => Landed,
         pc'[t] \in Closing => pc[t] \in Closing \/ Landed
  PROVE  Orderly(t)
BY DEF Follows, Orderly, After, Before, Tearing, Owned, Binding, Merging, Closing

(* A process that begins on the commit the state names.                    *)
LEMMA CommittedLate ==
  ASSUME Typed, ChainInv, NEW c, Committed(c)
  PROVE  c = doc.state.commit /\ c # 0 /\ ~Early
BY DEF ChainInv, Staged, Committed

(* bind-pr and watch-ci, but for the pull request.                         *)
LEMMA PullOrderly ==
  ASSUME Typed, ChainInv, NEW t \in Tools, PullStep(t), ~CreatePull(t)
  PROVE  Orderly(t)
<1> USE DEF ChainInv
<1>0. pc \in [Tools -> Steps] /\ local \in [Tools -> Kept] /\ doc \in Documents
  BY DEF Typed, ToolType
<1>1. /\ pc[t] \in After => ~Early /\ local[t].commit = doc.state.commit
      /\ pc[t] \in Binding => Releases(t)
  BY DEF AtWork, Owned
<1>2. Follows(t) /\ doc'.mergeResult = doc.mergeResult /\ doc'.closure = doc.closure
      /\ pc[t] \notin Merging \cup Closing /\ pc'[t] \notin Closing
  <2>1. CASE BindPr(t) \/ WatchCi(t)
    <3>1. PICK c \in Made : /\ Committed(c)
                            /\ \/ /\ Goto(t, "idle", "b_find", [Blank EXCEPT !.commit = c])
                                  /\ Releases(t)
                               \/ Goto(t, "idle", "w_write",
                                   [Blank EXCEPT !.commit = c, !.ci = CombineCi(checks[c])])
      BY <2>1 DEF BindPr, WatchCi, Begin, Releases
    <3>2. c = doc.state.commit /\ ~Early
      BY <3>1, CommittedLate
    <3>3. /\ pc[t] = "idle" /\ local'[t].commit = c
          /\ \/ pc'[t] = "w_write"
             \/ pc'[t] = "b_find" /\ Releases(t)
      <4>1. \A ci : /\ [Blank EXCEPT !.commit = c].commit = c
                    /\ [Blank EXCEPT !.commit = c, !.ci = ci].commit = c
        BY DEF Blank
      <4>2. CASE Goto(t, "idle", "b_find", [Blank EXCEPT !.commit = c]) /\ Releases(t)
        BY <1>0, <4>1, <4>2 DEF Goto
      <4>3. CASE Goto(t, "idle", "w_write",
                      [Blank EXCEPT !.commit = c, !.ci = CombineCi(checks[c])])
        <5>1. local'[t] = [Blank EXCEPT !.commit = c, !.ci = CombineCi(checks[c])]
              /\ pc[t] = "idle" /\ pc'[t] = "w_write"
          BY <1>0, <4>3 DEF Goto
        <5> QED BY <4>1, <5>1
      <4> QED BY <3>1, <4>2, <4>3
    <3>4. doc' = doc /\ UNCHANGED <<commits, merged, pulls, torn>>
      BY <2>1 DEF BindPr, WatchCi, Reads, repo, github, observed
    <3> QED BY <3>2, <3>3, <3>4 DEF Follows, After, Binding, Merging, Closing, Early
  <2>2. CASE FindPull(t) \/ FindNoPull(t) \/ CheckPull(t)
    <3>1. doc' = doc /\ UNCHANGED <<commits, merged, pulls, torn>>
      BY <2>2 DEF FindPull, FindNoPull, CheckPull, Reads, repo, github, observed
    <3>2. /\ pc[t] \in {"b_find", "b_check"} /\ pc'[t] \in {"b_write", "b_create"}
          /\ pc'[t] = "b_create" => pulls = <<>>
          /\ local'[t].commit = local[t].commit
      BY <1>0, <2>2 DEF FindPull, FindNoPull, CheckPull, Goto, Kept
    <3> QED BY <1>1, <3>1, <3>2 DEF Follows, After, Binding, Merging, Closing, Early
  <2>3. CASE WriteBinding(t) \/ WriteCiStatus(t)
    <3>1. /\ doc'.state = doc.state /\ UNCHANGED <<commits, merged, pulls, torn>>
          /\ doc'.mergeResult = doc.mergeResult /\ doc'.closure = doc.closure
          /\ \/ doc'.binding.commit = doc.binding.commit
             \/ pc[t] = "b_write" /\ doc'.binding.commit = local[t].commit
      <4>1. CASE WriteBinding(t)
        BY <1>0, <4>1 DEF WriteBinding, Writes, Goto, Documents, repo, github, observed
      <4>2. CASE WriteCiStatus(t)
        BY <1>0, <4>2 DEF WriteCiStatus, Writes, Documents, repo, github, observed
      <4> QED BY <2>3, <4>1, <4>2
    <3>2. /\ \/ pc[t] = "b_write" /\ pc'[t] = "b_state"
             \/ pc[t] = "w_write" /\ pc'[t] = "w_state"
          /\ local'[t] = local[t]
      BY <1>0, <2>3 DEF WriteBinding, WriteCiStatus, Writes, Goto
    <3> QED BY <1>1, <3>1, <3>2 DEF Follows, After, Binding, Merging, Closing, Early
  <2>4. CASE WriteBoundState(t) \/ WriteCiState(t)
    <3>1. /\ UNCHANGED <<commits, merged, pulls, torn>>
          /\ doc'.mergeResult = doc.mergeResult /\ doc'.closure = doc.closure
          /\ doc'.binding = doc.binding /\ doc'.state.commit = local[t].commit
          /\ doc'.state.stage \notin {"NONE", "COMMIT_HANDOFF"}
      BY <1>0, <2>4 DEF WriteBoundState, WriteCiState, Writes, Stage, CiStage,
         Documents, repo, github, observed
    <3>2. pc[t] \in {"b_state", "w_state"} /\ pc'[t] = "idle"
      BY <1>0, <2>4 DEF WriteBoundState, WriteCiState, Writes, Goto
    <3> QED BY <1>1, <3>1, <3>2 DEF Follows, After, Binding, Merging, Closing
  <2> QED BY <2>1, <2>2, <2>3, <2>4 DEF PullStep
<1> QED BY <1>2, FollowsOrderly

(* A command that stops: a commit it made is torn.                         *)
LEMMA AbandonOrderly ==
  ASSUME NEW t \in Tools, Typed, Abandon(t) PROVE Orderly(t)
<1>1. pc'[t] = "idle" /\ doc' = doc /\ UNCHANGED <<commits, merged, pulls>>
      /\ torn' = torn \cup Unrecorded(pc[t])
  BY DEF Abandon, Goto, Typed, ToolType, repo, github
<1>2. pc[t] \in Tearing => "commit" \in Unrecorded(pc[t])
  BY DEF Tearing, Unrecorded
<1> QED BY <1>1, <1>2 DEF Orderly, Early, Tearing, Owned, Before, After, Binding,
                          Merging, Closing

(* merge-handoff, go-merge and closure: what they read, ...                *)
LEMMA MergeReadsOrderly ==
  ASSUME Typed, ChainInv, NEW t \in Tools,
         \/ MergeHandoff(t) \/ HandoffPull(t) \/ HandoffCi(t) \/ GoMerge(t)
         \/ MergePull(t) \/ MergeCi(t) \/ VerifyMerge(t) \/ Closure(t)
  PROVE  Orderly(t)
<1> USE DEF ChainInv
<1>0. pc \in [Tools -> Steps] /\ local \in [Tools -> Kept] /\ doc \in Documents
  BY DEF Typed, ToolType
<1>1. /\ pc[t] \in After => ~Early /\ local[t].commit = doc.state.commit
      /\ pc[t] \in Merging \cup Closing => Landed
  BY DEF AtWork, Truth
<1>2. doc' = doc /\ UNCHANGED <<commits, merged, pulls, torn>>
  BY DEF MergeHandoff, HandoffPull, HandoffCi, GoMerge, MergePull, MergeCi,
     VerifyMerge, Closure, RecheckPull, RecheckCi, Reads, repo, github, observed
<1>3. /\ pc[t] \in {"idle"} \cup After /\ pc'[t] \in {"idle"} \cup After
      /\ pc'[t] \notin Binding /\ (pc'[t] \in Merging => pc[t] \in Merging)
      /\ pc'[t] \in After => ~Early /\ local'[t].commit = doc.state.commit
      /\ pc'[t] \in Closing => Landed
  <2>1. CASE MergeHandoff(t) \/ GoMerge(t)
    <3>1. PICK c \in Made, to \in {"m_pull", "g_pull"} :
            Committed(c) /\ \/ Goto(t, "idle", to,
                                    [Blank EXCEPT !.commit = c, !.stage = doc.state.stage])
                            \/ Goto(t, "idle", to,
                                    [Blank EXCEPT !.commit = c, !.pr = doc.mergeHandoff.pr])
      BY <2>1 DEF MergeHandoff, GoMerge
    <3>2. c = doc.state.commit /\ ~Early
      BY <3>1, CommittedLate
    <3>3. [Blank EXCEPT !.commit = c, !.stage = doc.state.stage].commit = c
          /\ [Blank EXCEPT !.commit = c, !.pr = doc.mergeHandoff.pr].commit = c
      BY DEF Blank
    <3>4. pc[t] = "idle" /\ pc'[t] = to /\ local'[t].commit = c
      BY <1>0, <3>1, <3>3 DEF Goto
    <3> QED BY <3>2, <3>4 DEF After, Binding, Merging, Closing
  <2>2. CASE HandoffPull(t) \/ HandoffCi(t) \/ MergePull(t) \/ MergeCi(t) \/ VerifyMerge(t)
    <3>1. /\ pc[t] \in {"m_pull", "m_ci", "g_pull", "g_ci", "g_verify"}
          /\ pc'[t] \in {"m_ci", "m_write", "g_ci", "g_merge", "g_verified", "g_unverified"}
          /\ (pc'[t] \in {"g_verified", "g_unverified"} => pc[t] = "g_verify")
          /\ local'[t].commit = local[t].commit
      BY <1>0, <2>2 DEF HandoffPull, HandoffCi, MergePull, MergeCi, VerifyMerge,
         RecheckPull, RecheckCi, Goto, Kept
    <3> QED BY <1>1, <3>1 DEF After, Binding, Merging, Closing
  <2>3. CASE Closure(t)
    <3>1. /\ pc[t] = "idle" /\ pc'[t] = "k_write" /\ local'[t].commit = doc.binding.commit
          /\ doc.mergeResult.pr # 0 /\ doc.binding.commit # 0
      BY <1>0, <2>3 DEF Closure, Goto, Blank
    <3>2. doc.binding.commit = doc.state.commit /\ ~Early /\ Landed
      BY <3>1 DEF Staged, Truth
    <3> QED BY <3>1, <3>2 DEF After, Binding, Merging, Closing
  <2> QED BY <2>1, <2>2, <2>3
<1>4. pc'[t] # "b_create"
  BY <1>3 DEF Binding
<1>5. Follows(t)
  BY <1>2, <1>3, <1>4 DEF Follows, Early
<1> QED BY <1>1, <1>2, <1>3, <1>5, FollowsOrderly

(* ... and what they write.                                                *)
LEMMA MergeWritesOrderly ==
  ASSUME Typed, ChainInv, NEW t \in Tools,
         \/ WriteMergeHandoff(t) \/ WriteMergeHandoffState(t) \/ WriteMergeResult(t)
         \/ WriteMergedState(t) \/ WriteClosure(t) \/ WriteReleasedState(t)
  PROVE  Orderly(t)
<1> USE DEF ChainInv
<1>0. pc \in [Tools -> Steps] /\ local \in [Tools -> Kept] /\ doc \in Documents
  BY DEF Typed, ToolType
<1>1. /\ pc[t] \in After => ~Early /\ local[t].commit = doc.state.commit
      /\ pc[t] \in Merging \cup Closing => Landed
  BY DEF AtWork, Truth
<1>2. UNCHANGED <<commits, merged, pulls, torn>>
  BY DEF WriteMergeHandoff, WriteMergeHandoffState, WriteMergeResult, WriteMergedState,
     WriteClosure, WriteReleasedState, Writes, repo, github, observed
<1>3. /\ pc[t] \in {"m_write", "m_state", "g_verified", "g_unverified", "g_state",
                    "k_write", "k_state"}
      /\ pc'[t] \in {"idle", "m_state", "g_state", "k_state"}
      /\ pc'[t] = "k_state" => pc[t] = "k_write"
      /\ pc'[t] # "idle" => local'[t] = local[t]
  BY <1>0 DEF WriteMergeHandoff, WriteMergeHandoffState, WriteMergeResult,
     WriteMergedState, WriteClosure, WriteReleasedState, Writes, Goto
<1>4. ~Early /\ local[t].commit = doc.state.commit
  BY <1>1, <1>3 DEF After, Merging, Closing
<1>5. /\ doc'.binding = doc.binding
      /\ doc'.state.commit = doc.state.commit
      /\ doc'.state.stage \notin {"NONE", "COMMIT_HANDOFF"}
      /\ doc'.mergeResult = doc.mergeResult \/ pc[t] \in Merging
      /\ \/ doc'.closure = doc.closure
         \/ pc[t] \in Closing /\ doc'.closure.commit = doc.state.commit
  <2>1. CASE WriteMergeHandoff(t)
    BY <1>0, <1>4, <2>1 DEF WriteMergeHandoff, Writes, Documents, Early
  <2>2. CASE WriteMergeHandoffState(t) \/ WriteMergedState(t) \/ WriteReleasedState(t)
    BY <1>0, <1>4, <2>2 DEF WriteMergeHandoffState, WriteMergedState,
       WriteReleasedState, Writes, Stage, Documents
  <2>3. CASE WriteMergeResult(t)
    BY <1>0, <1>4, <2>3 DEF WriteMergeResult, Writes, Goto, Documents, Early, Merging
  <2>4. CASE WriteClosure(t)
    BY <1>0, <1>4, <2>4 DEF WriteClosure, Writes, Goto, Documents, Early, Closing
  <2> QED BY <2>1, <2>2, <2>3, <2>4
<1>6. Follows(t)
  BY <1>2, <1>3, <1>4, <1>5 DEF Follows, After, Binding, Merging, Closing
<1>7. pc'[t] \in Closing => pc[t] \in Closing
  BY <1>3 DEF Closing
<1> QED BY <1>1, <1>5, <1>6, <1>7, FollowsOrderly

------------------------------------------------------------------------------
(* The commit: no other was made, and its record is on its way.            *)
LEMMA CommitAllKeeps ==
  ASSUME Typed, OneReleaser, ChainInv, NEW t \in Tools, CommitAll(t) PROVE ChainInv'
<1> USE DEF ChainInv
<1>0. pc \in [Tools -> Steps] /\ local \in [Tools -> Kept]
  BY DEF Typed, ToolType
<1>1. /\ pc[t] = "c_commit" /\ pc'[t] = "c_verify"
      /\ \A u \in Tools \ {t} : pc'[u] = pc[u] /\ local'[u] = local[u]
      /\ UNCHANGED <<doc, merged, pulls, torn>>
  BY <1>0 DEF CommitAll, Goto, github, observed
<1>2. Releases(t) /\ Early
  BY <1>1 DEF AtWork, Owned, Before
<1>3. (Early' <=> Early) /\ (Landed' <=> Landed)
  BY <1>1 DEF Early, Landed
<1>4. \/ "commit" \in torn
      \/ Released = {}
  BY <1>1, <1>2 DEF OneCommit, AtWork, OneReleaser, Tearing, Before, Owned
<1>5. Released = {} => Released' \subseteq {Len(commits')}
  <2>1. NewCommit(worktree, head, "release") /\ worktree \in Contents /\ head \in Made
    BY DEF CommitAll, Typed, RepoType, RestType
  <2>2. /\ Len(commits') = Len(commits) + 1 /\ Len(commits) \in Nat
        /\ \A c \in Made : commits'[c] = commits[c]
    BY <2>1, NewCommitTyped DEF Typed, RepoType
  <2> QED BY <2>2 DEF Released, Made
<1>6. Staged' /\ Truth'
  BY <1>1, <1>3 DEF Staged, Truth, Merging, Closing
<1>7. AtWork'
  BY <1>1, <1>2, <1>3 DEF AtWork, Owned, Before, After, Tearing, Binding, Merging, Closing
<1>8. OneCommit'
  BY <1>1, <1>4, <1>5 DEF OneCommit, Tearing
<1>9. OnePull'
  BY <1>1 DEF OnePull, Open
<1> QED BY <1>6, <1>7, <1>8, <1>9

(* Its record: from here on every command keeps it.                        *)
LEMMA RecordKeeps ==
  ASSUME Typed, OneReleaser, ChainInv, NEW t \in Tools, WriteCommitState(t)
  PROVE  ChainInv'
<1> USE DEF ChainInv
<1>0. pc \in [Tools -> Steps] /\ local \in [Tools -> Kept] /\ doc \in Documents
  BY DEF Typed, ToolType
<1>1. /\ pc[t] = "c_state" /\ pc'[t] = "idle"
      /\ \A u \in Tools \ {t} : pc'[u] = pc[u] /\ local'[u] = local[u]
      /\ UNCHANGED <<commits, merged, pulls, torn>>
      /\ doc' = [doc EXCEPT !.state = [stage |-> "COMMITTED", commit |-> local[t].commit]]
  BY <1>0 DEF WriteCommitState, Writes, Goto, Stage, repo, github, observed
<1>2. Releases(t) /\ Early /\ local[t].commit # 0
  BY <1>1 DEF AtWork, Owned, Before, Tearing
<1>3. /\ doc'.state.commit = local[t].commit /\ ~Early' /\ doc'.binding = doc.binding
      /\ doc'.closure = doc.closure /\ doc'.mergeResult = doc.mergeResult
  BY <1>0, <1>1 DEF Documents, Early
<1>4. /\ doc.binding.commit = 0 /\ doc.closure.commit = 0 /\ doc.mergeResult.pr = 0
  BY <1>2 DEF Staged
<1>5. \A u \in Tools \ {t} : pc[u] \notin Before \cup After
  BY <1>2 DEF AtWork, OneReleaser, Owned
<1>6. \A u \in Tools : pc'[u] \notin Before \cup After
  BY <1>1, <1>5 DEF Before, After, Tearing, Binding, Merging, Closing
<1>7. Staged' /\ Truth'
  BY <1>2, <1>3, <1>4, <1>6 DEF Staged, Truth, After
<1>8. AtWork'
  <2>1. ASSUME NEW u \in Tools, pc'[u] \in Owned PROVE Releases(u)
    BY <1>1, <2>1 DEF AtWork, Owned, Before, Tearing, Binding
  <2> QED BY <1>6, <2>1 DEF AtWork, Before
<1>9. OneCommit'
  BY <1>1, <1>3 DEF OneCommit, Released, Made
<1>10. OnePull'
  BY <1>1 DEF OnePull, Open
<1> QED BY <1>7, <1>8, <1>9, <1>10

(* The pull request: none was seen, and nobody else opens one.             *)
LEMMA CreatePullKeeps ==
  ASSUME Typed, OneReleaser, ChainInv, NEW t \in Tools, CreatePull(t) PROVE ChainInv'
<1> USE DEF ChainInv
<1>0. pc \in [Tools -> Steps] /\ local \in [Tools -> Kept]
  BY DEF Typed, ToolType
<1>1. /\ pc[t] = "b_create" /\ pc'[t] = "b_check" /\ local'[t] = local[t]
      /\ \A u \in Tools \ {t} : pc'[u] = pc[u] /\ local'[u] = local[u]
      /\ UNCHANGED <<commits, doc, merged, torn>>
      /\ pulls' = Append(pulls, [state |-> "OPEN", head |-> 0])
  BY <1>0 DEF CreatePull, Goto, repo, observed
<1>2. Releases(t) /\ ~Early /\ local[t].commit = doc.state.commit
  BY <1>1 DEF AtWork, Owned, After, Binding
<1>3. pulls = <<>> /\ merged = <<>>
  BY <1>1 DEF OnePull
<1>4. (Early' <=> Early) /\ (Landed' <=> Landed) /\ Released' = Released
  BY <1>1 DEF Early, Landed, Released, Made
<1>5. Staged' /\ Truth'
  BY <1>1, <1>4 DEF Staged, Truth, Merging, Closing
<1>6. AtWork'
  BY <1>1, <1>2, <1>4 DEF AtWork, Owned, Before, After, Tearing, Binding
<1>7. OneCommit'
  BY <1>1, <1>4 DEF OneCommit, Tearing
<1>8. OnePull'
  <2>1. Len(pulls') = 1 /\ Len(merged') = 0
    BY <1>1, <1>3
  <2>2. \A u \in Tools : pc'[u] # "b_create"
    BY <1>1, <1>2 DEF AtWork, Owned, Binding, OneReleaser
  <2> QED BY <1>1, <1>3, <2>1, <2>2 DEF OnePull
<1> QED BY <1>5, <1>6, <1>7, <1>8

(* The merge: of the only pull request, which is open no more.             *)
LEMMA MergeKeeps ==
  ASSUME Typed, ChainInv, NEW t \in Tools, Merge(t) PROVE ChainInv'
<1> USE DEF ChainInv
<1>0. pc \in [Tools -> Steps] /\ local \in [Tools -> Kept]
  BY DEF Typed, ToolType
<1>1. /\ pc[t] = "g_merge" /\ pc'[t] = "g_verify" /\ local'[t] = local[t]
      /\ \A u \in Tools \ {t} : pc'[u] = pc[u] /\ local'[u] = local[u]
      /\ UNCHANGED <<commits, doc, torn>>
      /\ merged' = Append(merged, [pr |-> local[t].pr, commit |-> local[t].commit])
      /\ pulls' = [pulls EXCEPT ![local[t].pr] =
                     [state |-> "MERGED", head |-> local[t].commit]]
  BY <1>0 DEF Merge, Goto, repo
<1>2. ~Early /\ local[t].commit = doc.state.commit
  BY <1>1 DEF AtWork, After
<1>3. merged = <<>> /\ Len(pulls) = 1 /\ local[t].pr = 1
  <2>1. local[t].pr \in DOMAIN pulls /\ Open(local[t].pr)
    BY DEF Merge, Open
  <2>2. pulls \in Seq(Pull) /\ Len(pulls) <= 1 /\ merged = <<>>
    BY <2>1 DEF OnePull, Typed, HubType
  <2>3. Len(pulls) \in Nat /\ DOMAIN pulls = 1 .. Len(pulls)
    BY <2>2
  <2>4. Len(pulls) = 1
    BY <2>1, <2>2, <2>3
  <2> QED BY <2>1, <2>2, <2>3, <2>4
<1>4. Landed'
  <2>1. merged' = <<[pr |-> local[t].pr, commit |-> local[t].commit]>>
    BY <1>1, <1>3
  <2> QED BY <1>1, <1>2, <2>1 DEF Landed
<1>5. (Early' <=> Early) /\ Released' = Released
  BY <1>1 DEF Early, Released, Made
<1>6. Staged' /\ Truth'
  BY <1>1, <1>4, <1>5 DEF Staged, Truth
<1>7. AtWork'
  BY <1>1, <1>2, <1>5 DEF AtWork, Owned, Before, After, Tearing, Binding, Merging
<1>8. OneCommit'
  BY <1>1, <1>5 DEF OneCommit, Tearing
<1>9. OnePull'
  <2>1. Len(pulls') = 1 /\ DOMAIN pulls' = {1} /\ pulls'[1].state = "MERGED"
    BY <1>1, <1>3 DEF Typed, HubType
  <2>2. Len(merged') = 1
    BY <1>1, <1>3
  <2>3. \A u \in Tools : pc'[u] # "b_create"
    BY <1>1, <1>3 DEF OnePull
  <2> QED BY <2>1, <2>2, <2>3 DEF OnePull, Open
<1> QED BY <1>6, <1>7, <1>8, <1>9

(* What others do meanwhile is no release.                                 *)
LEMMA OthersKeep ==
  ASSUME Typed, ChainInv, Elsewhere PROVE ChainInv'
<1> USE DEF ChainInv
<1>1. UNCHANGED <<doc, pc, local, merged, torn>>
  BY DEF Elsewhere, ChecksMove, Others, Review, Withdraw, Edit, CommitByHand,
     PushByOthers, CloseByHand, github, observed
<1>2. (Early' <=> Early) /\ (Landed' <=> Landed)
  BY <1>1 DEF Early, Landed
<1>3. Released' = Released
  <2>1. ASSUME NEW w \in Contents, NEW parent \in Made, NewCommit(w, parent, "others")
        PROVE  Released' = Released
    <3>1. /\ Len(commits') = Len(commits) + 1 /\ Len(commits) \in Nat
          /\ \A c \in Made : commits'[c] = commits[c]
      BY <2>1, NewCommitTyped DEF Typed, RepoType
    <3>2. commits'[Len(commits) + 1].by = "others"
      BY <2>1, <3>1 DEF NewCommit, Typed, RepoType
    <3> QED BY <3>1, <3>2 DEF Released, Made
  <2>2. CASE CommitByHand
    BY <2>1, <2>2 DEF CommitByHand, Typed, RepoType, RestType
  <2>3. CASE PushByOthers
    BY <2>1, <2>3 DEF PushByOthers, Typed, RepoType
  <2>4. CASE commits' = commits
    BY <2>4 DEF Released, Made
  <2> QED BY <2>2, <2>3, <2>4 DEF Elsewhere, ChecksMove, Review, Withdraw, Edit,
                                  CloseByHand, repo
<1>4. /\ Len(pulls') = Len(pulls) /\ (pulls = <<>> <=> pulls' = <<>>)
      /\ \A p \in DOMAIN pulls' : Open(p)' => p \in DOMAIN pulls /\ Open(p)
  <2>1. CASE CloseByHand
    BY <2>1 DEF CloseByHand, Open, Typed, HubType
  <2>2. CASE pulls' = pulls
    BY <2>2 DEF Open
  <2> QED BY <2>1, <2>2 DEF Elsewhere, ChecksMove, Review, Withdraw, Edit,
                            CommitByHand, PushByOthers, github
<1>5. Staged' /\ AtWork' /\ Truth'
  BY <1>1, <1>2 DEF Staged, AtWork, Truth
<1>6. OneCommit'
  BY <1>1, <1>2, <1>3 DEF OneCommit
<1>7. OnePull'
  BY <1>1, <1>4 DEF OnePull
<1> QED BY <1>5, <1>6, <1>7

------------------------------------------------------------------------------
(* A release that has not begun.                                           *)
LEMMA InitChain == Init => ChainInv
<1> SUFFICES ASSUME Init PROVE ChainInv
  OBVIOUS
<1>1. Typed /\ \A t \in Tools : pc[t] = "idle"
  BY InitTyped DEF Init
<1>2. /\ doc.state = [stage |-> "NONE", commit |-> 0] /\ doc.binding.commit = 0
      /\ doc.closure.commit = 0 /\ doc.mergeResult.pr = 0
      /\ merged = <<>> /\ pulls = <<>> /\ Made = {1} /\ commits[1].by = "others"
  BY DEF Init, Made
<1>3. Released = {}
  BY <1>2 DEF Released
<1> QED BY <1>1, <1>2, <1>3 DEF ChainInv, Staged, AtWork, Truth, OneCommit, OnePull,
        Early, Owned, Before, After, Tearing, Binding, Merging, Closing

(* Every step keeps the chain, and the commit it records.                 *)
LEMMA NextChain ==
  ASSUME OneReleaser, Typed, ChainInv, [Next]_vars
  PROVE  ChainInv' /\ (doc.state.commit # 0 => doc'.state.commit = doc.state.commit)
<1>1. ASSUME NEW t \in Tools, Tool(t) PROVE ChainInv'
  <2>1. CASE CommitStep(t) /\ ~CommitAll(t) /\ ~WriteCommitState(t)
    BY <1>1, <2>1, CommitOrderly, OrderlyKeeps
  <2>2. CASE PullStep(t) /\ ~CreatePull(t)
    BY <1>1, <2>2, PullOrderly, OrderlyKeeps
  <2>3. CASE MergeStep(t) /\ ~Merge(t)
    BY <1>1, <2>3, MergeReadsOrderly, MergeWritesOrderly, OrderlyKeeps DEF MergeStep
  <2>4. CASE Abandon(t)
    BY <1>1, <2>4, AbandonOrderly, OrderlyKeeps
  <2>5. CASE CommitAll(t) \/ WriteCommitState(t) \/ CreatePull(t) \/ Merge(t)
    BY <2>5, CommitAllKeeps, RecordKeeps, CreatePullKeeps, MergeKeeps
  <2> QED BY <1>1, <2>1, <2>2, <2>3, <2>4, <2>5 DEF Tool
<1>2. ASSUME NEW t \in Tools, Tool(t), doc.state.commit # 0
      PROVE  doc'.state.commit = doc.state.commit
  <2>1. CASE Orderly(t)
    BY <2>1 DEF Orderly
  <2>2. ~WriteCommitState(t)
    BY <1>2 DEF WriteCommitState, Writes, Goto, ChainInv, AtWork, Staged, Before, Tearing
  <2>3. CASE CommitAll(t) \/ CreatePull(t) \/ Merge(t)
    BY <2>3 DEF CommitAll, CreatePull, Merge
  <2>4. CASE CommitStep(t) /\ ~CommitAll(t)
    BY <2>1, <2>2, <2>4, CommitOrderly
  <2>5. CASE PullStep(t) /\ ~CreatePull(t)
    BY <2>1, <2>5, PullOrderly
  <2>6. CASE MergeStep(t) /\ ~Merge(t)
    BY <2>1, <2>6, MergeReadsOrderly, MergeWritesOrderly DEF MergeStep
  <2>7. CASE Abandon(t)
    BY <2>1, <2>7, AbandonOrderly
  <2> QED BY <1>2, <2>3, <2>4, <2>5, <2>6, <2>7 DEF Tool
<1>3. CASE Elsewhere
  <2>1. doc' = doc
    BY <1>3 DEF Elsewhere, ChecksMove, Others
  <2> QED BY <1>3, <2>1, OthersKeep
<1>4. CASE UNCHANGED vars
  <2>1. UNCHANGED <<commits, pulls, merged, doc, pc, local, torn>>
    BY <1>4 DEF vars, repo, github, observed
  <2> QED BY <2>1 DEF ChainInv, Staged, AtWork, Truth, OneCommit, OnePull, Early,
                      Landed, Released, Made, Open
<1> QED BY <1>1, <1>2, <1>3, <1>4 DEF Next

(* The chain holds as long as the release does.                            *)
LEMMA ChainInvariant == OneReleaser => (Spec => [](Typed /\ ChainInv))
<1> SUFFICES ASSUME OneReleaser PROVE Spec => [](Typed /\ ChainInv)
  OBVIOUS
<1>1. Init => Typed /\ ChainInv
  BY InitTyped, InitChain
<1>2. Typed /\ ChainInv /\ [Next]_vars => (Typed /\ ChainInv)'
  BY NextTyped, NextChain
<1> QED BY <1>1, <1>2, PTL DEF Spec

(* The commit release-state.json names is never replaced nor forgotten     *)
(* (handoff._write_state, handoff.go_commit).                              *)
THEOREM CommitIsKept == OneReleaser => (Spec => CommitKept)
<1> SUFFICES ASSUME OneReleaser PROVE Spec => CommitKept
  OBVIOUS
<1>1. Typed /\ ChainInv /\ [Next]_vars
        => [doc.state.commit # 0 => doc'.state.commit = doc.state.commit]_vars
  BY NextChain
<1>2. Spec => [](Typed /\ ChainInv)
  BY ChainInvariant
<1> QED BY <1>1, <1>2, PTL DEF Spec, CommitKept

(* The commit release-closure.json names was merged (closure.closure).     *)
THEOREM ClosureIsTrue == OneReleaser => (Spec => []ClosureTruth)
<1> SUFFICES ASSUME OneReleaser PROVE Spec => []ClosureTruth
  OBVIOUS
<1>1. ChainInv => ClosureTruth
  BY DEF ChainInv, Staged, Truth, Landed, ClosureTruth
<1>2. Spec => [](Typed /\ ChainInv)
  BY ChainInvariant
<1> QED BY <1>1, <1>2, PTL

(* One merge, and one commit unless one was lost before its record         *)
(* (handoff.go_commit, bind.bind_pr, merge_gate.go_merge).                 *)
THEOREM ReleasesOnce == OneReleaser => (Spec => []ReleasedOnce)
<1> SUFFICES ASSUME OneReleaser PROVE Spec => []ReleasedOnce
  OBVIOUS
<1>1. ASSUME \A c, d \in Released : c = d PROVE Cardinality(Released) <= 1
  <2>1. CASE Released = {}
    BY <2>1, FS_EmptySet
  <2>2. CASE Released # {}
    <3>1. PICK c \in Released : TRUE
      BY <2>2
    <3>2. Released = {c}
      BY <1>1, <3>1
    <3> QED BY <3>2, FS_Singleton
  <2> QED BY <2>1, <2>2
<1>2. ChainInv => ReleasedOnce
  BY <1>1 DEF ChainInv, OneCommit, OnePull, ReleasedOnce, Released
<1>3. Spec => [](Typed /\ ChainInv)
  BY ChainInvariant
<1> QED BY <1>2, <1>3, PTL
==============================================================================
