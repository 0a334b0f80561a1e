# Trajectory OS: a TLA+ verification

Trajectory OS is a local, single-operator system that drives coding agents
through bounded *missions*, keeps everything it decides in JSON documents on
disk, and lets no Git write happen without an explicit human "GO".  Its logic
lives in some thirty Python packages under `src/trajectory_os/`.  This directory
holds TLA+ models of the parts whose correctness depends on the order of steps -
of tools that share files, of processes that end when they like, of crashes
between two writes - with TLC configurations that check them on small instances
and TLAPS proofs for every instance.

Paths below are relative to `src/trajectory_os/` unless they start with `docs/`.

## 1. Inventory

| Component | Package | State | Operations | Hard behaviour | Modelled |
|---|---|---|---|---|---|
| Goal loop and graph scheduler | `goals/runner.py`, `graph/scheduler/`, `graph/readiness.py`, `graph/proof/` | mission documents, `scheduler/state.json`, one file per decision, the stop request | goal run, portfolio call, schedule, dispatch, continue, prove | reservations of missions left half-way; decision and state saved apart; dispatches that raise; deaths | `Goals`, over `MissionLife` |
| Mission orchestrator | `missions/` | mission document, one record per sub-run | run, continue, resume, reconstruct, note, approve | a crash between record and document, budgets over resumptions, repair rounds | `Phases`, `PhasesLife` |
| Mission assembly and run coordinator | `assembly/`, `observability/run.py` | mission, plan, events, status, closure, stop latch | start, resume, cancel, stop, review, repair, human gate, close | deaths of runners and commands at every write, cancel racing a verdict, resume point | `Mission` |
| Release | `release/` | handoff, commit result, PR binding, CI status, merge handoff and result, state, closure | handoff, go-commit, bind-pr, watch-ci, merge-handoff, go-merge, closure | head, branch, checks and mission changing under a command; death between Git and its record | `Release`, `Delivery` |
| Multi-run orchestrator and its supervisor | `runs/` | `queue.json`, `active.json`, `closed.json`, lock; one process group per job | enqueue, start, reap, cancel, recover, orchestrate, sessions | commands without a lock next to locked sessions; crash between launch and save; bounds | `Runs`, `RunsFiles` |
| Platform queue | `platform/queue.py` | `state.json` of missions, decision log | enqueue, pause, resume, cancel, requeue, mark_state, schedule_once | tools that overlap without a lock, crash between admission and dispatch, ageing | `PlatformQueue` |
| Platform supervisor | `platform/supervisor.py` | owner file, state, stop file | claim, run, release, request/clear stop | stale-owner takeover, stop racing a save, deaths | `PlatformSupervisor` |
| Goal decomposition, reuse, replanning | rest of `graph/` | goal graph, generations, reuse records | decompose, adopt, resolve | pure derivations over stored documents | no |
| Portfolio, daemon | `portfolio/`, `daemon/` | portfolio and daemon documents | cycles over goals | cycle log against state | one call of it, in `Goals` |
| Runtime control | `runtime_control.py` | lease, control file | pause, resume, stop | signals to a process that ends | no |
| Agents | `agents/` | retry state, cancellation tokens | invoke, classify, retry | cancellation racing completion | no |
| Resources | `resources/` | reservations | reserve, release | over-commitment | no |
| Events, artifacts, operator | `events/`, `artifacts/`, `operator/` | append-only ledgers, recovery plans | append, acknowledge, plan | deduplication after a restart | no |
| Personal cockpit | `mvp/` | portfolio, import jobs | mutations, imports, planning | threads, cancel racing completion | no |
| Platform inbox, projects, api; command lines, web, LifeOS, observability, intelligence, real-world, benchmark, application, domain, importers | | registries, read models, reports, SQLite repositories | | mostly projections and I/O | no |

The packages meet through files.  A *session* of the runs supervisor holds the
lock of `runs/locking.py` while it rebuilds, reaps, evaluates prerequisites and
calls `start_one`; the commands of `runs/cli.py` call the same functions on the
same files without the lock.  The platform supervisor calls the platform
scheduler, which admits missions and calls a dispatch function.  A goal run, a
portfolio call or a scheduling command makes a decision over the goal's graph
and calls `run_mission` for what it admits; what it knows of missions it reads
in their documents.  A mission of the assembly calls the agents and stops at
its human gate; the release layer derives its review gate from that mission's
documents and waits for a GO COMMIT and a GO MERGE.

What makes each correct, in a sentence: a job runs at most as often as its
budget says, starts after its prerequisites, and is never lost (runs); no
mission is run twice or lost, no more at once than the policy allows (platform
queue); one live owner (platform supervisor); a phase passes on evidence, a
mission ends (missions); a mission is executed once and keeps its verdict
(assembly); nothing is committed that no review passed, or merged that was not
green, and once (release); resources are never over-committed, the graph's order
is kept, and a goal comes to an end (goals).

## 2. Modules

| Module | Models | Style |
|---|---|---|
| `RunsStore` | the documents of `runs/store.py`, admission, the transitions between documents | pure operators |
| `RunsState` | the documents on disk and the jobs' processes, and what the documents should say of them | state, its invariants |
| `Runs` | the orchestrator's promise: each operation one atomic step, a pass of reap one for each record and one at its end | state machine |
| `RunsFiles` | its tools as processes: a step per file read or write, the lock, crashes, the session | state machine |
| `RunsRefinement` | `RunsFiles` implements `Runs`, but for deaths, while one tool runs at a time | refinement mapping |
| `PlatformQueue` | the queue document, one scheduling decision, commands and `schedule_once` as steps of tools | state machine |
| `PlatformSupervisor` | claim, session, release, stop requests, deaths | state machine |
| `Release` | the release commands, step by step, with the Git and GitHub state they act on | state machine |
| `Mission` | the assembly's phases over the run coordinator, the operator's commands, deaths | state machine |
| `ReviewedRelease` | what a mission and its release promise together | abstract specification |
| `Delivery` | `Mission` and `Release` (by `INSTANCE`) over one workspace, joined by the review gate; implements `ReviewedRelease` | composition, refinement |
| `Phases` | the bounded execution of a mission's plan, with sessions, records and reconstructions | state machine |
| `MissionLife` | one mission as schedulers see it | abstract specification |
| `PhasesLife` | `Phases` implements `MissionLife` | refinement mapping |
| `Goals` | goal loop, scheduling cycles, goal proof, over missions that live as `MissionLife` says | state machine |
| `RunsProofs`, `QueueProofs`, `SupervisorProofs`, `ReleaseProofs`, `MissionProofs`, `PhasesProofs`, `GoalsProofs` | theorems | TLAPS |
| `Counting` | lemmas about sums and ranks over finite sets, for the proofs of the two schedulers | TLAPS |

`MCRuns`, `MCSerial`, `MCPlatformQueue`, `MCRelease`, `MCDelivery`, `MCPhases`
and `MCGoals` add the constants of the instances; the supervisor's configuration
needs none.  Definitions named like another one with a suffix
(`ReviewFailsOpen`, `CountStartedLater`, ...) and marked *Mutant* are plausible
bugs: no specification uses them, each makes a property fail when put in the
place of the definition it varies.

## 3. State and actions

**Runs.**  `queue`, `active` and `closed` are the three files; `live` is the set
of job processes the operating system runs.  A job is a model value, a process a
number (its pid, pgid, start time and token together); time and text are left
out.  In `Runs` an operation is one step (`Submit`, `Start`, `Cancel`, and `Exit`
of a process), except that a pass of `reap` closes and re-queues record by record
and writes `active.json` once, at its end: `pass` holds the records it has dealt
with (`Reap`), `ReapEnds` drops them, and `ReapCut` is the exception of a refused
re-queue, which leaves all of them in `active.json`.  In `RunsFiles` a tool has a `pc`, a memory `mem` with
the bundle it read, and one step per read, per replacement of a file, per
launch, per signal.  `Crash` ends a tool anywhere.  A session also takes the
lock, rebuilds, reaps, evaluates prerequisites and starts what it chose; it ends
with an exception whenever a record is active when the rebuild calls the
inventory of `observability.py` (line 126, a missing key), which the model keeps
(`SessionEnds`).

**Platform queue.**  `queue` is the document; a mission's `canonical` state is
what its `status.json` says; `executing` counts executions under way.  A command
is `Load` (read, compute) or `Mark` (`mark_state`, any of the states `Marks`, for
any entry), and `Save`; `schedule_once` is `ScheduleLoad`, `ScheduleSync`,
`ScheduleSave`, `ScheduleRecord` and one `Dispatch` per mission.  The loop over
ranked candidates is specified by the set it selects (`Selects`).  Four history
variables say what the promises have to except: what is admitted and not handed
over (`undelivered`), what a tool that died had in hand (`dropped`), the
executions a mission had when it ceased to be active (`disowned`, kept by
`Replace`, through which every save goes), and what became terminal after a
scheduler had looked (`overtaken`).

**Platform supervisor.**  `owner` is the owner file, which is absent, created and
empty, or names a process; `state` is `state.json`.  The claim is up to four
steps, the session a loop of `CheckStop` and `Cycle` between `BeginSession` and
`Finish`, the release is `ReleaseRead` and `Unlink`.  An operator's stop request
is three: the stop file, the read and the write of `state.json`.

**Release.**  `doc` has the eight documents of a release, `commits`, `head`,
`tip`, `pulls`, `checks` and `merged` the local repository and GitHub.  Each
command is a sequence of steps named after what it does (`RecheckCommit`,
`ReadCommitted`, `Push`, `MergePull`, `MergeCi`, `Merge`, ...): one for each
read that a later write relies on, each document written, each call of Git or
GitHub.  `Abandon` stops a command between any two of them; a death, a failing
adapter and a refused check are the same to the documents.  Meanwhile the review
is renewed or withdrawn, the work tree edited, commits made by hand, others push
to the branch or close the pull request, and check runs move.  A patch identity is the content
it leaves; a commit is a number with its content and ancestors.

**Mission.**  A runner goes through the assembly's phases (`Preflight` to
`Close`) and, inside `Execute`, the run coordinator's attempts (`Baseline`,
`Implement`, `CapturePatch`, `Validate`, `Review`, `Repair`, `Complete`,
`Verdict`).  Every document and event is a step.  Of the event log the model
keeps what recovery asks of it: whether `PREFLIGHT_COMPLETED` and
`RUN_COMPLETED` exist, and the last event that carries a patch.  A patch is the
pair of snapshots it was computed from.  The operator cancels or asks to stop,
in steps too, and may die between them.

**Delivery.**  The workspace is the release's work tree.  `Gate` is
`derive_review_gate`: closure, status and the freshness of the last evidence.

**Phases.**  `mission` is the mission document, `records` the sub-run records;
a session keeps the document it read (`mem.doc`) until it writes it back.
`Decide` is `flow.decide`; `Legal` the transition map; `Rebuild` and what
follows it the reconstruction of a document from its records.  How a sub-run
ends - completed, failed, unproven - is a choice where `Failing` allows it.

**Goals.**  `life[n]` is the mission of node `n` as `MissionLife` has it, which is
what the reservations, the readiness projection and the continuation of a goal
run read; `sched` is `scheduler/state.json`, `loose` the decisions on file that
it does not name.  A command is `BeginGoal` (also the portfolio's call, which
has one cycle and keeps a stop request), `BeginCycle` (`graph schedule`,
`graph dispatch`) or `BeginMission`; its cycle is `Check`, `Continue` for each
mission at work, `Plan` (inputs, decision, its file), `Dispatch` for each
admitted node, `SaveState`, `Judge`.  In `session` it runs the mission until the
session's bound; `Raise` is an exception of `run_mission`, caught around a
dispatch only.  A decision stands for the inputs its id is computed from.  The
admission loop is specified by the set it admits (`Admits`, which is unique).

## 4. Runs

| Run | Specification | Instance | Shows |
|---|---|---|---|
| `runs` | `Runs` | 3 jobs, capacity 2, 2 queue places, 2 closed records, 2 attempts | one home for each identity, but for a cut pass (`OneHome`); launches within the budget (`Budget`) |
| `serial` | `RunsFiles` | 3 jobs, the second waits for the first, 2 queue places, capacity 2, 3 submissions (re-queues take further numbers), 2 launches; one terminal, one session, one reconstruction, one death | each step but the death implements `Runs` (`Implements`); no attempt is lost (`NothingLost`); a death leaves one orphan or one uncounted attempt and nothing else (`CrashDamage`); sessions start nothing before its prerequisites (`NoSpeculativeStart`) |
| `queue_shared` | `PlatformQueue` | 2 missions that share one GPU, 2 schedulers and a terminal that also marks missions as queued, overlapping | `WithinPolicy`, `SeqsDistinct` |
| `queue_alone` | `PlatformQueue` | 3 missions with a dependency and an outage, 2 places, every command, marks that re-queue or end a mission, one tool dies; up to 2 executions of a mission | `ExecutedOnce`, `DependenciesFirst`, `NeverReexecuted`, `SilentOnlyAfterCrash` |
| `queue_live` | `PlatformQueue`, fair | 3 missions, one of high priority, one at a time, with re-queues and marks as failed | `NoStarvation` |
| `supervisor` | `PlatformSupervisor`, fair | 2 processes, an operator, 2 cycles | `SingleOwner`, `StopsInTime`, `NamedRuns`, `NoFalseCrash`, `CrashRecovered` |
| `release` | `Release` | 2 operators' processes, one of them with merge commands only; 2 contents, checks green or green and queued, 3 commits, 1 pull request, 1 act of others | `MergedWhileGreen`, `MergeRecorded`, `ReleasedOnce`, `CommittedIsPushed`, `CommitKept`, `ClosureTruth` |
| `delivery` | `Delivery`, fair | 1 runner, 2 contents, 1 repair, 1 death, 1 cancel or stop, 1 release process | `ReadyHasPassed`, `VerdictKept`, `NoSecondExecution`, `Closes`, and `ReviewedRelease` is implemented (`Delivers`) |
| `phases` | `Phases`, fair | the canonical plan of 5 phases, any of which may fail, 1 repair, 8 sub-runs, 2 to a session, 1 note, 1 death | `Proven`, `WithinBudget`, `RanOnce`, `SessionEndsCounted`, `Concludes`, and `MissionLife` is implemented (`LivesAsPromised`) |
| `goals` | `Goals`, fair | 3 nodes, two that want the one GPU, an exclusive one after the first; 2 at once, 2 cycles, 1 sub-run to a session, 1 attempt, 1 death | `WithinCapacity`, `DependenciesFirst`, `DispatchesBounded`, `CrashesSpoilProof`, `Settles` |

The bounds are the smallest at which each branch is taken: two jobs, missions or
processes make a race, a third one a queue behind a choice; a second attempt is
what re-queueing is about; one crash suffices because a tool that died leaves
files only, and a second death finds files that the first could have left.
Bounds on the queue are below the number of jobs in `runs` and `serial`, so that
they bite: a re-queue is refused only when the queue fills up while jobs run.
The closed document may never be smaller than the capacity (`StoreConstants`; in
the code 256 against 16, `runs/model.py:244-249`), or a single pass could evict
what it has just closed.  Two contents make a work tree that differs from what was
reviewed; the third commit is somebody else's between the baseline and the
release's.  A sub-run budget of 8 is below what a plan of 5 phases with a retry
of each and a repair would use.  In `goals` the exclusive node needs two
sessions, so that it is left half-way between commands; the other two cannot be
on the GPU together.  `MaxSeq`, `MaxLaunches`, `MaxExecutions`, `MaxCrashes`,
`MaxControls`, `MaxOutside`, `MaxCommits` and `MaxPulls` exist for TLC only.
Deadlock is not checked: an operator may do nothing for ever, and every one of
these systems may come to rest.

Two runs are disagreements between the code and what it says of itself, each
with a counterexample:

| Run | What the code does | What it says |
|---|---|---|
| `two_starts` (`RunsOnce`) | two `runs start` run a job twice | every state-mutating operation is under the lock (`runs/locking.py:7-9`) |
| `phases_stuck` (`SessionEnds`) | after a repair of a failed PLAN or IMPLEMENT, `run_mission` loops for ever | any failed phase may trigger the bounded repair round (`missions/model.py:233-234`); a session stops (`missions/orchestrator.py:790-791`) |

What the passing runs promise is qualified where the code breaks the unqualified
promise:

- A `start` that dies after the launch leaves a process no document names and an
  attempt uncounted, so a job may exceed its budget: `CrashDamage` says that only
  deaths do this, once each (`runs/orchestration.py:355-384`).
- A re-queue that is refused ends the pass with an exception
  (`runs/orchestration.py:247`): jobs it queued before are left in both
  documents without any crash, which admission then refuses every start for.
  `OneHome` says that such a job's process is gone and that its entry carries on
  the record's attempts; without the exception it is false.
- `runs start` ignores prerequisites, sessions do not: `NoSpeculativeStart` is
  about sessions.
- `schedule_once` overwrites what a command saved since it loaded
  (`platform/queue.py:645-773`): `queue_alone` has tools that run one at a time.
- `mark_state` checks nothing (`platform/queue.py:452-462`): its callers may mark
  any entry with any state.  A mission it makes ACTIVE bypasses the policy and the
  dependencies (nothing but the acceptance script, `platform/acceptance.py:390`,
  and a test does so), so `ACTIVE` is not among the `Marks` of the runs.
- A scheduler that dies, or whose `dispatch_fn` raises, leaves missions active
  that no decision names or nobody runs: `SilentOnlyAfterCrash` says that these
  are all, and that they were in that scheduler's hand.
- A mission that is paused, cancelled, re-queued or marked while it runs, and
  queued again, is admitted beside the execution it still has
  (`platform/queue.py:410`): `ExecutedOnce` says that this is the only way to a
  second execution, and that there are no more of them than were under way.
- A mission that ends after `schedule_once` synchronised is dispatched although
  it is terminal: `NeverReexecuted` excepts it, and nothing else.
- The age of a queue entry counts later arrivals up to 64 and survives a
  re-queue, so a mission of high priority that keeps failing overtakes for ever:
  `NoStarvation` is about behaviours in which missions are recalled into the
  queue finitely often.  A mission that ended and that nobody marks holds its
  slot: the other premise.
- A stop request that reads `state.json` before a session saves STOPPED and
  writes it back afterwards leaves RUNNING without an owner, which
  `detect_crash` reports: `NoFalseCrash` excepts it, until the next save, and
  `CrashRecovered` says that the next start gets over it as over a death.
  `SingleOwner` and `NamedRuns` are checked of supervisors that are not started
  while another one claims: the empty file of one claim is overwritten by another
  (`platform/supervisor.py:255` against its lines 11-13), and two owners live.
- A go-merge that dies after GitHub merged, or a go-commit after its commit,
  leaves nothing on record, and a retry finds the head moved: `MergeRecorded`
  and `ReleasedOnce` except it.
- `handoff`, `go-commit` and `bind-pr` are given to one process: two that overlap
  can forget a commit that is recorded (`release/handoff.py:139` looks at the
  stage, then replaces it) or open two pull requests.  `CommitKept`,
  `ReleasedOnce` and `ClosureTruth` are about that setting (`OneReleaser`).
- A patch is judged against the baseline its run took: a resumed run takes it
  again (`observability/run.py:216`), and the contents of the model are wholes,
  so that a patch that lacks what the run before it changed is not told apart.
- A runner that dies between `RUN_COMPLETED` and its status loses the verdict it
  had (`torn`): `VerdictKept` excepts it, and a cancellation written over a
  verdict reached meanwhile, although `assembly/control.py:342-343` calls a
  terminal decision never silently overridden.
- A repair left uncounted, and a repair of a failed CONSOLIDATE (no transition
  leads from CONSOLIDATING to REPAIRING), are dead ends: `SessionEndsCounted`
  and `Concludes` name them and show that there are no others.
- A command that dies between the decision's file and the state, or after a
  dispatch, leaves an untracked decision: `store.reconstruct` refuses from then
  on and the goal is never proven complete, against ADR-011's exact
  reconstruction after a restart.  `CrashesSpoilProof` says that nothing else
  does.  The dispatch it did not record may be repeated: `DispatchesBounded`.
- `Settles` excepts a mission that was started and is still in PLANNING: it is
  ACTIVE for the arbiter and holds its resources, and the goal loop does not
  continue it (`goals/runner.py:160-164`), so every later run is STALLED.

Seen while modelling, and without a run of their own:

- *runs*: a re-queue refused by a full queue closes the attempt again at each
  reap (`orchestration.py:240-247`); a re-queued job halts every session with
  DUPLICATE_IDENTITY (`supervisor.py:280` against `store.py:11-12`); the closed
  record of a prerequisite may be evicted (`store.py:625`), after which it counts
  as never run; the session outcome for a lock conflict is never produced
  (`supervisor.py:183-187`); the back-off of `retry.py` has no caller.
- *platform*: two enqueues, each fine by itself, may form a dependency cycle that
  fails every later `schedule_once` (`queue.py:646`), and terminal entries are
  never removed; `daemon resume --foreground` does not clear the stop file.
- *missions*: `gate.py:4-5` promises a REVALIDATE that a repair after a failed
  REVIEW never gets; commands that overlap launch one attempt twice; the comment
  "started - completed == in-flight" (`orchestrator.py:606-612`) is false after a
  reconstruction.
- *assembly*: a cancellation is written over a verdict reached meanwhile, or the
  other way round (`control.py:353`, `observability/run.py:446`); a BLOCKED
  readiness during a repair refuses a cancel (`control.py:138-144` against
  ADR-023); a resumed run takes its baseline again; a torn last line of
  `events.jsonl` is not repaired.
- *release*: `watch-ci` rewrites the stage of a merged or released state.
- *goals*: a crash inside a sub-run makes the next goal run, which calls
  `run_mission` and not `resume`, block the mission, and inside a repair's
  sub-run, or between the record that it passed and the count, makes it loop
  for ever (`Spin`); an exception of `run_mission` is caught around a dispatch
  (`engine.py:320`), not around a continuation; a stop request during a cycle
  does not keep the rest of its admitted nodes from being dispatched; goal runs
  take no lock.  A daemon that dies between its cycle log and its state is
  refused by its own `reconstruct` (`daemon/store.py:97-127`).

## 5. Fairness

No fairness is assumed of operators' commands, crashes or anything outside.

- `PlatformQueue`: the daemon's cycles are strongly fair - a tool the operator
  keeps running by itself may keep the daemon out, but not for ever -,
  and executions end.  That somebody records with `mark_state` what became of a
  mission which is not terminal in its own documents is a premise of
  `NoStarvation` (no code does this by itself), not a fairness.
- `PlatformSupervisor`: a supervisor that lives keeps running and is started
  again and again; nothing restarts one.
- `Delivery`: a runner that lives goes on, since agents, validations and reviews
  have time-outs.  Nobody has to resume a mission: `Closes` speaks of one that
  is resumed.
- `Phases`: the same of a session, whose sub-runs time out.  `Concludes` has as
  its premise that the mission is run again and again.
- `Goals`: the command at work goes on.  `Settles` has as its premises that the
  goal is run again and again and that sessions do not raise for ever.

## 6. Proofs

All proofs are for every value of the constants that satisfies the named
assumptions (`StoreConstants`, `QueueConstants`, `SupervisorConstants`,
`ReleaseAssumption`, `MissionAssumption`, `PhasesAssumption`, `GoalsAssumption`).

*`RunsProofs`*, the atomic steps (`Atomic == INSTANCE Runs`).  `TypeCorrect` is
inductive by itself.  `IInv` is `OneHome`, `Budget` and `SeqUnique` together with
it and with `Numbered`: a re-queued entry keeps its attempts only because its
identity is nowhere else but in the record the pass is about to drop, and its new
number is new only because all numbers in the documents are below the next one.
That processes are accounted for, the capacity is respected, a full queue is
frozen and no attempt is lost follows step by step.  Of these only `OneHome` and
`Budget` are also checked by `runs`.

*`RunsProofs`*, the files.  `Serial` (`Clis \subseteq Exclusive`) is the setting
of `serial`: the operator runs a command only while nothing else runs; sessions
and reconstructions may come at any time, and any tool may die anywhere, any
number of times.  Under it `FilesInductive` proves `Inv`.  `Solo` - one tool at
work, with the lock if it takes it - makes what a tool read still true when it
writes, place by place (`Submits`, `Starts`, `Reaps`, `Cancels`); `Apart` keeps
identities and process numbers distinct, `Debts` counts orphans and uncounted
attempts against deaths.  `Reaps` carries the hard part of a pass: each record it
has dropped from memory is among as many newest closed records as it has dropped,
and these are at most `Capacity`, so the bound of the closed document cannot have
evicted it yet.  `Inv` gives `DamageBounded`, `FilesLoseNothing`, `SessionsWait`
and the refinement: `FilesImplement`, that every step but a death is a step of
`Runs` or leaves what is promised as it is, with one lemma for each step of
`RunsFiles`.  Nothing in it depends on how many tools died before.
`OnceWithoutDeaths` - `RunsOnce` as long as nobody dies - is what `Serial` buys
over the two overlapping starts of `two_starts`.  `FilesTyped` needs no
assumption: `TypeOK` of `RunsFiles` holds of every interleaving.

*`Counting`.*  Both schedulers admit one candidate after another while a count,
a sum or a rank allows it.  What a fold over a finite set computes cannot be
proved here by induction over the set (the library's induction theorem takes an
operator), so a sum of natural numbers is taken as the number of its units - the
pairs of a summand and a number below it -, which the theorems about finite sets
do reason about: `SumCounts`, `ComponentSumCounts`.  `RanksFewer` and
`LastRanked` say that of finitely many candidates one comes last and that those
before it are fewer; with them "each fitted beside those before it" becomes "all
of them fit" (`EachInTurn`).

*`QueueProofs`.*  Nothing relates the file to the documents the overlapping
tools hold, so `AllSound` speaks of each document alone: distinct numbers below
the next, at most `MaxQueueEntries` entries.  It gives
`SequenceNumbersDistinct` and `QueueBounded`; with `WorldType`, `TypeCorrect`.
`AllWithin` is of the same kind - the active entries of each document, on file or
in hand, number no more than the policy allows, in total and for each kind of
work, and ask for no more of any resource than there is -, and gives
`PolicyKept` for every policy and any number of missions, if `ACTIVE` is not
among the `Marks`.
`AdmittedIsHandedOver` rests on `InHand`: what is active and not handed over is
in the hands of a tool, or was when it died.  `TerminalNeverReexecuted` rests on
`LiveInv`: what a scheduler is about to admit or hand over is live in canonical
state, or ended since it looked.  Both hold with tools that overlap and die.
Under `Exclusive = Tools` a tool at work is alone and its document is the file
(`AloneInv`), which gives `DependenciesComeFirst`, again without marks to ACTIVE
(`NoneActivated`); `ExecInv` relates executions to entries - a mission that is not
active has no execution but the disowned, one in a scheduler's hand no other
(`Accounted`) - and gives `ExecutedOnceAtATime` for all commands and marks.

*`SupervisorProofs`.*  Assuming `~Overlapping`, whoever lives and runs a session
is named by the owner file, whoever has just created the file finds it empty, at
most one live process is past the entry of the claim, and the file names no live
process without a session (`IInv`): `OneLiveOwner`, `OwnerFileNamesSessions`
and, with `Honest` - a RUNNING state that no stop request put back belongs to a
session of the process it names, unless that one died or raised -,
`CrashesAreReal`.  `StopsWithinACycle` (`LateInv`) and
`TypeCorrect` need no such assumption.

*`ReleaseProofs`.*  Over `Typed`, `MergeInv` says that a go-merge about to merge
has seen its commit green and that a merge has its record, a process about to
write it, or a stopped one: `MergesAreGreen`, `MergesAreRecorded`.  `PushInv`
says that the commits a tool keeps are in the branch's history from the push on:
`CommitsArePushed`.  All hold with any number of processes that overlap.

With `OneReleaser`, while any number of processes watch,
merge and close, the stage separates two lives of a release.  Before the record
of a commit (`Early`) only the releaser is at work and whoever made a commit is
on its way to the record; after it every process that acts keeps the commit the
state names (`AtWork`).  A pull request is opened only where none was seen, and
the merge closes it (`OnePull`); a merge result or a closure exists only where
that commit was merged (`Truth`).  Most steps are `Orderly`, which keeps all of
it at once; the commit, its record, the pull request and the merge have a lemma
each.  This gives `CommitIsKept`, `ClosureIsTrue` and `ReleasesOnce`.

*`MissionProofs`.*  `TypeCorrect` holds of any number of runners.  With
`OneRunner`, `MInv` says that every document and memory that says ready is
backed by the event and the passed patch, in the order they are written
(`ReadyIsEarned`, `ExecutedOnlyOnce`); `VInv` adds what a runner's memory knows
of the verdict (`VerdictIsKept`).

*`PhasesProofs`.*  All of it assumes `~Overlapping`, one command on a mission at
a time, as the runs do; runners, plans and budgets are arbitrary.  `Inv` has five
parts.  `Typed` types the variables.  `Solo` says that at most one command is
past its beginning.  `DocSound` is about a mission document alone: a phase that
is proven was proved by its latest attempt, one that runs has an attempt left and
its latest is that one or the next, and none runs before those ahead of it; one repair round is open at most and
belongs to the failed phase that called for it.  `Evidence` ties the document on
file to the records and the sub-runs launched: what it counts as started or
finished has a record of that attempt, and records never run ahead of launches by
more than the one under way.  `AtWork` ties what the command keeps in memory to
the file, place by place, including a reconstruction that has read the records
and not yet saved.  `DecideRuns`, `DecideRepairs` and `DecideEnds` say what
`flow.decide` may answer on a sound document; every save then has a lemma that
the document saved is sound (`BegunSound`, `CountedSound`, `EndedSound`,
`RecoveredSound`, `AddedSound`) and every step one that `Inv` survives it.  `Inv`
was checked with TLC on three instances before it was proved.  It gives
`ProvenKept`, `BudgetKept` and `AttemptsRanOnce`, and `LifeKept`: the step part of
the refinement of `MissionLife`, for every plan.

*`GoalsProofs`.*  `Bound` types what a command keeps at each of its steps.
`Ready` - whoever is about to be dispatched still has its dependencies complete,
which nothing undoes - gives `DependenciesComeFirst`.  `Counted` compares the
dispatches made with the counters saved and kept, `Spoiled` the decisions on
file with the deaths: `DispatchesAreBounded`, `OnlyCrashesSpoil`.  `Holding`
carries the admission through the cycle: those that hold resources and those
still to be dispatched fit together; that each admitted node fitted beside those
before it bounds them all is shown at the last of them, which a finite set of
numbers has: `ConcurrencyKept`, for any number of nodes.

Left to TLC: everything under fairness (`NoStarvation`, `CrashRecovered`,
`Closes`, `SessionEndsCounted`, `Concludes`, `Settles`), since neither liveness
nor `ENABLED` is within the prover's reach; and the refinement `Delivers`.  The
violated properties are false, and TLC shows it.

## 7. Not modelled, and the plan

Left out of the modelled packages:

- *runs*: recovery reports, the registry of foreign runs, the resource gate and
  the worktree rule, which only end a session early.
- *platform*: `recover` (no caller) and the read-only `reconstruct` of the
  supervisor; read-only accounting of the queue; projects and texts.
- *release*: authorization value objects, branch and base names, merge methods,
  the mergeable flag, binding a pull request by number.
- *assembly*: telemetry, summaries and the control log, missions without a
  reviewer, an agent that outlives its dead runner; in `Delivery` edits of the
  workspace by others and two runners.
- *missions*: evidence files, semantic attestation, the conditions of the guards,
  the difference between CRASHED and UNPROVEN, commands that overlap.
- *goals*: decomposition, reuse, generations of a graph, policies that change
  between cycles, required against optional nodes, criteria beyond the mission's
  proof, events and the limits on decision files; commands on one goal that
  overlap, operators who run a mission the scheduler has not started.

Done of the plan: the release chain and its gates, the assembly's stages, the
mission's phases, the graph scheduler, and their compositions.  What is left, in
this order:

1. `RuntimeControl` (a lease, a control file and signals between two processes)
   and `AgentCalls` (retry and cancellation after an ambiguous side effect).
2. `DaemonCycles` above `Goals`: the portfolio's choice and the daemon's log.
3. `Arbiter` (reservations of `resources/`), the platform inbox, operator
   recovery, the cockpit's import jobs.
4. `RunsDependencies`: the depth-first resolution of `runs/dependencies.py`
   against a reference definition over all small graphs.
5. Proofs: the step part of `Delivers`.

The rest is projections, reports, argument parsing, SQLite transactions that do
not interleave, and calls of model servers: nothing in it takes several steps of
several actors to go wrong.
