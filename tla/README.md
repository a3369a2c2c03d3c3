# A TLA+ model of Ortim

Ortim is a command line program that takes a brief through a PRD, an RFC and a
DAG of tasks to reviewed code. Language models do the writing; the program keeps
the order: a state machine with human gates, an executor that runs tasks on git
branches, and a handful of JSON and Markdown files that are all there is between
two commands. This directory models what can go wrong with that order: commands
that are killed between two files, threads that share one repository, tasks that
wait for a human, and documents that are rewritten after they were approved.

## 1. The system

All state lives in the metadata directory of a workspace (`.ortim/` or an entry
of the pool). A command loads `state.json`, decides, and writes files one after
another; there is no server. Paths below are relative to `src/ortim/`.

| part | state it keeps | operations | what is hard |
|---|---|---|---|
| state machine, project (`orchestrator/state_machine.py`, `project.py`) | `state.json`: state, history, archived flag | `transition`, `save` | a loaded project is saved minutes later; pausing forgets its origin |
| planning commands (`cli/planning.py`) | `intent.json/md`, `stack.json/md`, `PRD.md`, `RFC.md`, `task_dag.json`, `scope.json`, `.dialog/` | `run`, `refine`, `lock`, `scope`, `extend`, `advance` | crash between artifact and state; resuming; gates; cycles |
| execution commands (`cli/execution.py`) | `task_status.json`, `.exec.lock` | `execute`, `run-all` | batches, retries, G3 and G7, threads, exceptions |
| task runner (`executor/runner.py`, `status.py`) | a record per task, in memory until saved | `execute_task` | attempts, soft and hard rejections, sign-off |
| git operations (`executor/git_ops.py`) | branches `task/<id>`, worktrees, the primary checkout | start, commit, merge, abandon | the state files are in the repository that is switched |
| task DAG (`orchestrator/task_dag.py`, `agents/orchestrator.py`) | `task_dag.json`: tasks, extensions | `validate_dag`, `_validate_extend_dag`, `topological_batches` | two validators for parts of one plan; records kept by id over cycles |
| dialog, scope, extension (`dialog/`, `scope/`, `extend/`) | drafts, turns, `locked_at`, `## Extension N` sections | save, lock, append | idempotence, cycle numbers |
| file lock (`concurrency/lock.py`) | the directory `.exec.lock` and its pid file | acquire, break when stale, release | theft from a slow holder; the directory is in the repository that is switched |
| audit log (`audit/`) | hash-chained `audit.jsonl` | append, verify | two processes with cached heads; git commits the file and puts older versions back |
| gates and budget (`gate_detector.py`, `budget/`) | none; reads DAG and audit log | detect, sum | thresholds |
| registry, workspaces (`workspace/`, `cli/workspace.py`) | `registry.json`, `<dir>/.ortim`, pool directories | init, new, use, ls --prune, archive, migrate, clean up | lost updates, half-done moves, namesakes in the user's directory |
| cloud (`cloud/`) | `synced_seq` | push, policy | resending, a cursor that goes back |
| agents, Worker, reviewers (`agents/`, `babel/`, `llm/`, `executor/*reviewer.py`) | none | calls of language models, with retries of four kinds | malformed answers, vetoes, feedback, the rows of the log |

What makes the parts correct:

* state machine, planning: the tasks of a project rest on documents that a human
  approved and nobody has changed since; a state never claims an artifact that is
  not there; a diligent operator gets to DONE, and to the end of an extension.
* executor: DONE means that the reviewed output is on main; a task runs after
  what it depends on, at most as often as its budget allows, and a sensitive one
  does not land unsigned; commands end.
* git: a Worker works on the branch of its own task; a failed task leaves nothing
  behind that another one commits; the state files survive every switch.
* task DAG: every task of what was accepted is in one batch, behind its
  dependencies, over all extensions; DONE records are records of its tasks.
* file lock: at most one run-all executes, unless its directory is taken while it
  lives; a dead one does not block the others, and nobody waits for ever.
* audit log: what was logged is one chain, and a loss shows.
* cloud: the copy is a prefix of the log, nothing below the cursor is missing,
  and everything arrives in the end.
* workspaces: no command costs the user a file, the last copy of a workspace's
  files goes only in a cleanup that was asked for, and an id leads to its own
  project or nowhere.
* agents, reviewers: DONE has passed every gate in one attempt, a Worker that is
  asked again is told why, and commands end whatever the models answer.
* gates, budget: a DAG with a migration stops at G3, and spending over the cap
  at G7 (the executor models the stops, not the regular expressions).

How they interact: a planning command moves the project to TASKS_READY;
`run-all` and `execute` load the DAG and the records, and call `execute_task`,
which calls git, a Worker and the reviewers; every command appends to the audit
log; the operator approves gates with `ortim advance`, and `ortim extend` sends
a DONE project through a second, shorter round of planning.

## 2. Modules

| module | what it is |
|---|---|
| `TaskDag` | dependencies and their batches |
| `GitRepo` | records, trees, and what git does to files when it switches and merges |
| `TaskRunner` | `execute_task`, `execute`, `run-all` in both modes, kills, the operator |
| `TaskLedger` | what the executor promises: tasks land, are held, and the project finishes |
| `TaskRunnerProps` | properties, the refinement mapping, the inductive invariants |
| `TaskRunnerProofs` | theorems about `TaskRunner` |
| `FileLock` | the lock directory, one file-system call at a time |
| `RunAllGuard`, `RunAllGuardProofs` | several run-alls around the lock, and what git does to its directory; properties; theorems |
| `AuditLog` | loggers of processes, torn lines, `verify_chain` |
| `CloudSync` | link, cursor and pushes over `AuditLog` |
| `AuditRepo`, `AuditMirror` | both files in the repository that a run commits and switches; properties; what the cloud copy promises |
| `CloudProofs` | theorems about `AuditRepo` |
| `Lifecycle` | `TRANSITIONS` and the gates |
| `PlanningPipeline` | every planning command as the sequence of files it writes |
| `PlanningProps`, `PlanningProofs` | properties and inductive invariants of planning; theorems |
| `Registry` | images of `registry.json` and what upsert, remove and set_current do to them |
| `Workspaces` | every command that makes, moves, marks or deletes a workspace, file by file |
| `WorkspaceProps`, `WorkspacesProofs` | its properties and inductive invariants; theorems |
| `TaskPlan`, `TaskPlanProps`, `TaskPlanProofs` | the answers of the Orchestrator, their validation, deltas, DONE records; properties; theorems |
| `AgentCalls` | what all agents share: transport retries, refused answers, rows of the log |
| `TaskAttempt`, `TaskAttemptProps`, `TaskAttemptProofs` | one task with Worker, tests, reviewers, hook, sign-off; properties; theorems |
| `RecursionProofs` | induction over the natural numbers for sets, and the batches of `TaskDag` |
| `MCTaskRunner`, `MCPlanning`, `MCWorkspaces` | small instances |

`TaskRunner` composes `TaskDag` and `GitRepo` and implements `TaskLedger`;
`RunAllGuard` runs several commands over `FileLock`; `AuditRepo` puts `CloudSync`, which
runs over `AuditLog`, under git and implements `AuditMirror`; `PlanningPipeline`
moves along `Lifecycle`; `Workspaces` instantiates `Registry`; `TaskAttempt`
extends `AgentCalls`; the properties of `TaskPlan` instantiate `TaskDag` for the
plan on disk.

### TaskRunner

`wd` is the primary working directory, `main`, `tip[t]` and `cut[t]` the trees
at the tips of the branches and where they were cut. A tree holds the files that
matter: the state in `state.json`, the documents, the records of
`task_status.json`, and the output of every task. That is the point of the
model: `commit_changes` runs `git add -A` in the metadata directory, so the
executor's own files travel with the branches it switches. Three more of these files
have models of their own: the pid file of the lock (`RunAllGuard`), `audit.jsonl` and
`cloud.json` (`AuditRepo`).

`mem` and `proj` are what the running command has loaded, `step[t]` is the
position of `execute_task` for task `t` and `run` that of the batch loop.
Between two steps a kill may come, which loses `mem`, `proj`, `step` and `run`
and nothing else. In sequential mode an exception ends the command like a kill;
in a thread it ends the future (`Raise`, `CollectRaised`) and nobody cleans up. `past`
counts both, and is history otherwise: `past.starts[t]` is how often `t` was started
since the last of them that could lose its count, or since its record was reset.

Abstractions. A Worker writes a non-empty output of its own; verdicts of
reviewers, tests and hooks are choices. Tasks of a sequential batch are taken in
any order (the code sorts by id). Attempts and
starts saturate one above `MaxAttempts`.
A merge may conflict whenever another output landed since the branch was cut.
The repository exists (`SeedTree`) when the first task starts, a save replaces
`task_status.json` at once, and a merge and the deletion of its branch are one step;
section 6 says what that leaves out.
`advance` and hand edits happen between commands. The lock that keeps two
run-alls apart has a model of its own; the bootstrap of a golden path before the
first task, the provider policy, and the mode without git are not modelled.
`--max-workers` only limits which interleavings are possible.

### PlanningPipeline

A command is a list of effects, one file or one save of `state.json` each, with
a language model between most of them; a kill, or a model that raises, may come
between any two. Cycle 0 of `prd` and `rfc` is the document, cycle `c` its
section `## Extension c`. A section is "approved" while nobody has rewritten it
since a human approved it: no file records that, it is the history the gates are
about. `--step`, the snapshots of refine, `--force` and all display are left
out; `ORTIM_DIALOG_MODE` may change between invocations. `ExecuteTasks` stands
for the executor.

### FileLock and RunAllGuard

`dir` is the lock directory (none, empty, with its pid file), `age` whether its
mtime is older than twice the timeout, `pc[p]` the next call of each process.
`mkdir`, `stat`, `unlink`, `rmdir` and the write of the pid file are one step
each, because the races of a directory lock lie between them: `_force_remove`
removes whatever directory is there when it comes to it. Creating the directory
or its file, and removing the file, renew the mtime; nothing else does, so the directory
of a command that executes for longer than ten seconds gets stale as that of a dead one
(`Age`, which `MaxOverruns` bounds for the living). The deadline may pass at any poll and
passes at the last. `RemoveFails` is an `OSError` of `unlink` or `rmdir`, which
`_force_remove` suppresses: a bounded number of them, or any with `Permanent`.

`RunAllGuard` puts `run-all` around it: it reads `task_status.json` before it waits
(`_load_for_execute`) and writes its copy back after each task. A task is a start of its
branch, a commit, the checkout of main and the merge (`Execute`, `Commit`,
`CheckoutMain`, `Merge`; none of them with `Parallel`, where the commits are made in
worktrees, which have no lock directory), of which only the effect on the lock directory
is kept. `git add -A` commits the pid file of the holder, so the checkout of main removes
it, with the directory, until the merge brings it back; and git refuses to overwrite a
pid file that it does not know (`Refused`). `lost` is history: a living holder's
directory was taken.

### AuditLog, CloudSync and AuditRepo

A line is a record or torn; `cache[w]` is `_last_hash` of a process, `open` says
that the last line lacks its newline, so that the next append lands on it.
Threads of one process share a lock and are not told apart. `event_hash` leaves
`prev_hash` out, so a record is its number. A tear in the middle of a multi-byte
character, which makes readers raise instead of skipping the line, is left out.

A sync is four steps: load `cloud.json`, read the log past the cursor, post,
save the whole link. `Defer` is all that can go wrong, in either half of the
post: offline, no token, an error status, an answer that is lost, a kill. A kill
in the save leaves a file that reads as no link (`SaveLink`). The
server is external; that it skips numbers it has follows from the `skipped` of
its answer, which `cloud sync` prints.

`AuditRepo` has what a sequential run does to both files. `Tree` is what is in the work
tree, `main` and `branch` what the two tips hold, `head` where the run stands. `Commit`
stores the files on the branch of the task; `CheckoutMain` puts the versions of main
back, in which the events since the last merge are missing; `Merge` brings those of the
branch. A file that was changed in between makes git refuse (`Clean`), and a run that is
refused or killed between these steps leaves them to the next (`Abandon`, `Restart`).
`reversed` is history: an older log took the place of the log and the merge that would
have brought it back will not come. `Current`, of which the properties of the copy speak,
is the log that the merge under way brings back. One run at a time switches; a
branch that has no commit yet has the files of main and is not told apart from it.

### Registry and Workspaces

A place is `<dir>/.ortim` or the pool directory of an id. `made` are those that
exist, `held[l]` the files in each, `root[d]` what lies beside `.ortim` in a
directory of the user. An item is a kind of file with the workspace it belongs
to; four kinds are enough, since the commands tell apart only `state.json`, the
names that `_META_FILES` lists (`docs`), ortim's files that it does not list
(`link`, for `cloud.json` and `policy.json`), and generated code. `reg` is
`registry.json`, an image in the sense of `Registry`: a load is one read, a save
is `write_text`, which empties the file first, and `Registry.load` takes an empty
file for an empty registry.

`job[p]` is the command that terminal `p` runs and how far it is. `Overlap` says
which commands run at once: one after another, in different places, or any. A
command in a workspace (`run`, `run-all`, `cloud link`) is reduced to what
matters here: it finds the place, writes one file, saves the state it had loaded.
Which candidates are old enough for `cleanup`, and which the operator confirms,
is a choice. The resolver's explicit id, its search of ancestors and its
`current` pointer are `ResolveId` and `ResolveCwd`.

Left out: `new --from-existing`, `rescan`, `baseline`, the doctor, two directories
inside one another, and pool workspaces outside the pool root.

### TaskPlan

A task is an id, its dependencies and a kind; the kinds differ in whether the RFC
declares their scope and whether their text is sensitive. Id 0 stands for
`T-abc`, which the pattern of `TaskSpec` lets through and `max_task_id` passes
over. `Answer` is every set of tasks the model may return. `generate_dag` asks up to
three times; the first plan is checked by `validate_dag`, a delta by
`_validate_extend_dag`, which has its own copy of Kahn's algorithm, and both by
the scopes. Executing a task is one step here and the whole of `TaskRunner` there.
That two tasks of an answer are equal in everything is left out.

### AgentCalls and TaskAttempt

An agent is how many of its answers may be refused before an exception, whether
an answer is checked at all, and whether a refused one leaves a row in the log:
`Agent` has all sixteen. `unlogged` counts answers without a row. Any of them may be
answered, refused, retried by the client, or fail for good; a kill or an exception ends
the command. The one exception to that is the Worker's: `llm.call` raises `ValueError`
where the body of an answer does not parse, and `execute_task` takes that for a refused
attempt and goes on, without a row (`WorkerUnreadable`). A request is one round of the
loop of `LLMClient.call`. The SDK of Anthropic repeats requests below that
(`client.py:146-150` keeps its default), a bounded number of times that nothing counts.
The rows go to the log that the budget gate sums: `_resolve_project` sets
`AUDIT_LOG_PATH` to the log of the workspace (`cli/_globals.py:206`, `223`) before
`BudgetTracker()` reads it.

`TaskAttempt` has `execute_task` for one task with the gates in the order of the
code: Worker, tests, rubric, the reviewer chain, pre-commit hook, sign-off. It
keeps apart the record in memory and the one on disk, which is saved after each
attempt. Answers are all verdicts over `Criteria`; what the files contain is
abstracted to whether there are any. Commits and merges, G3, G7 and the other
tasks are in `TaskRunner`. `why` and `vetoed` are history: which gate sent the
last attempt back, and whether a reviewer with a veto used it.

## 3. Runs

| run | instance | what it shows |
|---|---|---|
| `sequential` | two independent tasks, one sensitive, one with a migration, one kill, G3 and G7 | `DoneIsOnMain`, `StartsBounded`, `FinishedMeansLanded`, types |
| `order` | two tasks and one that needs both, no kill | `DependencyOrder`, `StopOnFail`, `ImplementsLedger` |
| `parallel` | the same fork, threads, conflicts, one raise, fair | `WorkerOnItsBranch`, `DoneIsOnMainAtRest`, `StartsBounded`, `RunTerminates` |
| `planning_crashes` | two cycles, two dialog turns, three moves that are no approvals, one crash | `GateOrder`, `ArtifactsBehindState`, `ApprovedIsPlanned`, `StateFollowsTable`, types |
| `planning_completes` | two cycles, no crash, fair operator | `PlanningCompletes`, `ExtensionCompletes` |
| `guard` | two run-alls for ever, one of which may be killed, one section slower than the stale age, one removal that fails, the directory under git | `SharedOnlyIfLost`, `CommandEnds`, `OrphanCleared` |
| `cloud` | one process after the other, two events, tears, a run that commits, switches and merges; two syncs at a time, one fault, two links | `Unbroken`, `LossShows`, `NothingSkipped`, `ImplementsMirror`, `EventuallyCopied` |
| `workspaces` | two terminals, three commands side by side in different places, one kill, a user's code base, a registered project, a pool workspace | `UserCodeSurvives`, `WorkSurvives`, `ResolvesToItself`, `ListedAtRest`, types |
| `extensions` | every answer of up to two tasks, a first plan and two cycles | `PlanIsSound`, `RecordsMatchPlan`, `PlansFinish`, types |
| `attempt` | a sensitive task, two criteria, two attempts, all three reviewers, one retry per call, two exceptions or kills | `DoneIsEarned`, `ToldWhy`, `AttemptEnds`, types |
| `leak` | the executor | a finding |
| `code_deleted` | one terminal, one command after another | a finding |

The findings are violations of what a comment or a document of the repository
says; `PROJECT.json` quotes each.

* `leak`: the files of a rejected sensitive task stay in the working directory
  and are committed to main with the next task.
* `code_deleted`: the generated code of a project-mode workspace, and the git
  repository it is merged into, are inside `.ortim`, which `cleanup` deletes.

Thirteen more configurations each show one more divergence and can be run by hand
(`tlc -config X.cfg M`, where `M` is `MCTaskRunner`, `MCPlanning`,
`RunAllGuard` or `AuditRepo`); they violate the property they name.

| configuration | property | what happens |
|---|---|---|
| `TaskRunner_state_lost` | `StateIsOnDisk` | a kill between the checkout of main and the merge leaves a workspace without `state.json` |
| `TaskRunner_conflict` | `StopOnFail` | after a merge conflict run-all starts the next batch |
| `TaskRunner_unmerged` | `DoneIsOnMainAtRest` | a killed parallel run leaves DONE for unmerged work |
| `TaskRunner_branch_pinned` | `BranchStartsFresh` | the worktree of a killed run keeps its branch from being dropped |
| `TaskRunner_signed_again` | `SignedTaskRunsAgain` | `--human-reviewed` is never reached for a held task |
| `Planning_resume` | `RunResumes` | a stage whose artifact exists and whose state was not saved is not resumed by `ortim run` |
| `Planning_dead_end` | `ProposedLockIsAccepted` | the lock that is proposed in EXTEND_PRD_DIALOG is refused |
| `Planning_late_refine` | `GateOrder` | a refine that waits for its model rewrites an approved PRD |
| `Planning_resurrected` | `StateFollowsTable` | a late save takes a project out of FAILED |
| `RunAllGuard_overrun` | `OneRunAll` | the lock of a run-all that is older than ten seconds is taken by the next, and both execute (`execution.py:1019`: "Cross-process guard against concurrent run-all on the same workspace") |
| `RunAllGuard_stale_copy` | `DoneStays` | a run-all that waited overwrites what the other has finished |
| `AuditRepo_reverted` | `LossAlwaysShows` | a run that ends between the checkout of main and its merge leaves an older log, on which the next continues: events are lost and the chain verifies (`verify.py:9`: "If anyone removes, edits, or reorders an event in the JSONL, the chain breaks at that point") |
| `AuditRepo_no_newline` | `NothingSkipped` | a record whose newline is lost is counted, then destroyed: the cursor is too high |

The following properties are stated in the modules and fail as well, when the
configuration checks them in place of its own properties, without SYMMETRY, and
with the changes of the last column.

| configuration | property | what happens | change |
|---|---|---|---|
| `TaskAttempt` | `EveryAnswerLogged` | a malformed answer of a reviewer of the chain raises before it is logged (`README.md:94`) | |
| `TaskAttempt` | `VetoSticks` | a later reviewer raises, the veto is forgotten, the next command asks the Worker again (`runner.py:136`) | |
| `TaskAttempt` | `EveryCriterionJudged` | one criterion judged twice and another never passes the count (`reviewer.py:243`) | |
| `TaskAttempt` | `ToldWhy` | a rubric without verdicts rejects and leaves no reason | `Criteria = {}` |
| `TaskPlan` | `NoFalseDrift` | drift-check counts later cycles as prior (`drift.py:229`) | |
| `TaskPlan` | `StaysExtendable` | three invalid deltas, or an empty one, end a shipped project (`planning.py:1403`) | |
| `TaskPlan` | `SensitiveTagged` | an extension's tasks are not tagged as sensitive (`planning.py:606`) | `Kinds = {"core", "secret"}` |
| `Workspaces` | `CodeAtHand` | migrate puts code and repository in the directory, and the next run works in `.ortim` | |
| `Workspaces` | `LinkAtHand` | the same of `cloud.json` | `Files` with `"link"` |
| `Workspaces` | `CopiesListed` | of the two places of a copied id the registry keeps one | |
| `Workspaces` | `NeverAnother` | a cleanup killed before it saves the registry; the place is used again | |
| `Workspaces` | `NoHalfWorkspace` | a kill after mkdir leaves a directory that init and migrate refuse | |
| `Workspaces` | `WorkSurvives` | a run in the pool directory that migrate moves away | `Overlap = "any"` |
| `Workspaces` | `NoEntryLost` | one of two registrations overwrites the other | `Dirs = {d1, d2, d3}`, `NewIds = {n1, n2}`, `MaxKills = 0` |
| `TaskRunner_signed_again` | `ApprovedOverageContinues` | an approved overage opens G7 again, for ever | `Sensitive = {}`, `Moves <- Approvals`, `CapSet = TRUE` |
| `Planning_completes` | `DoneCanBeExtended` | a project planned without dialogs cannot be extended | `MaxCycle = 1`, `MayBlock = TRUE`, `Moves <- Reviews`, `Spec` |
| `Planning_crashes` | `GateOrder` | pausing at G1 and resuming in RFC_DRAFTING passes G1 by | `MaxCycle = 1`, `Moves <- Pauses`, `MaxMoves = 2`, `MaxKills = 0` |
| `Planning_crashes` | `ArchivedIsFrozen` | lock, refine and scope change an archived project | `MaxCycle = 1`, `Moves <- Reviews`, `MaxMoves = 1`, `MaxKills = 0` |
| `RunAllGuard_overrun` | `OneRunAll` | the checkout of main removes the lock directory of the run it belongs to, and another makes its own | `MaxOverruns = 0`, `Parallel = FALSE` |
| `RunAllGuard_overrun` | `OneRunAll` | two waiters remove one orphan, and the second removes the lock of the first | `Procs = {p1, p2, p3}`, `Mortal = {p1}`, `MaxOverruns = 0`, `Task = {1}` |
| `RunAllGuard` | `CommandEnds` | a stale directory that cannot be removed: the wait goes round past its deadline (`lock.py:47-49`) | `Permanent = TRUE` |
| `TaskPlan` | `RecordsMatchPlan` | a plan that is drafted again reuses ids whose DONE records stay | `MaxId = 1`, `MaxAnswer = 1`, `MaxCycles = 0`, `MaxRedrafts = 1`, `RedraftSpec` |
| `AuditRepo_mirror` | `Unbroken` | two processes that log at the same time break the chain | `Writers = {w1, w2}`, `Overlap = TRUE`, `Tears = {}`, `Spec` |
| `AuditRepo_mirror` | `LinkIsKept` | a sync that was under way undoes `cloud link` | `Projects = {p1, p2}`, `Spec` |

The message of `execute` to a task that is AWAITING_HITL, "raise --max-attempts to
retry", cannot be followed: the refusal does not look at the option, and
`ortim execute T-005 --max-attempts 3` in `docs/runbook/failure-recovery.md:109`
works only after a reset of the record.

Bounds. Two or three tasks are the least with two branches alive at once, and a
task behind two others; two attempts are the least with a retry and a last
attempt; one kill hits every point of every command, the recovery runs
without a bound. Two extension cycles are the least in which a section of an
earlier cycle could be confused with the current one; `MaxMoves` counts only
back-steps and archivings, approvals are free. In `sequential` and `parallel` a task
with two attempts is started in up to three commands, which is the least in which a lost
count shows. In `guard` one command dies, one section outlasts the stale age and one
removal fails, at any point of each other; the number of restarts has no bound. One task
is enough there, since a second one only repeats the steps of git: with two the run holds
as well, and takes four minutes. In `cloud` two events are the least with a torn line and
the record it swallows, or with an event that main has and one that it lacks; one project
is enough for the copy, the safety properties hold for two; processes that follow one
another are interchangeable, so one writer stands for all.

In `workspaces` three commands are the least with a workspace made or moved,
changed, and deleted; two terminals, because every race is one of two;
terminals are interchangeable, hence the symmetry, and no temporal property but
`[][A]_vars` is checked with it. In `extensions` an answer of two tasks has a
dependency, a cycle and a collision in it, three numbers are the least in which a
delta can be numbered below, inside or above a plan, and a second cycle depends on
the first. In `attempt` two criteria are the least of which one can be left out,
two attempts the least with feedback, and two exceptions spoil a command and
the one that follows it.

`CHECK_DEADLOCK FALSE` is set because a project that is done, failed, or without
a loadable `state.json` really stops.

Fairness. `FairSpec` asks that a running command goes on: git is called with a
30 second timeout, models and test commands with theirs. `DiligentSpec` adds an
operator who keeps doing what `_print_next_action` proposes; it is strong
fairness, because a proposal may be withdrawn while a command runs. In `guard`
commands go on, an execution ends, time passes, and somebody runs the command again some day. In
`attempt` a running command goes on, because model, tests and hooks all have
timeouts; nobody has to start one. In `extensions` an operator repeats the
proposed command, and tasks succeed in the end. In `cloud` every run ends with a
sync, runs keep coming, and a merge that has begun goes on; the network is not fair, it fails at most `MaxFaults`
times.

## 4. Proofs

Every invariant and action property of the runs, and both refinements,
is a theorem: it holds for every value of the constants that meets the premises
below. The modules' own assumptions on their constants hold throughout. A theorem
with a premise is about the program as long as the premise is met, and for each
premise section 3 has the configuration that shows what happens without it, or the
reason is given here. Few of these properties are inductive; the inductive
invariants stand next to the properties or at the head of the proofs, and were checked
by TLC on the instances of the runs before they were proved.

### Task runner (`TaskRunnerProofs`)

| theorem | states | premises |
|---|---|---|
| `TypeCorrect` | `[]TypeOK` | |
| `RetriesAreBounded` | `[]StartsBounded` | |
| `WorkersKeepApart` | `[]WorkerOnItsBranch` | |
| `SequentialDoneIsOnMain` | `[]DoneIsOnMain` | no `--parallel` |
| `FinishedHasLanded` | `[]FinishedMeansLanded` | no `--parallel`, no `advance` to DONE |
| `DependenciesComeFirst` | `[]DependencyOrder` | no `--parallel`, stop-on-fail, `PhasesClosed` |
| `HumansAreWaitedFor` | `StopOnFail` | no `--parallel`, no `--phase` that leaves a task out |
| `UnkilledDoneIsOnMain` | `[]DoneIsOnMainAtRest` | no kill |
| `UnkilledFinishedHasLanded` | `[]FinishedMeansLanded` | no kill, no `advance` to DONE |
| `ExecutorImplementsLedger` | `ImplementsLedger` | no `--parallel`, stop-on-fail, `PhasesClosed`, no kill, no `advance` from or to DONE |

`StartsInv` (for `StartsBounded`): the record in memory counts every start, and one more
where an attempt was interrupted (`Counts`), and so does the file, for the tasks that are
not under way, except between the merge of a branch and the save that follows
(`FileCurrent`). That a task is started only with an attempt left is `BudgetInv`: a
checkout may bring back any committed version of `task_status.json`, so none of them has
a PENDING record with its budget spent. What a kill loses is not in the property: the
counts start again there, and without that it is violated. `BranchInv` (for
`WorkerOnItsBranch`): only tasks of the batch in hand are under way, and without
worktrees one of them.

`DoneInv` (for `DoneIsOnMain`): the property says nothing of the memory that a command
will save, nor of the branch it will merge. `DoneInv` adds that one task is in hand at
a time (`OneAtATime`), that the files never know more than the memory and main no more
than the files (`FilesBehind`), and what the branch in hand holds at each step of the
merge (`BranchInHand`). With `--parallel` and a kill the property fails
(`TaskRunner_unmerged`); without a kill it holds there too, between commands, by
`UnkilledInv`: the records, main and the working directory agree on every task that is
not between its commit and its save (`Agreed`), and what each branch holds until then
(`BranchAgrees`).

`OrderInv` (for the order): run-all has done all that `--phase` keeps of the earlier
batches. `PhasesClosed` says that it keeps what it needs: `--phase` filters by the
phases of `scope.json`, and nothing compares these with the dependencies
(`cli/execution.py:978-991`). Without stop-on-fail run-all goes past a failed task on
purpose, and in parallel mode after a conflict (`TaskRunner_conflict`). A task that
`--phase` leaves out may wait for a person while the rest goes on, hence the premise of
`HumansAreWaitedFor`. `advance` lets the operator put a project into DONE by hand.

`LedgerInv` adds to both that between tasks the memory is what the file says
(`FilesSaved`), that `done` comes last (`NotDoneYet`), and that a task under way is not
held (`UnderWay`). Each step of the executor is then a step of `TaskLedger` or none. No
kill, because the ledger has none: a task that landed and whose record was not
saved is attempted again, and may then be held although it is on main.

### Planning (`PlanningProofs`)

| theorem | states | premises |
|---|---|---|
| `TypeCorrect` | `[]TypeOK` | |
| `FollowsTable` | `StateFollowsTable` | commands do not overlap |
| `GatesHold` | `[]GateOrder` | the same, and no move in `Skips` |
| `ArtifactsStand` | `[]ArtifactsBehindState` | the same |
| `ApprovedHasTasks` | `[]ApprovedIsPlanned` | the same |

A command is a list of effects, so what is to be proved of each is what may be left of
its list: `InOrder(s, t)` names the rests `t` that a command which loaded a project in
state `s` may have, and one lemma per command shows that it starts there. `CommandInv`
has that of the running command, and that its project is the one on disk; that
gives `FollowsTable`. `PlanningInv` adds what each state on disk stands for
(`Backed`) and what the rest of a list rests on (`Grounded`): a section of the RFC
follows an approved section of the PRD, the tasks follow the whole RFC, and no state
is saved before its artifact. Overlapping commands break both (`Planning_resurrected`,
`Planning_late_refine`). `Skips` are the moves with which an operator vouches for what
no command wrote: out of PAUSED, and forward past a draft, a lock or the tasks. All
other moves of `TRANSITIONS` are allowed, and kills at every point.

### Lock (`RunAllGuardProofs`)

| theorem | states | premises |
|---|---|---|
| `GuardTypeCorrect` | `[]TypeOK` | |
| `SharedByLossOnly` | `[]SharedOnlyIfLost` | |

For any number of commands, kills, overruns, failed removals and tasks, in both modes.
The lock is not a mutex (`RunAllGuard_overrun`), so the theorem says what breaks it: the
theft of a directory from a living holder, and git; nothing else. `Kept` adds to the
property that between its mkdir and its rmdir a process has the directory there
(`DirBacksHolder`), so that no other mkdir succeeds (`OneGuarded`), and that tasks are
executed inside (`WorkIsInside`).

### Audit log and cloud (`CloudProofs`)

| theorem | states | premises |
|---|---|---|
| `LossesShow` | `[]LossShows` | |
| `ChainUnbroken` | `[]Unbroken` | loggers follow one another |
| `NothingIsSkipped` | `[]NothingSkipped` | `Tears \subseteq {"part"}` |
| `CopyIsMirror` | `ImplementsMirror` | the same |

A chain that verifies has every event whose call of `log` returned, unless a run was
ended between the checkout of main and its merge, which the property says (`reversed`;
`AuditRepo_reverted` shows that nothing reports it then). `LossInv` says that as long as
every line of `Current` is a record, nothing that was logged is missing from it.
`ChainInv` adds that one process logs at a time and continues where the log ends, and
that every version of the log that git has is a chain by itself; two processes fork the
chain. `CloudInv` says that below each cursor, the one in `cloud.json`, those in the
trees of main and of the branch, and those that the syncs under way have read, the cloud
has everything (`Linked`, `InSync`), that each copy is a prefix of the records
(`Prefix`), whichever pushes fail, repeat or overtake each other, and that what git may
put back is the beginning of the log (`Before`). It rests on a last line
without newline not being a record (`OpenIsTorn`); where a kill loses just the newline,
the record is counted and then destroyed (`AuditRepo_no_newline`). A sync that saves its
cursor between the checkout and the merge makes git refuse the merge, and so reverses the
log without a kill.

### Workspaces (`WorkspacesProofs`)

| theorem | states | premises |
|---|---|---|
| `WorkspaceTypes` | `[]TypeOK` | |
| `PointerDoesNotDangle` | the `current` pointer of `registry.json` names an entry | |
| `UserCodeIsSafe` | `UserCodeSurvives` | |
| `WorkIsSafe` | `WorkSurvives` | no two commands in one place at once |
| `IdLeadsToItself` | `[]ResolvesToItself` | |
| `FinishedIsListed` | `[]ListedAtRest` | |

For any number of terminals, directories, ids, kinds of files, kills and commands.
`Inv` says besides the types that the registry, and the image every running command has
loaded, is `Sound`, since a command writes back what it has read, and that a
command which writes to a place under an id has both in hand. User files follow step by
step: only migrate writes beside `.ortim`, and only under a free name.

`PlaceInv`: nobody steps into the places of another command (`PlacesApart`), the files of
a place are those of one workspace (`OneOwner`), and a command finds there what it
has started from (`InPlace`): migrate deletes the pool directory only after all of its
files are in the new place, cleanup only what is archived or was asked for. Side by
side in one place `WorkSurvives` fails (section 3, second table).

The last two properties are about the time until two commands overlap or one is killed
(`calm`); that is in the properties. `RegistryInv` has for that time what the one
command under way knows: the entries of the registry are right and have one place
per id (`Correct`), none is missing but those about to be written (`Complete`, `Pending`),
none is dead but those about to be struck (`Struck`), and a state is in one place
unless it was copied (`Alone`).

### Plans (`TaskPlanProofs`)

| theorem | states | premises |
|---|---|---|
| `TypeCorrect` | `[]TypeOK`, redrafts included | |
| `PlansAreSound` | `[]PlanIsSound`, redrafts included | |
| `RecordsMatch` | `[]RecordsMatchPlan` | no redraft |

A delta is checked only within itself and against the ids of the plan, and still the
whole has no cycle. `PlanInv` says why: in every set of ids some task waits for none of
the others (`Rooted`), which a delta keeps because nothing old depends on anything new;
and a finite plan that is `Rooted` is placed by the batches of `TaskDag` after as many
batches as it has tasks. A redraft reuses ids, and DONE records of the old plan then
speak of the new one's tasks.

### Attempts (`TaskAttemptProofs`)

| theorem | states | premises |
|---|---|---|
| `TypeCorrect` | `[]TypeOK` | |
| `NothingUnearned` | `[]DoneIsEarned` | |
| `WorkerIsTold` | `[]ToldWhy` | `Criteria # {}` |

For every rubric, chain of reviewers, number of attempts, retries and exceptions. `TaskInv`
says that the gates speak in their order and each that was to speak has (`InOrder`), that
what is on disk is the record before the attempt (`InHand`). Where a rubric has
no criteria, a rejection has no reasons either.

### What is not proved

Liveness: `RunTerminates`, `PlanningCompletes`, `ExtensionCompletes`, `CommandEnds`,
`OrphanCleared`, `EventuallyCopied`, `PlansFinish` and `AttemptEnds` are model-checked
only, since they rest on fairness, which is `ENABLED` underneath, and the provers do not
reason about it. Recursive functions are reasoned about by induction over sets of
natural numbers (`RecursionProofs!NatInd`), which needs no operator parameter. The
properties of the two findings and of the tables in section 3 are false and have no
theorem.

## 5. Plan

1. Task runner: `TaskDag`, `GitRepo`, `TaskRunner`, `TaskLedger`, and proofs of all
   its safety properties (done).
2. Planning: `Lifecycle`, `PlanningPipeline`, with proofs (done).
3. Two processes: `FileLock`, `RunAllGuard` with proofs (done); execute, which
   takes no lock, beside run-all.
4. `AuditLog`, `CloudSync`, `AuditRepo`, `AuditMirror`, with proofs (done).
5. The generation of a plan and its extension by deltas: `TaskPlan`, with proofs (done).
6. `Registry`, `Workspaces`, with proofs (done).
7. `AgentCalls`, `TaskAttempt`, with proofs (done).
8. The cloud policy, and gates that the history remembers from earlier cycles.

## 6. Not modelled

* Code base and architecture analysis (`codebase/reader.py`, `architecture/`),
  the bootstrap of golden paths: functions of a tree of files without state of
  their own; bootstrap runs before the first task and writes only new files.
* `doctor.py`, `cli/reporting.py`, `cli/admin.py`, `show`, `gates`: they read and
  print.
* Providers, router and replay of `llm/`: which provider answers, and from where, is
  one answer here.
* The texts: prompts, skills, memory, redaction, the regular expressions of the gate
  detector and of the sensitive patterns. The models take their verdicts as inputs.
* The parsing of test output and the sandbox's path checks: their verdict is a choice.
* `new --from-existing`, rescan and baseline: a scan whose result is one more
  document.
* The cloud policy cache, login and share links.
* The mode of the executor without git.
* In the executor: two threads of the first parallel batch that both find no repository
  and create it (`ensure_repo` checks, then calls `git init`, `git_ops.py:96-102`); a
  merge that succeeds and whose `git branch -D` then fails, which leaves the branch and
  reports the merge as failed; and a kill inside a save of `task_status.json`, which
  `write_text` empties first (`status.py:47-50`), so that the next command fails to load
  it.
* The size of what was spent: a row is there or not, and how the amounts add up to the
  cap is not modelled.
