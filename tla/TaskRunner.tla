----------------------------- MODULE TaskRunner ------------------------------
(***************************************************************************)
(* One workspace whose tasks are executed by `ortim execute` and           *)
(* `ortim run-all`: the batch loop of ortim/cli/execution.py, execute_task *)
(* of ortim/executor/runner.py and the git operations under it.  One       *)
(* command runs at a time; it may be killed at any point, and its          *)
(* status file lives in memory until it is saved.                          *)
(***************************************************************************)
EXTENDS GitRepo

CONSTANTS
  Phase,       \* Phase[t]: the phase that scope.json gives task t
  Sensitive,   \* tasks tagged with sensitive_categories
  SchemaTasks, \* tasks that detect_schema_tasks reports
  Modes,       \* the option sets run-all is called with
  Moves,       \* the <<from, to>> pairs `ortim advance` is used for
  CapSet,      \* whether a budget cap is in effect
  MaxKills,    \* bound: kills in a behaviour
  MaxRaises    \* bound: exceptions that end a task of a parallel batch

ASSUME RunnerAssumption ==
    /\ Phase \in [Task -> Nat]
    /\ Sensitive \subseteq Task
    /\ SchemaTasks \subseteq Task
    /\ Modes \subseteq [parallel : BOOLEAN, stopOnFail : BOOLEAN, phase : Nat]
    /\ Moves \subseteq ExecState \X ExecState
    /\ CapSet \in BOOLEAN
    /\ MaxKills \in Nat
    /\ MaxRaises \in Nat

VARIABLES
  wd,       \* the primary working directory
  main,     \* the tree at the tip of main
  head,     \* what the primary checkout is on: "main", or a task for task/<id>
  refs,     \* the tasks whose branch task/<id> exists
  tip,      \* tip[t]: the tree at the tip of task/<id>
  cut,      \* cut[t]: the tree of main that task/<id> was cut from
  pinned,   \* the tasks that have a worktree under .worktrees/
  merging,  \* whether the primary index holds an unfinished merge
  spent,    \* whether the accumulated spend has reached the cap
  past,     \* the kills and exceptions so far, and how often each task was started since
            \* the last of them that could lose its count, or since its record was reset
  mem,      \* the records in the memory of the command
  proj,     \* the project state in the memory of the command
  step,     \* step[t]: where execute_task stands for t
  run       \* the command: its options and where its loop stands

gitVars  == <<main, head, refs, tip, cut, pinned, merging>>
procVars == <<mem, proj, step, run>>
vars     == <<wd, gitVars, spent, past, procVars>>

Step == {"idle", "begin", "work", "review", "commit", "merge", "onmain",
         "back", "approved", "declined", "raised"}

Mode == [parallel : BOOLEAN, stopOnFail : BOOLEAN, phase : Nat]

Run == [at : {"off", "enter", "tasks", "gate", "finish"},
        kind : {"none", "execute", "run_all"},
        parallel : BOOLEAN, stopOnFail : BOOLEAN, phase : Nat,
        signed : BOOLEAN, batch : Nat, todo : SUBSET Task,
        threads : BOOLEAN, blocked : BOOLEAN]

NoRun == [at |-> "off", kind |-> "none", parallel |-> FALSE, stopOnFail |-> TRUE,
          phase |-> 0, signed |-> FALSE, batch |-> 0, todo |-> {},
          threads |-> FALSE, blocked |-> FALSE]

Past == [kills : 0 .. MaxKills, raises : 0 .. MaxRaises, starts : [Task -> Nat]]

NoRecords == [t \in Task |-> FreshRecord]
AllIdle   == [t \in Task |-> "idle"]
NoStarts  == [t \in Task |-> 0]

\* Counting ends one above the bound, which is enough to tell whether it was passed.
OneMore(n) == IF n > MaxAttempts THEN n ELSE n + 1

GitOK ==
    /\ wd \in Tree
    /\ main \in Tree
    /\ head \in Task \union {"main"}
    /\ refs \subseteq Task
    /\ tip \in [Task -> Tree]
    /\ cut \in [Task -> Tree]
    /\ pinned \subseteq Task
    /\ merging \in BOOLEAN

ProcOK ==
    /\ mem \in [Task -> Record]
    /\ proj \in ExecState \union {"missing"}
    /\ step \in [Task -> Step]
    /\ run \in Run

TypeOK ==
    /\ GitOK
    /\ ProcOK
    /\ spent \in BOOLEAN
    /\ past \in Past

\* Orchestrator has written task_dag.json; nothing has run yet.
Init ==
    /\ wd = [SeedTree EXCEPT !.state = "tasks_ready", !.docs = TRUE]
    /\ main = SeedTree
    /\ head = "main"
    /\ refs = {}
    /\ tip = [t \in Task |-> SeedTree]
    /\ cut = [t \in Task |-> SeedTree]
    /\ pinned = {}
    /\ merging = FALSE
    /\ spent = FALSE
    /\ past = [kills |-> 0, raises |-> 0, starts |-> NoStarts]
    /\ mem = NoRecords
    /\ proj = "missing"
    /\ step = AllIdle
    /\ run = NoRun

------------------------------------------------------------------------------
(* Branches and worktrees                                                  *)

HeadTree == IF head = "main" THEN main ELSE tip[head]

\* `git checkout main` goes through.
CanCheckoutMain == ~merging /\ CanSwitch(HeadTree, main, wd)
OnMain == Switched(HeadTree, main, wd)

\* start_task_branch: `branch -D` refuses a branch that a worktree pins.
CanStartBranch(t) == CanCheckoutMain /\ t \notin pinned

StartBranch(t) ==
    /\ wd' = OnMain
    /\ head' = t
    /\ refs' = refs \union {t}
    /\ tip' = [tip EXCEPT ![t] = main]
    /\ cut' = [cut EXCEPT ![t] = main]
    /\ UNCHANGED <<main, pinned, merging>>

\* add_worktree: a branch checked out in the primary cannot be dropped.
CanAddWorktree(t) == head # t

\* Mutant of AddWorktree: the new branch is checked out in the primary.
AddWorktreeInPrimary(t) ==
    /\ refs' = refs \union {t}
    /\ pinned' = pinned \union {t}
    /\ tip' = [tip EXCEPT ![t] = main]
    /\ cut' = [cut EXCEPT ![t] = main]
    /\ head' = t
    /\ UNCHANGED <<wd, main, merging>>

AddWorktree(t) ==
    /\ refs' = refs \union {t}
    /\ pinned' = pinned \union {t}
    /\ tip' = [tip EXCEPT ![t] = main]
    /\ cut' = [cut EXCEPT ![t] = main]
    /\ UNCHANGED <<wd, main, head, merging>>

\* Forget a deleted branch.
DropBranch(t) ==
    /\ refs' = refs \ {t}
    /\ tip' = [tip EXCEPT ![t] = SeedTree]
    /\ cut' = [cut EXCEPT ![t] = SeedTree]

\* _try_cleanup_branch: discard the branch of a rejected attempt.  The working
\* directory of a sequential task keeps what the Worker wrote.
CleanUp(t) ==
    /\ DropBranch(t)
    /\ IF run.threads
       THEN pinned' = pinned \ {t} /\ UNCHANGED <<wd, head>>
       ELSE head' = "main" /\ wd' = OnMain /\ UNCHANGED pinned
    /\ UNCHANGED <<main, merging>>

------------------------------------------------------------------------------
(* execute_task                                                            *)

SetStatus(t, s) == mem' = [mem EXCEPT ![t].status = s]
Goto(t, s)      == step' = [step EXCEPT ![t] = s]

\* Mutants of SoftReject: one attempt too many; no budget; a status nobody knows.
SoftRejectOffByOne(t) ==
    SetStatus(t, IF mem[t].attempts > MaxAttempts THEN "AWAITING_HITL" ELSE "PENDING")
SoftRejectForever(t) == SetStatus(t, "PENDING")
SoftRejectUnknown(t) == SetStatus(t, "REJECTED")

\* A soft reject: another attempt while the retry budget lasts.
SoftReject(t) ==
    SetStatus(t, IF mem[t].attempts >= MaxAttempts THEN "AWAITING_HITL" ELSE "PENDING")

CountAttempt(r) ==
    [r EXCEPT !.status = "IN_PROGRESS",
              !.attempts = IF @ > MaxAttempts THEN @ ELSE @ + 1]

\* An exception leaves execute_task.  In a thread it ends the future; otherwise
\* it ends the command, and what was only in memory is gone.
Escape(t) ==
    IF run.threads
    THEN Goto(t, "raised") /\ UNCHANGED <<proj, run>>
    ELSE step' = AllIdle /\ proj' = "missing" /\ run' = NoRun

Begin(t) ==
    /\ step[t] = "begin"
    /\ IF run.threads THEN CanAddWorktree(t) /\ AddWorktree(t)
                      ELSE CanStartBranch(t) /\ StartBranch(t)
    /\ mem' = [mem EXCEPT ![t] = CountAttempt(@)]
    /\ past' = [past EXCEPT !.starts[t] = OneMore(@)]
    /\ Goto(t, "work")
    /\ UNCHANGED <<spent, proj, run>>

\* git refuses the checkout, the branch or the worktree.
BeginRefused(t) ==
    /\ step[t] = "begin"
    /\ ~ IF run.threads THEN CanAddWorktree(t) ELSE CanStartBranch(t)
    /\ mem' = IF run.threads THEN [mem EXCEPT ![t] = CountAttempt(@)] ELSE NoRecords
    /\ Escape(t)
    /\ IF ~run.threads /\ CanCheckoutMain
       THEN wd' = OnMain /\ head' = "main"
       ELSE UNCHANGED <<wd, head>>
    /\ past' = IF run.threads THEN past ELSE [past EXCEPT !.starts = NoStarts]
    /\ UNCHANGED <<main, refs, tip, cut, pinned, merging, spent>>

\* The Worker answers; every call may be the one that reaches the cap.
Work(t) ==
    /\ step[t] = "work"
    /\ wd' = IF run.threads THEN wd ELSE [wd EXCEPT !.out[t] = "draft"]
    /\ Goto(t, "review")
    /\ spent' \in IF CapSet THEN {spent, TRUE} ELSE {spent}
    /\ UNCHANGED <<gitVars, past, mem, proj, run>>

\* WorkerOutOfScope, WorkerSkillNotConsulted or unparsable output.
WorkerRejected(t) ==
    /\ step[t] = "work"
    /\ CleanUp(t)
    /\ SoftReject(t)
    /\ Goto(t, "back")
    /\ UNCHANGED <<spent, past, proj, run>>

\* The reviewer rejects, the tests fail, or the pre_commit hook fails.
Reject(t) ==
    /\ step[t] = "review"
    /\ CleanUp(t)
    /\ SoftReject(t)
    /\ Goto(t, "back")
    /\ UNCHANGED <<spent, past, proj, run>>

\* A hard veto, unverifiable criteria, or a sensitive task nobody signed off.
Escalate(t) ==
    /\ step[t] = "review"
    /\ CleanUp(t)
    /\ SetStatus(t, "AWAITING_HITL")
    /\ Goto(t, "back")
    /\ UNCHANGED <<spent, past, proj, run>>

Approve(t) ==
    /\ step[t] = "review"
    /\ t \in Sensitive => run.signed
    /\ Goto(t, "commit")
    /\ UNCHANGED <<wd, gitVars, spent, past, mem, proj, run>>

\* `git add -A` and commit: everything in the working directory, or in the worktree.
CommitTree(t) == [(IF run.threads THEN tip[t] ELSE wd) EXCEPT !.out[t] = "accepted"]

Committed(t) ==
    /\ tip' = [tip EXCEPT ![t] = CommitTree(t)]
    /\ UNCHANGED <<main, head, refs, cut, pinned, merging, spent, past, proj, run>>

\* In a worktree the merge is left to the coordinator.
CommitInWorktree(t) ==
    /\ step[t] = "commit"
    /\ run.threads
    /\ Committed(t)
    /\ SetStatus(t, "DONE")
    /\ Goto(t, "back")
    /\ UNCHANGED wd

\* Mutant of CommitInPrimary: the inline merge is forgotten.
CommitWithoutMerge(t) ==
    /\ step[t] = "commit"
    /\ ~run.threads
    /\ Committed(t)
    /\ wd' = CommitTree(t)
    /\ SetStatus(t, "DONE")
    /\ Goto(t, "back")

CommitInPrimary(t) ==
    /\ step[t] = "commit"
    /\ ~run.threads
    /\ Committed(t)
    /\ wd' = CommitTree(t)
    /\ Goto(t, "merge")
    /\ UNCHANGED mem

\* The Worker wrote what main already has: no commit, no merge, the branch stays.
NothingToCommit(t) ==
    /\ step[t] = "commit"
    /\ ~run.threads
    /\ CommitTree(t) = tip[t]
    /\ Committed(t)
    /\ wd' = CommitTree(t)
    /\ SetStatus(t, "DONE")
    /\ Goto(t, "back")

\* merge_task_to_main, inline in sequential mode: first `git checkout main` ...
CheckoutMain(t) ==
    /\ step[t] = "merge"
    /\ CanCheckoutMain
    /\ wd' = OnMain
    /\ head' = "main"
    /\ Goto(t, "onmain")
    /\ UNCHANGED <<main, refs, tip, cut, pinned, merging, spent, past, mem, proj, run>>

\* ... then the merge into wd and main, and the end of branch and worktree.
MergeBranch(t) ==
    LET merged == Merged(cut[t], main, tip[t])
    IN  /\ wd' = Switched(main, merged, OnMain)
        /\ main' = merged
        /\ head' = "main"
        /\ pinned' = pinned \ {t}
        /\ DropBranch(t)
        /\ UNCHANGED merging

CanMerge(t) ==
    LET merged == Merged(cut[t], main, tip[t])
    IN  /\ CanCheckoutMain
        /\ CanSwitch(cut[t], tip[t], main)
        /\ CanSwitch(main, merged, OnMain)

FinishMerge(t) ==
    /\ step[t] = "onmain"
    /\ CanMerge(t)
    /\ MergeBranch(t)
    /\ SetStatus(t, "DONE")
    /\ Goto(t, "back")
    /\ UNCHANGED <<spent, past, proj, run>>

------------------------------------------------------------------------------
(* run-all and execute                                                     *)

Running == run.at # "off"
NoActive == step = AllIdle

\* _load_for_execute, and what both commands do before their first task.
Loadable == ~Running /\ wd.docs /\ wd.state \in {"tasks_ready", "executing"}

GateOpens == wd.state = "tasks_ready" /\ SchemaTasks # {}

\* What _run_all_loop treats as open; execute refuses the others.
Open(records, t) == records[t].status \notin {"DONE", "AWAITING_HITL"}

\* Mutant of Executable: dependencies are not looked at.
ExecutableAnyOrder(t) == Open(wd.status, t)

\* `execute` refuses a task whose dependencies are not DONE.
Executable(t) ==
    /\ Open(wd.status, t)
    /\ \A d \in Deps[t] : wd.status[d].status = "DONE"

\* _maybe_open_schema_gate: G3 stops the command before it starts.
OpenSchemaGate ==
    /\ Loadable
    /\ GateOpens
    /\ Modes # {} \/ \E t \in Task : Executable(t)
    /\ wd' = [wd EXCEPT !.state = "schema_awaiting_approval"]
    /\ UNCHANGED <<gitVars, spent, past, procVars>>

\* The loaded project goes to EXECUTING and is saved.
Load(r) ==
    /\ wd' = [wd EXCEPT !.state = "executing"]
    /\ mem' = wd.status
    /\ proj' = "executing"
    /\ run' = r
    /\ UNCHANGED <<gitVars, spent, past>>

StartRunAll(m) ==
    /\ Loadable
    /\ ~GateOpens
    /\ Load([NoRun EXCEPT !.at = "enter", !.kind = "run_all", !.batch = 1,
                          !.parallel = m.parallel, !.stopOnFail = m.stopOnFail,
                          !.phase = m.phase])
    /\ UNCHANGED step

StartExecute(t, signed) ==
    /\ Loadable
    /\ ~GateOpens
    /\ Executable(t)
    /\ ~spent
    /\ Load([NoRun EXCEPT !.at = "tasks", !.kind = "execute", !.todo = {t},
                          !.signed = signed])
    /\ Goto(t, "begin")

\* G7 is checked before the task of an `execute`.
ExecuteOverBudget(t) ==
    /\ Loadable
    /\ ~GateOpens
    /\ Executable(t)
    /\ spent
    /\ wd' = [wd EXCEPT !.state = "budget_awaiting_approval"]
    /\ UNCHANGED <<gitVars, spent, past, procVars>>

\* The tasks of the current batch that --phase keeps.
Kept == {t \in Task : t \in Batch(run.batch) /\ Phase[t] <= run.phase}

\* The head of the batch loop.
EnterBatch ==
    /\ run.at = "enter"
    /\ run.batch <= LastBatch
    /\ LET pending == {t \in Kept : Open(mem, t)}
           blocked == run.blocked \/ \E t \in Kept : mem[t].status = "AWAITING_HITL"
           threads == run.parallel /\ Cardinality(pending) > 1
       IN  IF blocked /\ run.stopOnFail
           THEN run' = [run EXCEPT !.blocked = TRUE, !.at = "finish"] /\ UNCHANGED step
           ELSE IF pending = {}
           THEN run' = [run EXCEPT !.blocked = blocked, !.batch = @ + 1] /\ UNCHANGED step
           ELSE /\ run' = [run EXCEPT !.blocked = blocked, !.at = "tasks",
                                      !.todo = pending, !.threads = threads]
                /\ step' = IF threads
                           THEN [t \in Task |-> IF t \in pending THEN "begin" ELSE "idle"]
                           ELSE step
    /\ UNCHANGED <<wd, gitVars, spent, past, mem, proj>>

LastBatchDone ==
    /\ run.at = "enter"
    /\ run.batch > LastBatch
    /\ run' = [run EXCEPT !.at = "finish"]
    /\ UNCHANGED <<wd, gitVars, spent, past, mem, proj, step>>

\* The sequential for loop takes its next task.
PickTask(t) ==
    /\ run.at = "tasks"
    /\ ~run.threads
    /\ NoActive
    /\ t \in run.todo
    /\ Goto(t, "begin")
    /\ UNCHANGED <<wd, gitVars, spent, past, mem, proj, run>>

\* Mutant of AfterTask: the loop goes on after a task that is not DONE.
AfterTaskKeepGoing(t, ok) ==
    LET rest == run.todo \ {t}
    IN  run' = [run EXCEPT
                  !.todo = rest,
                  !.at = IF rest # {} THEN "tasks"
                         ELSE IF run.kind = "execute" THEN "finish" ELSE "gate"]

\* Where the command goes once task t is over.
AfterTask(t, ok) ==
    LET rest == run.todo \ {t}
        over == rest = {} \/ (~ok /\ run.stopOnFail /\ ~run.threads)
    IN  run' = [run EXCEPT
                  !.blocked = @ \/ ~ok,
                  !.todo = IF over THEN {} ELSE rest,
                  !.at = IF ~over THEN "tasks"
                         ELSE IF run.kind = "execute" THEN "finish" ELSE "gate"]

\* Sequential: save, then retry a soft reject or go on.
SaveSequential(t) ==
    /\ step[t] = "back"
    /\ ~run.threads
    /\ wd' = [wd EXCEPT !.status = mem]
    /\ IF mem[t].status = "PENDING"
       THEN Goto(t, "begin") /\ UNCHANGED run
       ELSE Goto(t, "idle") /\ AfterTask(t, mem[t].status = "DONE")
    /\ UNCHANGED <<gitVars, spent, past, mem, proj>>

\* Threads: the coordinator takes one finished future at a time.
Collecting == \E t \in Task : step[t] \in {"approved", "declined"}

NeedsMerge(t) == mem[t].status = "DONE" /\ tip[t] # cut[t]

CollectUnmerged(t) ==
    /\ step[t] = "back"
    /\ run.threads
    /\ ~Collecting
    /\ ~NeedsMerge(t)
    /\ Goto(t, IF mem[t].status = "DONE" THEN "approved" ELSE "declined")
    /\ UNCHANGED <<wd, gitVars, spent, past, mem, proj, run>>

CollectMerge(t) ==
    /\ step[t] = "back"
    /\ run.threads
    /\ ~Collecting
    /\ NeedsMerge(t)
    /\ CanMerge(t)
    /\ MergeBranch(t)
    /\ Goto(t, "approved")
    /\ UNCHANGED <<spent, past, mem, proj, run>>

\* Mutant of CollectConflict: the failed merge is reported and not recorded.
CollectConflictUnrecorded(t) ==
    /\ step[t] = "back"
    /\ run.threads
    /\ ~Collecting
    /\ NeedsMerge(t)
    /\ CanMerge(t)
    /\ main.out # cut[t].out
    /\ merging' = TRUE
    /\ wd' = OnMain
    /\ head' = "main"
    /\ Goto(t, "approved")
    /\ UNCHANGED <<mem, main, refs, tip, cut, pinned, spent, past, proj, run>>

\* The merge fails: on contents that another branch changed as well, which leaves
\* the merge unfinished, or because git refuses it.  The record goes to
\* AWAITING_HITL, but the result of the task still says DONE.
CollectConflict(t) ==
    /\ step[t] = "back"
    /\ run.threads
    /\ ~Collecting
    /\ NeedsMerge(t)
    /\ \/ /\ CanMerge(t)
          /\ main.out # cut[t].out
          /\ merging' = TRUE
          /\ wd' = OnMain
          /\ head' = "main"
       \/ /\ ~CanMerge(t)
          /\ UNCHANGED <<merging, wd, head>>
    /\ SetStatus(t, "AWAITING_HITL")
    /\ Goto(t, "approved")
    /\ UNCHANGED <<main, refs, tip, cut, pinned, spent, past, proj, run>>

\* Mutant of SaveThreads: a task that was not approved is not saved.
SaveThreadsApproved(t) ==
    /\ step[t] \in {"approved", "declined"}
    /\ wd' = IF step[t] = "approved" THEN [wd EXCEPT !.status = mem] ELSE wd
    /\ Goto(t, "idle")
    /\ AfterTask(t, step[t] = "approved")
    /\ UNCHANGED <<gitVars, spent, past, mem, proj>>

\* The whole file is saved, the records of running tasks included.
SaveThreads(t) ==
    /\ step[t] \in {"approved", "declined"}
    /\ wd' = [wd EXCEPT !.status = mem]
    /\ Goto(t, "idle")
    /\ AfterTask(t, step[t] = "approved")
    /\ UNCHANGED <<gitVars, spent, past, mem, proj>>

\* A future that raised is reported and passed over: nothing is saved for it.
CollectRaised(t) ==
    /\ step[t] = "raised"
    /\ ~Collecting
    /\ Goto(t, "idle")
    /\ AfterTask(t, FALSE)
    /\ UNCHANGED <<wd, gitVars, spent, past, mem, proj>>

\* After a batch: G7, then the reasons to stop, then the next batch.
BudgetGate ==
    /\ run.at = "gate"
    /\ spent
    /\ proj = "executing"
    /\ proj' = "budget_awaiting_approval"
    /\ wd' = [wd EXCEPT !.state = "budget_awaiting_approval"]
    /\ run' = [run EXCEPT !.at = "finish", !.blocked = TRUE]
    /\ UNCHANGED <<gitVars, spent, past, mem, step>>

NextBatch ==
    /\ run.at = "gate"
    /\ ~(spent /\ proj = "executing")
    /\ run' = IF run.blocked /\ run.stopOnFail
              THEN [run EXCEPT !.at = "finish"]
              ELSE [run EXCEPT !.at = "enter", !.batch = @ + 1, !.threads = FALSE]
    /\ UNCHANGED <<wd, gitVars, spent, past, mem, proj, step>>

\* Mutant of AllDone: nothing left to run counts as done.
AllSettled(records) == \A t \in Task : ~Open(records, t)

AllDone(records) == \A t \in Task : records[t].status = "DONE"

\* _maybe_finalize_done, and the end of the command.
Finish ==
    /\ run.at = "finish"
    /\ wd' = IF AllDone(mem) /\ proj = "executing" THEN [wd EXCEPT !.state = "done"] ELSE wd
    /\ run' = NoRun
    /\ mem' = NoRecords
    /\ proj' = "missing"
    /\ UNCHANGED <<gitVars, spent, past, step>>

------------------------------------------------------------------------------
(* Faults and the operator                                                 *)

\* The process is killed, or an exception ends a sequential command: only the
\* files and the repository remain.
Kill ==
    /\ Running
    /\ past.kills < MaxKills
    /\ past' = [past EXCEPT !.kills = @ + 1, !.starts = NoStarts]
    /\ run' = NoRun
    /\ mem' = NoRecords
    /\ proj' = "missing"
    /\ step' = AllIdle
    /\ UNCHANGED <<wd, gitVars, spent>>

\* A provider, a test command or git raises in a thread: nobody cleans up.
Raise(t) ==
    /\ run.threads
    /\ step[t] \in {"work", "review", "commit"}
    /\ past.raises < MaxRaises
    /\ past' = [past EXCEPT !.raises = @ + 1, !.starts[t] = 0]
    /\ Goto(t, "raised")
    /\ UNCHANGED <<wd, gitVars, spent, mem, proj, run>>

\* `ortim advance`.
Advance ==
    /\ ~Running
    /\ \E m \in Moves : wd.state = m[1] /\ wd' = [wd EXCEPT !.state = m[2]]
    /\ UNCHANGED <<gitVars, spent, past, procVars>>

\* "Reset task_status.json": the operator edits the record by hand.
ResetRecord(t) ==
    /\ ~Running
    /\ wd.status[t].status = "AWAITING_HITL"
    /\ wd' = [wd EXCEPT !.status[t] = FreshRecord]
    /\ past' = [past EXCEPT !.starts[t] = 0]
    /\ UNCHANGED <<gitVars, spent, procVars>>

\* `git merge --abort` by hand.
AbortMerge ==
    /\ ~Running
    /\ merging
    /\ merging' = FALSE
    /\ UNCHANGED <<wd, main, head, refs, tip, cut, pinned, spent, past, procVars>>

RaiseCap ==
    /\ ~Running
    /\ spent
    /\ spent' = FALSE
    /\ UNCHANGED <<wd, gitVars, past, procVars>>

------------------------------------------------------------------------------
ExecuteTask(t) ==
    \/ Begin(t) \/ BeginRefused(t)
    \/ Work(t) \/ WorkerRejected(t)
    \/ Reject(t) \/ Escalate(t) \/ Approve(t)
    \/ CommitInWorktree(t) \/ CommitInPrimary(t) \/ NothingToCommit(t)
    \/ CheckoutMain(t) \/ FinishMerge(t)

Loop ==
    \/ EnterBatch \/ LastBatchDone \/ BudgetGate \/ NextBatch \/ Finish
    \/ \E t \in Task : \/ PickTask(t) \/ SaveSequential(t)
                       \/ CollectUnmerged(t) \/ CollectMerge(t) \/ CollectConflict(t)
                       \/ SaveThreads(t) \/ CollectRaised(t)

Command == Loop \/ \E t \in Task : ExecuteTask(t)

Commands ==
    \/ OpenSchemaGate
    \/ \E m \in Modes : StartRunAll(m)
    \/ \E t \in Task : ExecuteOverBudget(t) \/ \E signed \in BOOLEAN : StartExecute(t, signed)

Operator == Advance \/ AbortMerge \/ RaiseCap \/ \E t \in Task : ResetRecord(t)

Fault == Kill \/ \E t \in Task : Raise(t)

Next == Command \/ Commands \/ Operator \/ Fault

Spec == Init /\ [][Next]_vars

\* A command that runs goes on: every call it waits for has a timeout.
FairSpec == Spec /\ WF_vars(Command)

\* An operator who keeps trying: approves what waits for approval, and executes,
\* with --human-reviewed, whatever task a command accepts.
DiligentSpec ==
    /\ FairSpec
    /\ SF_vars(Advance)
    /\ \A t \in Task : SF_vars(StartExecute(t, TRUE)) /\ SF_vars(ExecuteOverBudget(t))

==============================================================================
