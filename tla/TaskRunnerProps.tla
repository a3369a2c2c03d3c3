-------------------------- MODULE TaskRunnerProps ---------------------------
(***************************************************************************)
(* What TaskRunner is checked for, and the ledger that it implements.      *)
(***************************************************************************)
EXTENDS TaskRunner

\* A record says DONE on disk only if the reviewed output of the task is on main:
\* a crash, a retry or a lost branch never leaves work that is done in name only.
DoneIsOnMain ==
    \A t \in Task : wd.status[t].status = "DONE" => main.out[t] = "accepted"

\* The project is done only when every task is, on disk and on main.
FinishedMeansLanded ==
    wd.state = "done" =>
        \A t \in Task : wd.status[t].status = "DONE" /\ main.out[t] = "accepted"

\* A task is attempted only on top of the landed output of its dependencies.
DependencyOrder ==
    \A t \in Task : step[t] \notin {"idle", "raised"} =>
        \A d \in Deps[t] : mem[d].status = "DONE" /\ main.out[d] = "accepted"

(* As long as no command is cut short, all the commands together start a task at most
   MaxAttempts times before an operator resets its record: what a checkout or a merge does to
   task_status.json, and what the threads of a batch save for each other, loses no count
   (runner.py:150, execution.py:1225-1279).  A kill, and an exception that nobody catches, may
   lose the counts that are not on main, and the tasks start anew. *)
StartsBounded == \A t \in Task : past.starts[t] <= MaxAttempts

\* A Worker writes, and git stages, on the branch of its own task: in the primary
\* checkout for one task at a time, or in a worktree the primary is not on.
WorkerOnItsBranch ==
    \A t \in Task : step[t] \in {"work", "review", "commit"} =>
        /\ t \in refs
        /\ IF run.threads
           THEN t \in pinned /\ head # t
           ELSE /\ head = t /\ t \notin pinned
                /\ \A u \in Task \ {t} : step[u] = "idle"

\* The same for the time between commands, when no merge is under way.
DoneIsOnMainAtRest == ~Running => DoneIsOnMain

\* run-all does not go past a batch in which a task waits for a human.
StopOnFail ==
    [][run.at = "enter" /\ run'.at = "tasks" /\ run.stopOnFail =>
          \A t \in Placed[run.batch] : mem[t].status # "AWAITING_HITL"]_vars

\* Every command ends.
RunTerminates == Running ~> ~Running

\* The executor implements the ledger.
Held == {t \in Task : (IF Running THEN mem ELSE wd.status)[t].status = "AWAITING_HITL"}

Ledger == INSTANCE TaskLedger WITH
              landed   <- {t \in Task : main.out[t] = "accepted"},
              held     <- Held,
              finished <- wd.state = "done"

ImplementsLedger == Ledger!LedgerSpec

------------------------------------------------------------------------------
(* Why DoneIsOnMain holds without worktrees: the inductive invariant        *)

SequentialModes == \A m \in Modes : ~m.parallel

\* Every record that says DONE in `early` says so in `late`.
KeepsDone(early, late) ==
    \A t \in Task : early[t].status = "DONE" => late[t].status = "DONE"

\* The outputs behind the records that say DONE are the accepted ones.
DoneIn(records, out) ==
    \A t \in Task : records[t].status = "DONE" => out[t] = "accepted"

\* One task at a time, and only while the loop is at its tasks.
OneAtATime ==
    /\ ~run.parallel /\ ~run.threads
    /\ \A t \in Task : step[t] \notin {"approved", "declined", "raised"}
    /\ \A t, u \in Task : step[t] # "idle" /\ step[u] # "idle" => t = u
    /\ run.at # "tasks" => \A t \in Task : step[t] = "idle"
    /\ \A t \in run.todo : step[t] = "idle" => mem[t].status # "DONE"
    /\ \A t \in Task : step[t] \notin {"idle", "back"} => mem[t].status # "DONE"

\* The files never know more than the memory, nor main more than the files.
FilesBehind ==
    /\ KeepsDone(main.status, wd.status)
    /\ DoneIn(wd.status, main.out)
    /\ DoneIn(wd.status, wd.out)
    /\ Running => KeepsDone(wd.status, mem) /\ DoneIn(mem, main.out)
    /\ Running /\ (\A t \in Task : step[t] # "onmain") => DoneIn(mem, wd.out)

\* What the branch of the task in hand holds.
BranchInHand ==
    \A t \in Task :
        /\ step[t] \in {"work", "review", "commit"} =>
              head = t /\ cut[t] = main /\ tip[t] = main
        /\ step[t] = "merge" =>
              head = t /\ cut[t] = main /\ tip[t] = wd /\ wd.out[t] = "accepted"
        /\ step[t] = "onmain" =>
              /\ head = "main" /\ cut[t] = main /\ wd = main
              /\ tip[t].out[t] = "accepted"
              /\ KeepsDone(main.status, tip[t].status)
              /\ KeepsDone(tip[t].status, mem)
              /\ DoneIn(mem, tip[t].out)

DoneInv == TypeOK /\ OneAtATime /\ FilesBehind /\ BranchInHand

------------------------------------------------------------------------------
(* The other inductive invariants                                          *)

\* Every version of task_status.json, those that git can bring back included: what waits for
\* another attempt has one left, and what was interrupted has been counted.
WithinBudget(records) ==
    \A t \in Task :
        /\ records[t].status # "FAILED"
        /\ records[t].status = "PENDING" => records[t].attempts < MaxAttempts
        /\ records[t].status = "IN_PROGRESS" => records[t].attempts > 0

RetryBudget == WithinBudget(mem) /\ WithinBudget(wd.status)

BudgetInv ==
    /\ TypeOK
    /\ RetryBudget
    /\ WithinBudget(main.status)
    /\ \A t \in Task : WithinBudget(tip[t].status) /\ WithinBudget(cut[t].status)

\* A record accounts for n starts, and an attempt that is counted and did not end for one more.
Counts(r, n) ==
    /\ n <= r.attempts /\ n <= MaxAttempts
    /\ r.status = "IN_PROGRESS" => n < r.attempts /\ n < MaxAttempts

Started(t) == step[t] \in {"work", "review", "commit", "merge", "onmain"}
Waiting(t) == step[t] \in {"idle", "begin", "raised"}

\* Between the checkout of a branch, or the merge of one, and the next save the file may be
\* an older one.
FileCurrent == IF run.threads THEN ~Collecting ELSE \A t \in Task : step[t] \in {"idle", "begin"}

StartsInv ==
    /\ \A t \in Task : step[t] \in {"merge", "onmain"} => ~run.threads
    /\ \A t \in Task : step[t] \in {"approved", "declined", "raised"} => run.threads
    /\ \A t \in run.todo : step[t] \in {"idle", "begin"} => Open(mem, t)
    /\ Running => \A t \in Task :
          IF Started(t)
          THEN past.starts[t] <= mem[t].attempts /\ past.starts[t] <= MaxAttempts
          ELSE Counts(mem[t], past.starts[t])
    /\ FileCurrent => \A t \in Task : Waiting(t) => Counts(wd.status[t], past.starts[t])

\* Only the tasks of the batch in hand are under way, without worktrees one of them.
TasksInHand ==
    /\ run.at # "tasks" => run.todo = {}
    /\ \A t \in Task : step[t] # "idle" => t \in run.todo
    /\ ~run.threads => \A t, u \in Task : step[t] # "idle" /\ step[u] # "idle" => t = u

BranchInv == TypeOK /\ TasksInHand /\ WorkerOnItsBranch

\* `done` is in state.json alone, and only where the records agree.
NotDoneYet ==
    /\ main.state # "done" /\ \A t \in Task : tip[t].state # "done"
    /\ wd.state = "done" => ~Running /\ AllDone(wd.status)

\* Between two tasks the memory is what the file says.
FilesSaved ==
    Running /\ (\A t \in Task : step[t] \in {"idle", "begin"}) => mem = wd.status

\* run-all with stop_on_fail has done all that --phase keeps of the earlier batches.
KeptDone(n) == \A t \in Placed[n] : Phase[t] <= run.phase => mem[t].status = "DONE"

\* The options of the command in hand.
ModeInHand ==
    IF run.kind = "run_all"
    THEN \E m \in Modes : run.phase = m.phase /\ run.stopOnFail = m.stopOnFail
    ELSE run.stopOnFail

BatchesInOrder ==
    /\ run.at \in {"enter", "gate"} => run.kind = "run_all"
    /\ run.at = "tasks" => run.kind # "none"
    /\ run.kind = "run_all" => run.batch \in Nat \ {0}
    /\ run.kind = "run_all" /\ run.at \in {"enter", "tasks", "gate"} => KeptDone(run.batch - 1)
    /\ run.kind = "run_all" /\ run.at = "tasks" =>
          /\ run.todo \subseteq Kept
          /\ \A t \in Kept \ run.todo : mem[t].status = "DONE"
    /\ run.at = "gate" /\ ~run.blocked => KeptDone(run.batch)
    /\ \A t \in run.todo, d \in Task : d \in Deps[t] => mem[d].status = "DONE"

OrderInv == BranchInv /\ DoneInv /\ ModeInHand /\ (run.stopOnFail => BatchesInOrder)

\* As long as nothing is killed, the records, main and the files agree on every task
\* that is not between its commit and its save.
Landed(out, t) == out[t] = "accepted"
IsDone(records, t) == records[t].status = "DONE"

\* The working directory holds what the command works on, not just the tree of main.
FilesInPlace == \A t \in Task : step[t] # "onmain"

Agreed(t) ==
    /\ step[t] # "back" \/ ~run.threads => (IsDone(mem, t) <=> Landed(main.out, t))
    /\ step[t] \notin {"back", "approved"} /\ FilesInPlace =>
          (IsDone(wd.status, t) <=> Landed(main.out, t))
    /\ step[t] # "merge" /\ FilesInPlace => (Landed(wd.out, t) <=> Landed(main.out, t))
    /\ step[t] \notin {"idle", "approved", "back"} => ~Landed(main.out, t)
    /\ step[t] = "idle" /\ t \in run.todo => ~Landed(main.out, t)
    /\ step[t] = "back" /\ run.threads =>
          ~Landed(main.out, t) /\ (IsDone(wd.status, t) => IsDone(mem, t))
    /\ step[t] = "merge" => Landed(wd.out, t)

\* What the branches hold.
BranchAgrees(t) ==
    /\ step[t] \in {"work", "review", "commit"} =>
          tip[t] = cut[t] /\ (cut[t].out[t] = main.out[t]) /\ (~run.threads => cut[t] = main)
    /\ step[t] = "back" /\ run.threads /\ IsDone(mem, t) =>
          tip[t] = [cut[t] EXCEPT !.out[t] = "accepted"] /\ (cut[t].out[t] = main.out[t])
    /\ step[t] \in {"merge", "onmain"} => ~run.threads /\ cut[t] = main
    /\ step[t] = "merge" => head = t /\ tip[t] = wd
    /\ step[t] = "onmain" =>
          /\ head = "main" /\ wd = main
          /\ \A u \in Task :
                /\ Landed(tip[t].out, u) <=> u = t \/ Landed(main.out, u)
                /\ IsDone(tip[t].status, u) <=> Landed(main.out, u)

UnkilledInv ==
    /\ BranchInv
    /\ \A t \in Task : step[t] \in {"approved", "declined", "raised"} => run.threads
    /\ head # "main" => step[head] = "merge" \/ tip[head] = main
    /\ Running => \A t \in Task : Agreed(t)
    /\ ~Running => \A t \in Task :
          /\ IsDone(wd.status, t) <=> Landed(main.out, t)
          /\ Landed(wd.out, t) <=> Landed(main.out, t)
    /\ \A t \in Task : BranchAgrees(t)

\* A task under way is neither done nor held.
UnderWay ==
    \A t \in Task : step[t] \in {"work", "review", "commit", "merge", "onmain"} =>
        mem[t].status = "IN_PROGRESS"

\* What ImplementsLedger rests on.
LedgerInv == OrderInv /\ UnkilledInv /\ FilesSaved /\ NotDoneYet /\ UnderWay

------------------------------------------------------------------------------
(* What the documentation says and the code does not do                    *)

\* A sensitive task that nobody signed off never lands on main
\* (ortim/executor/runner.py, the comment on the sensitive-category gate).
SensitiveNeverLandsUnsigned == \A t \in Sensitive : main.out[t] # "draft"

\* When no command runs, state.json is there to read: "state.json is always the
\* ground truth" (docs/runbook/failure-recovery.md).
StateIsOnDisk == ~Running => wd.state # "missing"

\* start_task_branch can "drop any pre-existing task branch" (its docstring).
BranchStartsFresh ==
    \A t \in Task : step[t] = "begin" /\ ~run.threads => CanStartBranch(t)

\* A signed-off sensitive task runs again: "Re-run with --human-reviewed once you
\* have" (the message of the sensitive-category gate).
SignedTaskRunsAgain ==
    \A t \in Sensitive :
        (wd.status[t].status = "AWAITING_HITL") ~> (step[t] # "idle")

\* After "approve this overage and continue" the next task of the DAG does run
\* (the message of the budget gate).
ApprovedOverageContinues ==
    \A t \in Task :
        (spent /\ wd.state = "executing" /\ ~Running /\ Executable(t)) ~> (step[t] # "idle" \/ ~spent)
==============================================================================
