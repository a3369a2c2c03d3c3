------------------------------- MODULE GitRepo -------------------------------
(***************************************************************************)
(* What git does to the files of a workspace, as far as                    *)
(* ortim/executor/git_ops.py relies on it.                                 *)
(*                                                                         *)
(* The repository that the executor creates is the metadata directory      *)
(* itself, and commit_changes stages with `git add -A`, so the files under *)
(* version control are the outputs of the Workers and the executor's own   *)
(* state.json, task_status.json and design documents.  A tree is one       *)
(* version of all of them:                                                 *)
(*   state    what state.json says, or "missing"                           *)
(*   docs     whether RFC.md and task_dag.json are there                   *)
(*   status   the records of task_status.json (no file: no record started) *)
(*   out      the files of each task: "none", "draft" (written by a Worker *)
(*            and not accepted) or "accepted" (passed every review)        *)
(* A commit is a tree; so is the primary working directory.                *)
(***************************************************************************)
EXTENDS TaskDag

CONSTANT MaxAttempts   \* --max-attempts of execute and run-all

\* The branch of a task is task/<id>, never main.
ASSUME BranchAssumption == "main" \notin Task

ASSUME MaxAttemptsAssumption == MaxAttempts \in Nat \ {0}

TaskStatus == {"PENDING", "IN_PROGRESS", "DONE", "FAILED", "AWAITING_HITL"}

\* Attempts beyond MaxAttempts behave alike, so the count saturates there.
Record == [status : TaskStatus, attempts : 0 .. MaxAttempts + 1]

ExecState == {"tasks_ready", "schema_awaiting_approval", "executing",
              "budget_awaiting_approval", "paused", "done"}

Output == {"none", "draft", "accepted"}

Tree == [state  : ExecState \union {"missing"},
         docs   : BOOLEAN,
         status : [Task -> Record],
         out    : [Task -> Output]]

FreshRecord == [status |-> "PENDING", attempts |-> 0]

\* The empty commit that ensure_repo seeds main with.
SeedTree == [state  |-> "missing",
             docs   |-> FALSE,
             status |-> [t \in Task |-> FreshRecord],
             out    |-> [t \in Task |-> "none"]]

------------------------------------------------------------------------------
\* Going from commit `old` to commit `new` while the file here is `here`:
\* git writes the file only if the commits differ on it, and refuses the whole
\* operation when that would lose a local change.
Carry(old, new, here)   == IF new = old THEN here ELSE new
Refuses(old, new, here) == new # old /\ here # old

CanSwitch(old, new, wd) ==
    /\ ~Refuses(old.state, new.state, wd.state)
    /\ ~Refuses(old.docs, new.docs, wd.docs)
    /\ ~Refuses(old.status, new.status, wd.status)
    /\ \A t \in Task : ~Refuses(old.out[t], new.out[t], wd.out[t])

Switched(old, new, wd) ==
    [state  |-> Carry(old.state, new.state, wd.state),
     docs   |-> Carry(old.docs, new.docs, wd.docs),
     status |-> Carry(old.status, new.status, wd.status),
     out    |-> [t \in Task |-> Carry(old.out[t], new.out[t], wd.out[t])]]

\* The three-way merge of `theirs` into `ours`: take theirs where it left the base.
Merged(base, ours, theirs) == Switched(base, theirs, ours)
==============================================================================
