-------------------------- MODULE TaskRunnerProofs ---------------------------
(***************************************************************************)
(* Proofs about TaskRunner, for every DAG, retry budget and number of      *)
(* faults.                                                                 *)
(***************************************************************************)
EXTENDS TaskRunnerProps, RecursionProofs, TLAPS

\* A switch between two trees yields a tree.
LEMMA SwitchedType ==
    ASSUME NEW old \in Tree, NEW new \in Tree, NEW here \in Tree
    PROVE  Switched(old, new, here) \in Tree
BY DEF Switched, Carry, Tree

LEMMA SeedType == SeedTree \in Tree /\ FreshRecord \in Record /\ NoRecords \in [Task -> Record]
BY MaxAttemptsAssumption DEF SeedTree, Tree, FreshRecord, Record, TaskStatus, Output, NoRecords

LEMMA OnMainType == GitOK => HeadTree \in Tree /\ OnMain \in Tree
BY SwitchedType DEF GitOK, HeadTree, OnMain

LEMMA MergedType ==
    ASSUME GitOK, NEW t \in Task
    PROVE  /\ Merged(cut[t], main, tip[t]) \in Tree
           /\ Switched(main, Merged(cut[t], main, tip[t]), OnMain) \in Tree
BY SwitchedType, OnMainType DEF GitOK, Merged

LEMMA CountAttemptType ==
    ASSUME NEW r \in Record PROVE CountAttempt(r) \in Record
<1>. DEFINE n == IF r.attempts > MaxAttempts THEN r.attempts ELSE r.attempts + 1
<1>1. r.status \in TaskStatus /\ r.attempts \in 0 .. MaxAttempts + 1
  BY DEF Record
<1>2. n \in 0 .. MaxAttempts + 1
  BY <1>1, MaxAttemptsAssumption
<1>3. CountAttempt(r) = [r EXCEPT !.status = "IN_PROGRESS", !.attempts = n]
  BY DEF CountAttempt
<1>. HIDE DEF n
<1>. QED BY <1>2, <1>3 DEF Record, TaskStatus

LEMMA CountAttemptIs ==
    ASSUME NEW r \in Record
    PROVE  /\ CountAttempt(r).status = "IN_PROGRESS" /\ CountAttempt(r).attempts > 0
           /\ CountAttempt(r).attempts >= r.attempts
           /\ r.attempts <= MaxAttempts => CountAttempt(r).attempts = r.attempts + 1
<1>. DEFINE n == IF r.attempts > MaxAttempts THEN r.attempts ELSE r.attempts + 1
<1>1. n \in Nat /\ n > 0 /\ n >= r.attempts /\ (r.attempts <= MaxAttempts => n = r.attempts + 1)
  BY MaxAttemptsAssumption DEF Record
<1>2. CountAttempt(r) = [r EXCEPT !.status = "IN_PROGRESS", !.attempts = n]
  BY DEF CountAttempt, Record
<1>. HIDE DEF n
<1>3. CountAttempt(r).status = "IN_PROGRESS" /\ CountAttempt(r).attempts = n
  BY <1>2 DEF Record
<1>. QED BY <1>1, <1>3

LEMMA GitSteps ==
    ASSUME GitOK, NEW t \in Task
    PROVE  /\ StartBranch(t) => GitOK'
           /\ AddWorktree(t) => GitOK'
           /\ CleanUp(t) => GitOK'
           /\ MergeBranch(t) => GitOK'
<1>1. StartBranch(t) => GitOK'
  BY OnMainType DEF GitOK, StartBranch
<1>2. AddWorktree(t) => GitOK'
  BY DEF GitOK, AddWorktree
<1>3. CleanUp(t) => GitOK'
  BY OnMainType, SeedType DEF GitOK, CleanUp, DropBranch
<1>4. MergeBranch(t) => GitOK'
  BY MergedType, SeedType DEF GitOK, MergeBranch, DropBranch
<1>. QED BY <1>1, <1>2, <1>3, <1>4

LEMMA ProcSteps ==
    ASSUME ProcOK, NEW t \in Task
    PROVE  /\ \A x \in Step : Goto(t, x) => step' \in [Task -> Step]
           /\ \A x \in TaskStatus : SetStatus(t, x) => mem' \in [Task -> Record]
           /\ SoftReject(t) => mem' \in [Task -> Record]
           /\ mem' = [mem EXCEPT ![t] = CountAttempt(@)] => mem' \in [Task -> Record]
<1>1. \A x \in Step : Goto(t, x) => step' \in [Task -> Step]
  BY DEF ProcOK, Goto
<1>2. \A x \in TaskStatus : SetStatus(t, x) => mem' \in [Task -> Record]
  BY DEF ProcOK, SetStatus, Record
<1>3. SoftReject(t) => mem' \in [Task -> Record]
  BY <1>2 DEF SoftReject, TaskStatus
<1>4. mem' = [mem EXCEPT ![t] = CountAttempt(@)] => mem' \in [Task -> Record]
  BY CountAttemptType DEF ProcOK
<1>. QED BY <1>1, <1>2, <1>3, <1>4

LEMMA RunTypes ==
    ASSUME run \in Run, NEW t \in Task, NEW ok \in BOOLEAN
    PROVE  /\ NoRun \in Run
           /\ AfterTask(t, ok) => run' \in Run
<1>1. NoRun \in Run
  BY DEF NoRun, Run
<1>2. ASSUME AfterTask(t, ok) PROVE run' \in Run
  <2>. DEFINE rest == run.todo \ {t}
              over == rest = {} \/ (~ok /\ run.stopOnFail /\ ~run.threads)
              at == IF ~over THEN "tasks" ELSE IF run.kind = "execute" THEN "finish" ELSE "gate"
              todo == IF over THEN {} ELSE rest
  <2>1. run' = [run EXCEPT !.blocked = @ \/ ~ok, !.todo = todo, !.at = at]
    BY <1>2 DEF AfterTask
  <2>2. at \in {"tasks", "finish", "gate"}
    OBVIOUS
  <2>3. todo \in SUBSET Task
    BY DEF Run
  <2>. HIDE DEF at, todo
  <2>. QED BY <2>1, <2>2, <2>3 DEF Run
<1>. QED BY <1>1, <1>2

\* Starts are counted and forgotten.
LEMMA PastSteps ==
    ASSUME past \in Past, NEW t \in Task
    PROVE  /\ [past EXCEPT !.starts[t] = OneMore(@)] \in Past
           /\ [past EXCEPT !.starts[t] = 0] \in Past
           /\ past.raises < MaxRaises => [past EXCEPT !.raises = @ + 1, !.starts[t] = 0] \in Past
<1>. DEFINE starts == [past.starts EXCEPT ![t] = OneMore(past.starts[t])]
            cleared == [past.starts EXCEPT ![t] = 0]
            raises == past.raises + 1
<1>1. starts \in [Task -> Nat] /\ cleared \in [Task -> Nat]
  BY MaxAttemptsAssumption DEF Past, OneMore
<1>2. past.raises < MaxRaises => raises \in 0 .. MaxRaises
  BY RunnerAssumption DEF Past
<1>3. /\ [past EXCEPT !.starts[t] = OneMore(@)] = [past EXCEPT !.starts = starts]
      /\ [past EXCEPT !.starts[t] = 0] = [past EXCEPT !.starts = cleared]
      /\ [past EXCEPT !.raises = @ + 1, !.starts[t] = 0] = [past EXCEPT !.raises = raises, !.starts = cleared]
  BY DEF Past
<1>. HIDE DEF starts, cleared, raises
<1>. QED BY <1>1, <1>2, <1>3 DEF Past

LEMMA PastForgotten ==
    ASSUME past \in Past
    PROVE  /\ [past EXCEPT !.starts = NoStarts] \in Past
           /\ past.kills < MaxKills => [past EXCEPT !.kills = @ + 1, !.starts = NoStarts] \in Past
<1>. DEFINE kills == past.kills + 1
<1>1. NoStarts \in [Task -> Nat]
  BY DEF NoStarts
<1>2. past.kills < MaxKills => kills \in 0 .. MaxKills
  BY RunnerAssumption DEF Past
<1>3. [past EXCEPT !.kills = @ + 1, !.starts = NoStarts] = [past EXCEPT !.kills = kills, !.starts = NoStarts]
  OBVIOUS
<1>. HIDE DEF kills
<1>. QED BY <1>1, <1>2, <1>3 DEF Past

\* execute_task keeps the types.
LEMMA TypeOfExecuteTask ==
    ASSUME TypeOK, NEW t \in Task, ExecuteTask(t)
    PROVE  TypeOK'
<1>. USE DEF TypeOK
<1>1. CASE Begin(t)
  BY <1>1, GitSteps, ProcSteps, PastSteps DEF Begin, ProcOK, Step
<1>2. CASE BeginRefused(t)
  <2>1. past' \in Past
    BY <1>2, PastForgotten DEF BeginRefused
  <2>. QED BY <1>2, <2>1, OnMainType, SeedType, ProcSteps, RunTypes
           DEF BeginRefused, Escape, GitOK, ProcOK, AllIdle, Step
<1>3. CASE Work(t)
  <2>1. [wd EXCEPT !.out[t] = "draft"] \in Tree
    BY DEF GitOK, Tree, Output
  <2>2. wd' \in Tree
    BY <1>3, <2>1 DEF Work, GitOK
  <2>3. GitOK'
    BY <1>3, <2>2 DEF Work, GitOK, gitVars
  <2>. QED BY <1>3, <2>3, ProcSteps DEF Work, ProcOK, Step
<1>4. CASE WorkerRejected(t)
  BY <1>4, GitSteps, ProcSteps DEF WorkerRejected, ProcOK, Step
<1>5. CASE Reject(t)
  BY <1>5, GitSteps, ProcSteps DEF Reject, ProcOK, Step
<1>6. CASE Escalate(t)
  BY <1>6, GitSteps, ProcSteps DEF Escalate, ProcOK, Step, TaskStatus
<1>7. CASE Approve(t)
  BY <1>7, ProcSteps DEF Approve, GitOK, gitVars, ProcOK, Step
<1>8. CASE CommitInWorktree(t) \/ CommitInPrimary(t) \/ NothingToCommit(t)
  <2>1. CommitTree(t) \in Tree
    BY DEF CommitTree, GitOK, Tree, Output
  <2>2. GitOK'
    BY <1>8, <2>1 DEF CommitInWorktree, CommitInPrimary, NothingToCommit, Committed, GitOK
  <2>3. ProcOK'
    BY <1>8, ProcSteps DEF CommitInWorktree, CommitInPrimary, NothingToCommit, Committed, ProcOK, Step, TaskStatus
  <2>. QED BY <1>8, <2>2, <2>3 DEF CommitInWorktree, CommitInPrimary, NothingToCommit, Committed
<1>9. CASE CheckoutMain(t)
  BY <1>9, OnMainType, ProcSteps DEF CheckoutMain, GitOK, ProcOK, Step
<1>10. CASE FinishMerge(t)
  BY <1>10, GitSteps, ProcSteps DEF FinishMerge, ProcOK, Step, TaskStatus
<1>. QED
  BY <1>1, <1>2, <1>3, <1>4, <1>5, <1>6, <1>7, <1>8, <1>9, <1>10 DEF ExecuteTask

\* The loops of the commands keep the types.
LEMMA TypeOfLoop ==
    ASSUME TypeOK, Loop
    PROVE  TypeOK'
<1>. USE DEF TypeOK
<1>1. CASE EnterBatch
  <2>. DEFINE pending == {t \in Kept : Open(mem, t)}
              blocked == run.blocked \/ \E t \in Kept : mem[t].status = "AWAITING_HITL"
              threads == run.parallel /\ Cardinality(pending) > 1
  <2>1. pending \in SUBSET Task /\ blocked \in BOOLEAN /\ threads \in BOOLEAN
    BY DEF Kept, ProcOK, Run
  <2>. DEFINE next == run.batch + 1
  <2>5. next \in Nat
    BY DEF ProcOK, Run
  <2>2. \/ run' = [run EXCEPT !.blocked = TRUE, !.at = "finish"]
        \/ run' = [run EXCEPT !.blocked = blocked, !.batch = next]
        \/ run' = [run EXCEPT !.blocked = blocked, !.at = "tasks",
                              !.todo = pending, !.threads = threads]
    BY <1>1 DEF EnterBatch
  <2>3. step' \in [Task -> Step]
    BY <1>1 DEF EnterBatch, ProcOK, Step
  <2>. HIDE DEF pending, blocked, threads, next
  <2>4. run' \in Run
    <3>1. run \in Run
      BY DEF ProcOK
    <3>2. CASE run' = [run EXCEPT !.blocked = TRUE, !.at = "finish"]
      BY <3>1, <3>2 DEF Run
    <3>3. CASE run' = [run EXCEPT !.blocked = blocked, !.batch = next]
      BY <2>1, <2>5, <3>1, <3>3 DEF Run
    <3>4. CASE run' = [run EXCEPT !.blocked = blocked, !.at = "tasks",
                                  !.todo = pending, !.threads = threads]
      BY <2>1, <3>1, <3>4 DEF Run
    <3>. QED BY <2>2, <3>2, <3>3, <3>4
  <2>. QED BY <1>1, <2>3, <2>4 DEF EnterBatch, GitOK, gitVars, ProcOK
<1>2. CASE LastBatchDone
  BY <1>2 DEF LastBatchDone, GitOK, gitVars, ProcOK, Run
<1>3. CASE BudgetGate
  <2>1. wd' \in Tree /\ run' \in Run
    BY <1>3 DEF BudgetGate, GitOK, ProcOK, Tree, ExecState, Run
  <2>. QED BY <1>3, <2>1 DEF BudgetGate, GitOK, gitVars, ProcOK, ExecState
<1>4. CASE NextBatch
  <2>. DEFINE next == run.batch + 1
  <2>1. next \in Nat
    BY DEF ProcOK, Run
  <2>2. \/ run' = [run EXCEPT !.at = "finish"]
        \/ run' = [run EXCEPT !.at = "enter", !.batch = next, !.threads = FALSE]
    BY <1>4 DEF NextBatch
  <2>. HIDE DEF next
  <2>3. run' \in Run
    BY <2>1, <2>2 DEF ProcOK, Run
  <2>. QED BY <1>4, <2>3 DEF NextBatch, GitOK, gitVars, ProcOK
<1>5. CASE Finish
  <2>1. wd' \in Tree
    BY <1>5 DEF Finish, GitOK, Tree, ExecState
  <2>. QED BY <1>5, <2>1, SeedType DEF Finish, GitOK, gitVars, ProcOK, NoRun, Run
<1>6. ASSUME NEW t \in Task, PickTask(t) PROVE TypeOK'
  BY <1>6, ProcSteps DEF PickTask, GitOK, gitVars, ProcOK, Step
<1>7. ASSUME NEW t \in Task, SaveSequential(t) PROVE TypeOK'
  <2>1. wd' \in Tree
    BY <1>7 DEF SaveSequential, GitOK, ProcOK, Tree
  <2>2. run' \in Run /\ step' \in [Task -> Step]
    BY <1>7, RunTypes, ProcSteps DEF SaveSequential, ProcOK, Step
  <2>. QED BY <1>7, <2>1, <2>2 DEF SaveSequential, GitOK, gitVars, ProcOK
<1>8. ASSUME NEW t \in Task, CollectUnmerged(t) PROVE TypeOK'
  BY <1>8, ProcSteps DEF CollectUnmerged, GitOK, gitVars, ProcOK, Step
<1>9. ASSUME NEW t \in Task, CollectMerge(t) PROVE TypeOK'
  BY <1>9, GitSteps, ProcSteps DEF CollectMerge, ProcOK, Step
<1>10. ASSUME NEW t \in Task, CollectConflict(t) PROVE TypeOK'
  <2>1. GitOK'
    BY <1>10, OnMainType DEF CollectConflict, GitOK
  <2>. QED BY <1>10, <2>1, ProcSteps DEF CollectConflict, ProcOK, Step, TaskStatus
<1>11. ASSUME NEW t \in Task, SaveThreads(t) PROVE TypeOK'
  <2>1. wd' \in Tree
    BY <1>11 DEF SaveThreads, GitOK, ProcOK, Tree
  <2>2. run' \in Run /\ step' \in [Task -> Step]
    BY <1>11, RunTypes, ProcSteps DEF SaveThreads, ProcOK, Step
  <2>. QED BY <1>11, <2>1, <2>2 DEF SaveThreads, GitOK, gitVars, ProcOK
<1>12. ASSUME NEW t \in Task, CollectRaised(t) PROVE TypeOK'
  BY <1>12, RunTypes, ProcSteps DEF CollectRaised, GitOK, gitVars, ProcOK, Step
<1>. QED
  BY <1>1, <1>2, <1>3, <1>4, <1>5, <1>6, <1>7, <1>8, <1>9, <1>10, <1>11, <1>12 DEF Loop

\* Starting a command keeps the types.
LEMMA TypeOfCommands ==
    ASSUME TypeOK, Commands
    PROVE  TypeOK'
<1>. USE DEF TypeOK
<1>1. \A x \in ExecState : [wd EXCEPT !.state = x] \in Tree
  BY DEF GitOK, Tree
<1>2. CASE OpenSchemaGate
  BY <1>1, <1>2 DEF OpenSchemaGate, GitOK, gitVars, ProcOK, procVars, ExecState
<1>3. ASSUME NEW m \in Modes, StartRunAll(m) PROVE TypeOK'
  <2>1. m \in Mode
    BY RunnerAssumption DEF Mode
  <2>2. run' \in Run
    BY <1>3, <2>1 DEF StartRunAll, Load, NoRun, Run, Mode
  <2>3. mem' \in [Task -> Record]
    BY <1>3 DEF StartRunAll, Load, GitOK, Tree
  <2>. QED BY <1>1, <1>3, <2>2, <2>3 DEF StartRunAll, Load, GitOK, gitVars, ProcOK, ExecState
<1>4. ASSUME NEW t \in Task, ExecuteOverBudget(t) PROVE TypeOK'
  BY <1>1, <1>4 DEF ExecuteOverBudget, GitOK, gitVars, ProcOK, procVars, ExecState
<1>5. ASSUME NEW t \in Task, NEW signed \in BOOLEAN, StartExecute(t, signed) PROVE TypeOK'
  <2>1. run' \in Run
    BY <1>5 DEF StartExecute, Load, NoRun, Run
  <2>2. mem' \in [Task -> Record]
    BY <1>5 DEF StartExecute, Load, GitOK, Tree
  <2>. QED BY <1>1, <1>5, <2>1, <2>2, ProcSteps DEF StartExecute, Load, GitOK, gitVars, ProcOK, ExecState, Step
<1>. QED BY <1>2, <1>3, <1>4, <1>5 DEF Commands

\* The operator and the faults keep the types.
LEMMA TypeOfRest ==
    ASSUME TypeOK, Operator \/ Fault
    PROVE  TypeOK'
<1>. USE DEF TypeOK
<1>1. CASE Advance
  <2>1. wd' \in Tree
    BY <1>1, RunnerAssumption DEF Advance, GitOK, Tree
  <2>. QED BY <1>1, <2>1 DEF Advance, GitOK, gitVars, ProcOK, procVars
<1>2. CASE AbortMerge
  BY <1>2 DEF AbortMerge, GitOK, ProcOK, procVars
<1>3. CASE RaiseCap
  BY <1>3 DEF RaiseCap, GitOK, gitVars, ProcOK, procVars
<1>4. ASSUME NEW t \in Task, ResetRecord(t) PROVE TypeOK'
  <2>1. wd' \in Tree
    BY <1>4, SeedType DEF ResetRecord, GitOK, Tree
  <2>2. past' \in Past
    BY <1>4, PastSteps DEF ResetRecord
  <2>. QED BY <1>4, <2>1, <2>2 DEF ResetRecord, GitOK, gitVars, ProcOK, procVars
<1>5. CASE Kill
  <2>1. past' \in Past
    BY <1>5, PastForgotten DEF Kill
  <2>. QED BY <1>5, <2>1, SeedType DEF Kill, GitOK, gitVars, ProcOK, NoRun, Run, AllIdle, Step
<1>6. ASSUME NEW t \in Task, Raise(t) PROVE TypeOK'
  <2>1. past' \in Past
    BY <1>6, PastSteps DEF Raise
  <2>. QED BY <1>6, <2>1, ProcSteps DEF Raise, GitOK, gitVars, ProcOK, Step
<1>. QED BY <1>1, <1>2, <1>3, <1>4, <1>5, <1>6 DEF Operator, Fault

LEMMA TypeInit == Init => TypeOK
<1>. SUFFICES ASSUME Init PROVE TypeOK
  OBVIOUS
<1>1. wd \in Tree /\ tip \in [Task -> Tree] /\ cut \in [Task -> Tree] /\ main \in Tree
  BY SeedType DEF Init, Tree, ExecState
<1>2. step \in [Task -> Step] /\ run \in Run
  BY DEF Init, AllIdle, Step, NoRun, Run
<1>3. spent \in BOOLEAN /\ past \in Past
  <2>1. 0 \in 0 .. MaxKills /\ 0 \in 0 .. MaxRaises
    BY RunnerAssumption
  <2>. QED BY <2>1 DEF Init, NoStarts, Past
<1>. QED BY <1>1, <1>2, <1>3, SeedType DEF Init, TypeOK, GitOK, ProcOK

LEMMA TypeNext == TypeOK /\ [Next]_vars => TypeOK'
<1>1. CASE Next
  BY <1>1, TypeOfExecuteTask, TypeOfLoop, TypeOfCommands, TypeOfRest DEF Next, Command
<1>2. CASE UNCHANGED vars
  BY <1>2 DEF vars, gitVars, procVars, TypeOK, GitOK, ProcOK
<1>. QED BY <1>1, <1>2

\* Every variable keeps its type, whatever the DAG, the options and the faults.
THEOREM TypeCorrect == Spec => []TypeOK
<1>. QED BY TypeInit, TypeNext, PTL DEF Spec

------------------------------------------------------------------------------
(* The retry budget                                                        *)

\* A switch or a merge brings no record that none of the versions had.
LEMMA StatusOfSwitch ==
    ASSUME NEW old, NEW new, NEW here
    PROVE  Switched(old, new, here).status \in {new.status, here.status}
BY DEF Switched, Carry

LEMMA StatusOfGit ==
    ASSUME BudgetInv, NEW t \in Task
    PROVE  /\ WithinBudget(OnMain.status)
           /\ WithinBudget(Merged(cut[t], main, tip[t]).status)
           /\ WithinBudget(Switched(main, Merged(cut[t], main, tip[t]), OnMain).status)
           /\ WithinBudget(SeedTree.status) /\ WithinBudget(NoRecords)
<1>1. OnMain.status \in {main.status, wd.status}
  BY StatusOfSwitch DEF OnMain
<1>2. Merged(cut[t], main, tip[t]).status \in {tip[t].status, main.status}
  BY StatusOfSwitch DEF Merged
<1>3. Switched(main, Merged(cut[t], main, tip[t]), OnMain).status
          \in {Merged(cut[t], main, tip[t]).status, OnMain.status}
  BY StatusOfSwitch
<1>4. WithinBudget(SeedTree.status) /\ WithinBudget(NoRecords)
  BY MaxAttemptsAssumption DEF WithinBudget, SeedTree, NoRecords, FreshRecord
<1>. QED BY <1>1, <1>2, <1>3, <1>4 DEF BudgetInv, RetryBudget

\* What the parts of a step do to the records that git keeps.
LEMMA BudgetOfBranches ==
    ASSUME BudgetInv, NEW t \in Task,
           \/ StartBranch(t) \/ AddWorktree(t) \/ CleanUp(t) \/ MergeBranch(t)
    PROVE  /\ WithinBudget(wd'.status) /\ WithinBudget(main'.status)
           /\ \A u \in Task : WithinBudget(tip'[u].status) /\ WithinBudget(cut'[u].status)
<1>. USE DEF BudgetInv, TypeOK, GitOK, RetryBudget
<1>1. WithinBudget(OnMain.status) /\ WithinBudget(SeedTree.status)
  BY StatusOfGit
<1>2. CASE StartBranch(t)
  BY <1>1, <1>2 DEF StartBranch
<1>3. CASE AddWorktree(t)
  BY <1>3 DEF AddWorktree
<1>4. CASE CleanUp(t)
  BY <1>1, <1>4 DEF CleanUp, DropBranch
<1>5. CASE MergeBranch(t)
  <2>1. /\ main' = Merged(cut[t], main, tip[t])
        /\ wd' = Switched(main, Merged(cut[t], main, tip[t]), OnMain)
        /\ DropBranch(t)
    BY <1>5 DEF MergeBranch
  <2>2. WithinBudget(wd'.status) /\ WithinBudget(main'.status)
    BY <2>1, StatusOfGit
  <2>3. \A u \in Task : WithinBudget(tip'[u].status) /\ WithinBudget(cut'[u].status)
    BY <1>1, <2>1 DEF DropBranch
  <2>. QED BY <2>2, <2>3
<1>. QED BY <1>2, <1>3, <1>4, <1>5

LEMMA BudgetOfStatus ==
    ASSUME BudgetInv, NEW t \in Task
    PROVE  /\ \A x \in {"DONE", "AWAITING_HITL"} : SetStatus(t, x) => WithinBudget(mem')
           /\ SoftReject(t) => WithinBudget(mem')
           /\ mem' = [mem EXCEPT ![t] = CountAttempt(@)] => WithinBudget(mem')
<1>. USE DEF BudgetInv, TypeOK, ProcOK, RetryBudget
<1>1. ASSUME NEW x \in {"DONE", "AWAITING_HITL"}, SetStatus(t, x) PROVE WithinBudget(mem')
  <2>1. mem'[t].status # "PENDING" /\ \A u \in Task \ {t} : mem'[u] = mem[u]
    BY <1>1 DEF SetStatus, Record
  <2>2. mem'[t].status = x
    BY <1>1 DEF SetStatus, Record
  <2>. QED BY <2>1, <2>2 DEF WithinBudget
<1>2. ASSUME SoftReject(t) PROVE WithinBudget(mem')
  <2>1. \A u \in Task \ {t} : mem'[u] = mem[u]
    BY <1>2 DEF SoftReject, SetStatus
  <2>2. CASE mem[t].attempts >= MaxAttempts
    BY <1>1, <1>2, <2>2 DEF SoftReject
  <2>3. CASE ~(mem[t].attempts >= MaxAttempts)
    <3>1. mem' = [mem EXCEPT ![t].status = "PENDING"]
      BY <1>2, <2>3 DEF SoftReject, SetStatus
    <3>2. mem'[t].attempts = mem[t].attempts /\ mem[t].attempts \in 0 .. MaxAttempts + 1 /\ mem'[t].status = "PENDING"
      BY <3>1 DEF Record
    <3>3. mem[t].attempts < MaxAttempts
      BY <2>3, <3>2, MaxAttemptsAssumption
    <3>. QED BY <2>1, <3>2, <3>3 DEF WithinBudget
  <2>. QED BY <2>2, <2>3
<1>3. ASSUME mem' = [mem EXCEPT ![t] = CountAttempt(@)] PROVE WithinBudget(mem')
  <2>1. CountAttempt(mem[t]).status = "IN_PROGRESS" /\ CountAttempt(mem[t]).attempts > 0
    BY CountAttemptIs
  <2>2. mem'[t].status = "IN_PROGRESS" /\ mem'[t].attempts > 0 /\ \A u \in Task \ {t} : mem'[u] = mem[u]
    BY <1>3, <2>1
  <2>. QED BY <2>2 DEF WithinBudget
<1>. QED BY <1>1, <1>2, <1>3

\* The parts of BudgetInv that the steps below preserve; types are TypeNext's.
BudgetParts ==
    /\ RetryBudget
    /\ WithinBudget(main.status)
    /\ \A t \in Task : WithinBudget(tip[t].status) /\ WithinBudget(cut[t].status)

LEMMA BudgetOfExecuteTask ==
    ASSUME BudgetInv, NEW t \in Task, ExecuteTask(t)
    PROVE  BudgetParts'
<1>. USE DEF BudgetInv, TypeOK, BudgetParts, RetryBudget
<1>1. CASE Begin(t)
  BY <1>1, BudgetOfBranches, BudgetOfStatus DEF Begin
<1>2. CASE BeginRefused(t)
  <2>1. WithinBudget(mem')
    BY <1>2, BudgetOfStatus, StatusOfGit DEF BeginRefused
  <2>2. WithinBudget(wd'.status)
    BY <1>2, StatusOfGit DEF BeginRefused
  <2>. QED BY <1>2, <2>1, <2>2 DEF BeginRefused
<1>3. CASE Work(t)
  <2>1. wd'.status = wd.status
    BY <1>3 DEF Work, GitOK, Tree
  <2>. QED BY <1>3, <2>1 DEF Work, gitVars
<1>4. CASE WorkerRejected(t) \/ Reject(t) \/ Escalate(t)
  BY <1>4, BudgetOfBranches, BudgetOfStatus DEF WorkerRejected, Reject, Escalate
<1>5. CASE Approve(t)
  BY <1>5 DEF Approve, gitVars
<1>6. CASE CommitInWorktree(t) \/ CommitInPrimary(t) \/ NothingToCommit(t)
  <2>1. WithinBudget(CommitTree(t).status)
    BY DEF CommitTree, GitOK, Tree
  <2>2. WithinBudget(mem') /\ WithinBudget(wd'.status)
    BY <1>6, <2>1, BudgetOfStatus DEF CommitInWorktree, CommitInPrimary, NothingToCommit
  <2>3. /\ tip' = [tip EXCEPT ![t] = CommitTree(t)] /\ cut' = cut /\ main' = main
    BY <1>6 DEF CommitInWorktree, CommitInPrimary, NothingToCommit, Committed
  <2>4. \A u \in Task : WithinBudget(tip'[u].status)
    BY <2>1, <2>3 DEF GitOK
  <2>. QED BY <2>2, <2>3, <2>4
<1>7. CASE CheckoutMain(t)
  BY <1>7, StatusOfGit DEF CheckoutMain
<1>8. CASE FinishMerge(t)
  BY <1>8, BudgetOfBranches, BudgetOfStatus DEF FinishMerge
<1>. QED BY <1>1, <1>2, <1>3, <1>4, <1>5, <1>6, <1>7, <1>8 DEF ExecuteTask

LEMMA BudgetOfRest ==
    ASSUME BudgetInv, Loop \/ Commands \/ Operator \/ Fault
    PROVE  BudgetParts'
<1>. USE DEF BudgetInv, TypeOK, BudgetParts, RetryBudget
<1>1. ASSUME wd'.status = wd.status, mem' = mem \/ mem' = wd.status \/ mem' = NoRecords,
             UNCHANGED <<main, tip, cut>>
      PROVE  BudgetParts'
  <2>1. WithinBudget(NoRecords)
    BY MaxAttemptsAssumption DEF WithinBudget, NoRecords, FreshRecord
  <2>. QED BY <1>1, <2>1
<1>2. ASSUME wd' = [wd EXCEPT !.status = mem], UNCHANGED <<mem, main, tip, cut>> PROVE BudgetParts'
  BY <1>2 DEF GitOK, Tree
<1>3. \A x : [wd EXCEPT !.state = x].status = wd.status
  BY DEF GitOK, Tree
<1>4. CASE EnterBatch \/ LastBatchDone \/ NextBatch
  BY <1>1, <1>4 DEF EnterBatch, LastBatchDone, NextBatch, gitVars
<1>5. CASE BudgetGate \/ Finish
  <2>1. /\ wd'.status = wd.status /\ mem' \in {mem, NoRecords}
        /\ UNCHANGED <<main, tip, cut>>
    BY <1>3, <1>5 DEF BudgetGate, Finish, gitVars
  <2>. QED BY <1>1, <2>1
<1>6. ASSUME NEW t \in Task, PickTask(t) \/ CollectUnmerged(t) \/ CollectRaised(t) PROVE BudgetParts'
  BY <1>1, <1>6 DEF PickTask, CollectUnmerged, CollectRaised, gitVars
<1>7. ASSUME NEW t \in Task, SaveSequential(t) \/ SaveThreads(t) PROVE BudgetParts'
  BY <1>2, <1>7 DEF SaveSequential, SaveThreads, gitVars
<1>8. ASSUME NEW t \in Task, CollectMerge(t) PROVE BudgetParts'
  BY <1>8, BudgetOfBranches DEF CollectMerge
<1>9. ASSUME NEW t \in Task, CollectConflict(t) PROVE BudgetParts'
  <2>1. WithinBudget(mem') /\ WithinBudget(wd'.status)
    BY <1>9, BudgetOfStatus, StatusOfGit DEF CollectConflict
  <2>. QED BY <1>9, <2>1 DEF CollectConflict
<1>10. CASE OpenSchemaGate \/ Advance \/ AbortMerge \/ RaiseCap \/ Kill
  BY <1>1, <1>3, <1>10 DEF OpenSchemaGate, Advance, AbortMerge, RaiseCap, Kill, gitVars, procVars
<1>11. ASSUME NEW t \in Task, ExecuteOverBudget(t) \/ Raise(t) PROVE BudgetParts'
  BY <1>1, <1>3, <1>11 DEF ExecuteOverBudget, Raise, gitVars, procVars
<1>12. ASSUME NEW r, Load(r) PROVE BudgetParts'
  BY <1>1, <1>3, <1>12 DEF Load, gitVars
<1>13. ASSUME NEW t \in Task, ResetRecord(t) PROVE BudgetParts'
  <2>1. wd'.status = [wd.status EXCEPT ![t] = FreshRecord]
    BY <1>13 DEF ResetRecord, GitOK, Tree
  <2>2. WithinBudget(wd'.status)
    BY <2>1, MaxAttemptsAssumption DEF WithinBudget, FreshRecord, GitOK, Tree
  <2>. QED BY <1>13, <2>2 DEF ResetRecord, gitVars, procVars
<1>. QED
  BY <1>4, <1>5, <1>6, <1>7, <1>8, <1>9, <1>10, <1>11, <1>12, <1>13
     DEF Loop, Commands, StartRunAll, StartExecute, Operator, Fault

LEMMA BudgetInit == Init => BudgetParts
<1>. SUFFICES ASSUME Init PROVE BudgetParts
  OBVIOUS
<1>1. WithinBudget(SeedTree.status) /\ WithinBudget(NoRecords)
  BY MaxAttemptsAssumption DEF WithinBudget, SeedTree, NoRecords, FreshRecord
<1>2. wd.status = SeedTree.status
  BY DEF Init, SeedTree
<1>. QED BY <1>1, <1>2 DEF Init, BudgetParts, RetryBudget

LEMMA BudgetNext == BudgetInv /\ [Next]_vars => BudgetInv'
<1>. SUFFICES ASSUME BudgetInv, [Next]_vars PROVE BudgetInv'
  OBVIOUS
<1>1. TypeOK'
  BY TypeNext DEF BudgetInv
<1>2. CASE Next
  BY <1>1, <1>2, BudgetOfExecuteTask, BudgetOfRest DEF Next, Command, BudgetInv, BudgetParts
<1>3. CASE UNCHANGED vars
  BY <1>1, <1>3 DEF vars, gitVars, procVars, BudgetInv, RetryBudget
<1>. QED BY <1>2, <1>3

LEMMA BudgetHolds == Spec => []BudgetInv
<1>1. Init => BudgetInv
  BY TypeInit, BudgetInit DEF BudgetInv, BudgetParts
<1>. QED BY <1>1, BudgetNext, PTL DEF Spec

------------------------------------------------------------------------------
(* Workers and branches                                                    *)

OnItsBranch(t) ==
    step[t] \in {"work", "review", "commit"} =>
        /\ t \in refs
        /\ IF run.threads
           THEN t \in pinned /\ head # t
           ELSE /\ head = t /\ t \notin pinned
                /\ \A u \in Task \ {t} : step[u] = "idle"

\* A step of execute_task leaves the other tasks in hand as they were.
LEMMA HandMoves ==
    ASSUME BranchInv, NEW t \in Task, step[t] # "idle", NEW x \in Step, Goto(t, x), run' = run
    PROVE  TasksInHand'
BY DEF BranchInv, TypeOK, ProcOK, TasksInHand, Goto

LEMMA OthersOnBranch ==
    ASSUME BranchInv, NEW t \in Task, step[t] # "idle", NEW x \in Step, Goto(t, x), run' = run,
           refs \ {t} \subseteq refs', pinned \ {t} \subseteq pinned',
           run.threads => head' \in {head, "main"}
    PROVE  \A u \in Task \ {t} : OnItsBranch(u)'
<1>. SUFFICES ASSUME NEW u \in Task \ {t}, step[u] \in {"work", "review", "commit"}
              PROVE  OnItsBranch(u)'
  BY DEF Goto, OnItsBranch, BranchInv, TypeOK, ProcOK
<1>1. run.threads
  BY DEF BranchInv, TasksInHand
<1>2. u \in refs /\ u \in pinned /\ head # u
  BY <1>1 DEF BranchInv, WorkerOnItsBranch
<1>3. u \in refs' /\ u \in pinned' /\ head' # u
  BY <1>1, <1>2, BranchAssumption
<1>. QED BY <1>1, <1>3 DEF OnItsBranch

\* A task that is not with its Worker next says nothing of branches.
LEMMA OffBranch ==
    ASSUME BranchInv, NEW t \in Task, step[t] # "idle", NEW x \in Step \ {"work", "review", "commit"},
           Goto(t, x), run' = run,
           refs \ {t} \subseteq refs', pinned \ {t} \subseteq pinned',
           run.threads => head' \in {head, "main"}
    PROVE  TasksInHand' /\ WorkerOnItsBranch'
<1>1. step'[t] = x
  BY DEF BranchInv, TypeOK, ProcOK, Goto
<1>2. OnItsBranch(t)'
  BY <1>1 DEF OnItsBranch
<1>3. \A u \in Task : OnItsBranch(u)'
  BY <1>2, OthersOnBranch
<1>. QED BY <1>3, HandMoves DEF WorkerOnItsBranch, OnItsBranch

\* The Worker's own steps stay on the branch.
LEMMA StayOnBranch ==
    ASSUME BranchInv, NEW t \in Task, step[t] \in {"work", "review", "commit"}, NEW x \in Step,
           Goto(t, x), UNCHANGED <<run, refs, pinned, head>>
    PROVE  TasksInHand' /\ WorkerOnItsBranch'
<1>1. OnItsBranch(t)'
  BY DEF BranchInv, TypeOK, ProcOK, Goto, WorkerOnItsBranch, OnItsBranch
<1>2. \A u \in Task : OnItsBranch(u)'
  BY <1>1, OthersOnBranch
<1>. QED BY <1>2, HandMoves DEF WorkerOnItsBranch, OnItsBranch

LEMMA BranchOfExecuteTask ==
    ASSUME BranchInv, NEW t \in Task, ExecuteTask(t)
    PROVE  TasksInHand' /\ WorkerOnItsBranch'
<1>1. CASE Begin(t)
  <2>1. step[t] = "begin" /\ Goto(t, "work") /\ run' = run /\ "work" \in Step
    BY <1>1 DEF Begin, Step
  <2>2. step'[t] = "work" /\ \A u \in Task \ {t} : step'[u] = step[u]
    BY <2>1 DEF Goto, BranchInv, TypeOK, ProcOK
  <2>3. CASE run.threads
    <3>1. AddWorktree(t) /\ head # t
      BY <1>1, <2>3 DEF Begin, CanAddWorktree
    <3>2. OnItsBranch(t)'
      BY <2>1, <2>3, <3>1 DEF OnItsBranch, AddWorktree
    <3>3. \A u \in Task \ {t} : OnItsBranch(u)'
      BY <2>1, <3>1, OthersOnBranch DEF AddWorktree
    <3>. QED BY <2>1, <3>2, <3>3, HandMoves DEF WorkerOnItsBranch, OnItsBranch
  <2>4. CASE ~run.threads
    <3>1. StartBranch(t) /\ t \notin pinned
      BY <1>1, <2>4 DEF Begin, CanStartBranch
    <3>2. \A u \in Task \ {t} : step[u] = "idle"
      BY <2>1, <2>4 DEF BranchInv, TasksInHand
    <3>3. OnItsBranch(t)'
      BY <2>1, <2>2, <2>4, <3>1, <3>2 DEF OnItsBranch, StartBranch
    <3>4. \A u \in Task \ {t} : OnItsBranch(u)'
      BY <2>2, <3>2 DEF OnItsBranch
    <3>. QED BY <2>1, <3>3, <3>4, HandMoves DEF WorkerOnItsBranch, OnItsBranch
  <2>. QED BY <2>3, <2>4
<1>2. CASE BeginRefused(t)
  <2>1. CASE run.threads
    <3>1. Goto(t, "raised") /\ run' = run /\ step[t] = "begin" /\ UNCHANGED <<refs, pinned, head>>
      BY <1>2, <2>1 DEF BeginRefused, Escape
    <3>. QED BY <3>1, OffBranch DEF Step
  <2>2. CASE ~run.threads
    <3>1. step' = AllIdle /\ run' = NoRun
      BY <1>2, <2>2 DEF BeginRefused, Escape
    <3>. QED BY <3>1 DEF TasksInHand, WorkerOnItsBranch, AllIdle, NoRun
  <2>. QED BY <2>1, <2>2
<1>3. CASE Work(t)
  BY <1>3, StayOnBranch DEF Work, gitVars, Step
<1>4. CASE Approve(t)
  BY <1>4, StayOnBranch DEF Approve, gitVars, Step
<1>5. CASE WorkerRejected(t) \/ Reject(t) \/ Escalate(t)
  <2>1. CleanUp(t) /\ Goto(t, "back") /\ run' = run /\ step[t] \in {"work", "review"}
    BY <1>5 DEF WorkerRejected, Reject, Escalate
  <2>2. refs \ {t} \subseteq refs' /\ pinned \ {t} \subseteq pinned' /\ head' \in {head, "main"}
    BY <2>1 DEF CleanUp, DropBranch
  <2>. QED BY <2>1, <2>2, OffBranch DEF Step
<1>6. CASE CommitInWorktree(t) \/ CommitInPrimary(t) \/ NothingToCommit(t)
  <2>1. /\ step[t] = "commit" /\ UNCHANGED <<run, refs, pinned, head>>
        /\ Goto(t, "back") \/ Goto(t, "merge")
    BY <1>6 DEF CommitInWorktree, CommitInPrimary, NothingToCommit, Committed
  <2>. QED BY <2>1, StayOnBranch DEF Step
<1>7. CASE CheckoutMain(t)
  BY <1>7, OffBranch DEF CheckoutMain, Step
<1>8. CASE FinishMerge(t)
  <2>1. MergeBranch(t) /\ Goto(t, "back") /\ run' = run /\ step[t] = "onmain"
    BY <1>8 DEF FinishMerge
  <2>2. refs \ {t} \subseteq refs' /\ pinned \ {t} \subseteq pinned' /\ head' \in {head, "main"}
    BY <2>1 DEF MergeBranch, DropBranch
  <2>. QED BY <2>1, <2>2, OffBranch DEF Step
<1>. QED BY <1>1, <1>2, <1>3, <1>4, <1>5, <1>6, <1>7, <1>8 DEF ExecuteTask

\* A task that is over leaves the hand.
LEMMA HandEmpties ==
    ASSUME BranchInv, NEW t \in Task, step[t] # "idle", NEW ok \in BOOLEAN,
           Goto(t, "idle"), AfterTask(t, ok), UNCHANGED <<refs, pinned, head>>
    PROVE  TasksInHand' /\ WorkerOnItsBranch'
<1>. USE DEF BranchInv, TypeOK, ProcOK
<1>. DEFINE rest == run.todo \ {t}
            over == rest = {} \/ (~ok /\ run.stopOnFail /\ ~run.threads)
<1>1. /\ run'.threads = run.threads
      /\ run'.todo = IF over THEN {} ELSE rest
      /\ run'.at = IF ~over THEN "tasks" ELSE IF run.kind = "execute" THEN "finish" ELSE "gate"
  BY DEF AfterTask, Run
<1>2. step'[t] = "idle" /\ \A u \in Task \ {t} : step'[u] = step[u]
  BY DEF Goto
<1>3. ~run.threads => \A u \in Task : step'[u] = "idle"
  BY <1>2 DEF TasksInHand
<1>4. TasksInHand'
  <2>1. CASE run.threads
    <3>1. \A u \in Task : step'[u] # "idle" => u \in rest
      BY <1>2 DEF TasksInHand
    <3>. QED BY <1>1, <2>1, <3>1 DEF TasksInHand
  <2>2. CASE ~run.threads
    BY <1>1, <1>3, <2>2 DEF TasksInHand
  <2>. QED BY <2>1, <2>2
<1>5. \A u \in Task : OnItsBranch(u)'
  BY <1>1, <1>2, <1>3 DEF OnItsBranch, WorkerOnItsBranch
<1>. QED BY <1>4, <1>5 DEF WorkerOnItsBranch, OnItsBranch

LEMMA NoneInHand ==
    ASSUME \A t \in Task : step'[t] = "idle", run'.at # "tasks" => run'.todo = {}
    PROVE  TasksInHand' /\ WorkerOnItsBranch'
BY DEF TasksInHand, WorkerOnItsBranch

LEMMA BranchOfLoop ==
    ASSUME BranchInv, Loop
    PROVE  TasksInHand' /\ WorkerOnItsBranch'
<1>. USE DEF BranchInv, TypeOK, ProcOK
<1>1. run.at # "tasks" => run.todo = {} /\ \A t \in Task : step[t] = "idle"
  BY DEF TasksInHand
<1>2. CASE EnterBatch
  <2>. DEFINE pending == {t \in Kept : Open(mem, t)}
              blocked == run.blocked \/ \E t \in Kept : mem[t].status = "AWAITING_HITL"
              threads == run.parallel /\ Cardinality(pending) > 1
  <2>1. run.at = "enter" /\ UNCHANGED <<refs, pinned, head>>
    BY <1>2 DEF EnterBatch, gitVars
  <2>2. \/ step' = step /\ run' = [run EXCEPT !.blocked = TRUE, !.at = "finish"]
        \/ step' = step /\ run' = [run EXCEPT !.blocked = blocked, !.batch = @ + 1]
        \/ /\ run' = [run EXCEPT !.blocked = blocked, !.at = "tasks",
                                 !.todo = pending, !.threads = threads]
           /\ step' = IF threads
                      THEN [t \in Task |-> IF t \in pending THEN "begin" ELSE "idle"]
                      ELSE step
    BY <1>2 DEF EnterBatch
  <2>. HIDE DEF pending, blocked, threads
  <2>3. \/ step' = step /\ run'.todo = run.todo
        \/ /\ run'.at = "tasks" /\ run'.todo = pending /\ run'.threads = threads
           /\ step' = IF threads
                      THEN [t \in Task |-> IF t \in pending THEN "begin" ELSE "idle"]
                      ELSE step
    <3>. DEFINE next == run.batch + 1
    <3>. HIDE DEF next
    <3>1. \/ step' = step /\ run' = [run EXCEPT !.blocked = TRUE, !.at = "finish"]
          \/ step' = step /\ run' = [run EXCEPT !.blocked = blocked, !.batch = next]
          \/ /\ run' = [run EXCEPT !.blocked = blocked, !.at = "tasks",
                                   !.todo = pending, !.threads = threads]
             /\ step' = IF threads
                        THEN [t \in Task |-> IF t \in pending THEN "begin" ELSE "idle"]
                        ELSE step
      BY <2>2 DEF next
    <3>. QED BY <3>1 DEF Run
  <2>4. CASE step' = step /\ run'.todo = run.todo
    BY <1>1, <2>1, <2>4, NoneInHand
  <2>5. CASE /\ run'.at = "tasks" /\ run'.todo = pending /\ run'.threads = threads
             /\ step' = IF threads
                        THEN [t \in Task |-> IF t \in pending THEN "begin" ELSE "idle"]
                        ELSE step
    <3>1. \A t \in Task : step'[t] \in {"idle", "begin"}
      BY <1>1, <2>1, <2>5
    <3>2. \A t \in Task : step'[t] # "idle" => threads /\ t \in pending
      BY <1>1, <2>1, <2>5
    <3>. QED BY <2>5, <3>1, <3>2 DEF TasksInHand, WorkerOnItsBranch
  <2>. QED BY <2>3, <2>4, <2>5
<1>3. CASE LastBatchDone \/ BudgetGate \/ NextBatch \/ Finish
  <2>1. run.at # "tasks" /\ step' = step
    BY <1>3 DEF LastBatchDone, BudgetGate, NextBatch, Finish
  <2>2. run'.todo = {}
    <3>1. ASSUME NextBatch PROVE run'.todo = run.todo
      <4>. DEFINE next == run.batch + 1
      <4>1. \/ run' = [run EXCEPT !.at = "finish"]
            \/ run' = [run EXCEPT !.at = "enter", !.batch = next, !.threads = FALSE]
        BY <3>1 DEF NextBatch
      <4>. HIDE DEF next
      <4>. QED BY <4>1 DEF Run
    <3>2. ASSUME LastBatchDone \/ BudgetGate \/ Finish PROVE run'.todo = run.todo \/ run'.todo = {}
      <4>1. ASSUME LastBatchDone PROVE run'.todo = run.todo
        BY <4>1 DEF LastBatchDone, Run
      <4>2. ASSUME BudgetGate PROVE run'.todo = run.todo
        BY <4>2 DEF BudgetGate, Run
      <4>3. ASSUME Finish PROVE run'.todo = {}
        BY <4>3 DEF Finish, NoRun
      <4>. QED BY <3>2, <4>1, <4>2, <4>3
    <3>. QED BY <1>1, <1>3, <2>1, <3>1, <3>2
  <2>. QED BY <1>1, <2>1, <2>2, NoneInHand
<1>4. ASSUME NEW t \in Task, PickTask(t) PROVE TasksInHand' /\ WorkerOnItsBranch'
  <2>1. /\ ~run.threads /\ run.at = "tasks" /\ t \in run.todo /\ run' = run
        /\ \A u \in Task : step[u] = "idle"
        /\ step' = [step EXCEPT ![t] = "begin"]
    BY <1>4 DEF PickTask, NoActive, AllIdle, Goto
  <2>2. step'[t] = "begin" /\ \A u \in Task \ {t} : step'[u] = "idle"
    BY <2>1
  <2>. QED BY <2>1, <2>2 DEF TasksInHand, WorkerOnItsBranch
<1>5. ASSUME NEW t \in Task, SaveSequential(t) PROVE TasksInHand' /\ WorkerOnItsBranch'
  <2>1. step[t] = "back" /\ UNCHANGED <<refs, pinned, head>>
    BY <1>5 DEF SaveSequential, gitVars
  <2>2. CASE mem[t].status = "PENDING"
    BY <1>5, <2>1, <2>2, OffBranch DEF SaveSequential, Step
  <2>3. CASE mem[t].status # "PENDING"
    BY <1>5, <2>1, <2>3, HandEmpties DEF SaveSequential
  <2>. QED BY <2>2, <2>3
<1>6. ASSUME NEW t \in Task, CollectUnmerged(t) PROVE TasksInHand' /\ WorkerOnItsBranch'
  <2>1. /\ step[t] = "back" /\ UNCHANGED <<run, refs, pinned, head>>
        /\ Goto(t, "approved") \/ Goto(t, "declined")
    BY <1>6 DEF CollectUnmerged, gitVars
  <2>. QED BY <2>1, OffBranch DEF Step
<1>7. ASSUME NEW t \in Task, CollectMerge(t) PROVE TasksInHand' /\ WorkerOnItsBranch'
  <2>1. MergeBranch(t) /\ Goto(t, "approved") /\ run' = run /\ step[t] = "back"
    BY <1>7 DEF CollectMerge
  <2>2. refs \ {t} \subseteq refs' /\ pinned \ {t} \subseteq pinned' /\ head' \in {head, "main"}
    BY <2>1 DEF MergeBranch, DropBranch
  <2>. QED BY <2>1, <2>2, OffBranch DEF Step
<1>8. ASSUME NEW t \in Task, CollectConflict(t) PROVE TasksInHand' /\ WorkerOnItsBranch'
  <2>1. /\ Goto(t, "approved") /\ UNCHANGED <<run, refs, pinned>> /\ step[t] = "back"
        /\ head' \in {head, "main"}
    BY <1>8 DEF CollectConflict
  <2>. QED BY <2>1, OffBranch DEF Step
<1>9. ASSUME NEW t \in Task, SaveThreads(t) PROVE TasksInHand' /\ WorkerOnItsBranch'
  BY <1>9, HandEmpties DEF SaveThreads, gitVars
<1>10. ASSUME NEW t \in Task, CollectRaised(t) PROVE TasksInHand' /\ WorkerOnItsBranch'
  BY <1>10, HandEmpties DEF CollectRaised, gitVars
<1>. QED BY <1>2, <1>3, <1>4, <1>5, <1>6, <1>7, <1>8, <1>9, <1>10 DEF Loop

LEMMA BranchOfRest ==
    ASSUME BranchInv, Commands \/ Operator \/ Fault
    PROVE  TasksInHand' /\ WorkerOnItsBranch'
<1>. USE DEF BranchInv, TypeOK, ProcOK
<1>1. CASE OpenSchemaGate \/ Operator \/ \E t \in Task : ExecuteOverBudget(t)
  <2>1. UNCHANGED <<refs, pinned, head, run, step>>
    BY <1>1 DEF OpenSchemaGate, ExecuteOverBudget, Operator, Advance, AbortMerge, RaiseCap,
                ResetRecord, gitVars, procVars
  <2>. QED BY <2>1 DEF TasksInHand, WorkerOnItsBranch
<1>2. ASSUME NEW m \in Modes, StartRunAll(m) PROVE TasksInHand' /\ WorkerOnItsBranch'
  <2>1. run'.todo = {} /\ step' = step /\ run.at = "off"
    BY <1>2 DEF StartRunAll, Load, Loadable, Running, NoRun
  <2>2. \A t \in Task : step[t] = "idle"
    BY <2>1 DEF TasksInHand
  <2>. QED BY <2>1, <2>2, NoneInHand
<1>3. ASSUME NEW t \in Task, NEW signed \in BOOLEAN, StartExecute(t, signed)
      PROVE  TasksInHand' /\ WorkerOnItsBranch'
  <2>1. /\ run'.todo = {t} /\ run'.at = "tasks" /\ ~run'.threads /\ run.at = "off"
        /\ step' = [step EXCEPT ![t] = "begin"]
    BY <1>3 DEF StartExecute, Load, Loadable, Running, NoRun, Goto
  <2>2. step'[t] = "begin" /\ \A u \in Task \ {t} : step'[u] = "idle"
    BY <2>1 DEF TasksInHand
  <2>. QED BY <2>1, <2>2 DEF TasksInHand, WorkerOnItsBranch
<1>4. CASE Kill
  BY <1>4, NoneInHand DEF Kill, AllIdle, NoRun
<1>5. ASSUME NEW t \in Task, Raise(t) PROVE TasksInHand' /\ WorkerOnItsBranch'
  BY <1>5, OffBranch DEF Raise, gitVars, Step
<1>. QED BY <1>1, <1>2, <1>3, <1>4, <1>5 DEF Commands, Fault

LEMMA BranchInit == Init => BranchInv
<1>1. Init => TasksInHand /\ WorkerOnItsBranch
  BY DEF Init, TasksInHand, WorkerOnItsBranch, AllIdle, NoRun
<1>. QED BY <1>1, TypeInit DEF BranchInv

LEMMA BranchNext == BranchInv /\ [Next]_vars => BranchInv'
<1>. SUFFICES ASSUME BranchInv, [Next]_vars PROVE BranchInv'
  OBVIOUS
<1>1. TypeOK'
  BY TypeNext DEF BranchInv
<1>2. CASE Next
  BY <1>1, <1>2, BranchOfExecuteTask, BranchOfLoop, BranchOfRest DEF Next, Command, BranchInv
<1>3. CASE UNCHANGED vars
  BY <1>1, <1>3 DEF vars, gitVars, procVars, BranchInv, TasksInHand, WorkerOnItsBranch
<1>. QED BY <1>2, <1>3

\* A Worker always writes on the branch of its own task, with and without worktrees,
\* whatever was left behind by refused commands, exceptions, conflicts and kills.
THEOREM WorkersKeepApart == Spec => []WorkerOnItsBranch
<1>1. BranchInv => WorkerOnItsBranch
  BY DEF BranchInv
<1>. QED BY <1>1, BranchInit, BranchNext, PTL DEF Spec

------------------------------------------------------------------------------
(* The starts of a task                                                    *)

\* Where nothing has been started since the last interruption
LEMMA CountsNone ==
    ASSUME NEW records \in [Task -> Record], WithinBudget(records), NEW t \in Task
    PROVE  Counts(records[t], 0)
<1>1. records[t].attempts \in Nat
  BY DEF Record
<1>. QED BY <1>1, MaxAttemptsAssumption DEF Counts, WithinBudget

LEMMA CountsNext ==
    ASSUME NEW r \in Record, NEW n \in Nat, Counts(r, n),
           r.status \in {"PENDING", "IN_PROGRESS"}, r.status = "PENDING" => r.attempts < MaxAttempts
    PROVE  /\ n + 1 <= CountAttempt(r).attempts /\ n + 1 <= MaxAttempts
           /\ Counts(CountAttempt(r), n)
<1>1. r.attempts \in Nat /\ CountAttempt(r).attempts \in Nat
  BY CountAttemptType DEF Record
<1>2. CASE r.status = "PENDING"
  BY <1>1, <1>2, CountAttemptIs, MaxAttemptsAssumption DEF Counts
<1>3. CASE r.status = "IN_PROGRESS"
  BY <1>1, <1>3, CountAttemptIs, MaxAttemptsAssumption DEF Counts
<1>. QED BY <1>2, <1>3

\* Every command that is cut short forgets what was started.
LEMMA StartsForgotten ==
    ASSUME BudgetInv', run' = NoRun, step' = AllIdle, past'.starts = NoStarts
    PROVE  StartsInv'
<1>1. \A t \in Task : past'.starts[t] = 0 /\ step'[t] = "idle"
  BY DEF NoStarts, AllIdle
<1>2. wd'.status \in [Task -> Record] /\ WithinBudget(wd'.status)
  BY DEF BudgetInv, RetryBudget, TypeOK, GitOK, Tree
<1>3. \A t \in Task : Counts(wd'.status[t], past'.starts[t])
  BY <1>1, <1>2, CountsNone
<1>. QED BY <1>1, <1>3 DEF StartsInv, NoRun, Running

\* The task in hand goes on; at its end the record no longer says IN_PROGRESS.
LEMMA StartsGoOn ==
    ASSUME BudgetInv, BranchInv, StartsInv, NEW t \in Task, Started(t),
           NEW x \in {"review", "commit", "merge", "onmain", "back"}, Goto(t, x),
           UNCHANGED <<past, run>>, run.threads => wd'.status = wd.status /\ x \notin {"merge", "onmain"},
           \/ mem' = mem /\ x # "back"
           \/ x = "back" /\ \E s \in TaskStatus \ {"IN_PROGRESS"} : SetStatus(t, s)
    PROVE  StartsInv'
<1>. USE DEF BudgetInv, TypeOK, ProcOK
<1>1. step'[t] = x /\ \A u \in Task \ {t} : step'[u] = step[u] /\ mem'[u] = mem[u]
  BY DEF Goto, SetStatus
<1>2. Running => past.starts[t] <= mem[t].attempts /\ past.starts[t] <= MaxAttempts
  BY DEF StartsInv
<1>3. Running => IF x = "back" THEN Counts(mem'[t], past.starts[t])
                 ELSE past.starts[t] <= mem'[t].attempts /\ past.starts[t] <= MaxAttempts
  <2>1. CASE mem' = mem /\ x # "back"
    BY <1>2, <2>1
  <2>2. ASSUME NEW s \in TaskStatus \ {"IN_PROGRESS"}, SetStatus(t, s), x = "back"
        PROVE  Running => Counts(mem'[t], past.starts[t])
    <3>1. mem'[t].status = s /\ mem'[t].attempts = mem[t].attempts
      BY <2>2 DEF SetStatus, Record
    <3>. QED BY <1>2, <2>2, <3>1 DEF Counts
  <2>. QED BY <2>1, <2>2
<1>4. /\ \A u \in Task : step'[u] \in {"merge", "onmain"} => ~run'.threads
     /\ \A u \in Task : step'[u] \in {"approved", "declined", "raised"} => run'.threads
  BY <1>1 DEF StartsInv
<1>5. \A u \in run'.todo : step'[u] \in {"idle", "begin"} => Open(mem, u)'
  BY <1>1 DEF StartsInv, Open, Run
<1>6. Running' => \A u \in Task : IF Started(u)'
                                  THEN past'.starts[u] <= mem'[u].attempts /\ past'.starts[u] <= MaxAttempts
                                  ELSE Counts(mem'[u], past'.starts[u])
  BY <1>1, <1>3 DEF StartsInv, Started, Running
<1>7. FileCurrent' => run.threads /\ FileCurrent /\ wd'.status = wd.status
  <2>1. CASE run.threads
    <3>1. Collecting => Collecting'
      BY <1>1 DEF Collecting, Started
    <3>. QED BY <2>1, <3>1 DEF FileCurrent
  <2>2. CASE ~run.threads
    BY <1>1, <2>2 DEF FileCurrent
  <2>. QED BY <2>1, <2>2
<1>8. FileCurrent' => \A u \in Task : Waiting(u)' => Counts(wd'.status[u], past'.starts[u])
  <2>1. \A u \in Task : Waiting(u)' => u # t /\ Waiting(u)
    BY <1>1 DEF Waiting
  <2>. QED BY <1>7, <2>1 DEF StartsInv
<1>. QED BY <1>4, <1>5, <1>6, <1>8 DEF StartsInv

LEMMA StartsOfExecuteTask ==
    ASSUME BudgetInv, BudgetInv', BranchInv, StartsInv, NEW t \in Task, ExecuteTask(t)
    PROVE  StartsInv'
<1>. USE DEF BudgetInv, TypeOK, ProcOK
<1>1. CASE Begin(t) \/ (BeginRefused(t) /\ run.threads)
  <2>. DEFINE more == IF Begin(t) THEN OneMore(past.starts[t]) ELSE past.starts[t]
              x == IF Begin(t) THEN "work" ELSE "raised"
  <2>1. /\ step[t] = "begin" /\ step' = [step EXCEPT ![t] = x] /\ run' = run
        /\ mem' = [mem EXCEPT ![t] = CountAttempt(mem[t])]
        /\ BeginRefused(t) => run.threads
    BY <1>1 DEF Begin, BeginRefused, Escape, Goto
  <2>2. run.threads => wd'.status = wd.status
    BY <1>1, <2>1 DEF Begin, BeginRefused, AddWorktree
  <2>3. t \in run.todo /\ Running /\ Open(mem, t)
    BY <2>1 DEF BranchInv, TasksInHand, StartsInv, Running
  <2>4. /\ past'.starts[t] = more /\ \A u \in Task \ {t} : past'.starts[u] = past.starts[u]
        /\ past.starts[t] \in Nat
    BY <1>1, <2>1 DEF Begin, BeginRefused, Past
  <2>5. /\ mem[t] \in Record /\ mem[t].status \in {"PENDING", "IN_PROGRESS"}
        /\ mem[t].status = "PENDING" => mem[t].attempts < MaxAttempts
    BY <2>3 DEF RetryBudget, WithinBudget, Open, Record, TaskStatus
  <2>6. Counts(mem[t], past.starts[t])
    BY <2>1, <2>3 DEF StartsInv, Started
  <2>7. /\ past.starts[t] + 1 <= mem'[t].attempts /\ past.starts[t] + 1 <= MaxAttempts
        /\ Counts(mem'[t], past.starts[t])
    BY <2>1, <2>4, <2>5, <2>6, CountsNext
  <2>8. /\ step'[t] = x /\ x \in {"work", "raised"} /\ (x = "work" => more = past.starts[t] + 1)
        /\ x = "raised" => more = past.starts[t] /\ run.threads
    BY <1>1, <2>1, <2>4, <2>7, MaxAttemptsAssumption DEF OneMore
  <2>9. \A u \in Task \ {t} : step'[u] = step[u] /\ mem'[u] = mem[u]
    BY <2>1
  <2>. HIDE DEF more, x
  <2>10. /\ \A u \in Task : step'[u] \in {"merge", "onmain"} => ~run'.threads
        /\ \A u \in Task : step'[u] \in {"approved", "declined", "raised"} => run'.threads
    BY <2>1, <2>8, <2>9 DEF StartsInv
  <2>11. \A u \in run'.todo : step'[u] \in {"idle", "begin"} => Open(mem, u)'
    BY <2>1, <2>8, <2>9 DEF StartsInv, Open, Run
  <2>12. Running' => \A u \in Task : IF Started(u)'
                                     THEN past'.starts[u] <= mem'[u].attempts /\ past'.starts[u] <= MaxAttempts
                                     ELSE Counts(mem'[u], past'.starts[u])
    BY <2>3, <2>4, <2>7, <2>8, <2>9 DEF StartsInv, Started
  <2>13. FileCurrent' => run.threads /\ FileCurrent
    <3>1. CASE run.threads
      <4>1. Collecting => Collecting'
        BY <2>1, <2>9 DEF Collecting
      <4>. QED BY <2>1, <3>1, <4>1 DEF FileCurrent
    <3>2. CASE ~run.threads
      BY <2>1, <2>8, <3>2 DEF FileCurrent
    <3>. QED BY <3>1, <3>2
  <2>14. FileCurrent' => \A u \in Task : Waiting(u)' => Counts(wd'.status[u], past'.starts[u])
    <3>1. \A u \in Task \ {t} : Waiting(u)' => Waiting(u)
      BY <2>9 DEF Waiting
    <3>2. Waiting(t) /\ (Waiting(t)' => past'.starts[t] = past.starts[t])
      BY <2>1, <2>4, <2>8 DEF Waiting
    <3>. QED BY <2>2, <2>4, <2>13, <3>1, <3>2 DEF StartsInv
  <2>. QED BY <2>10, <2>11, <2>12, <2>14 DEF StartsInv
<1>2. CASE BeginRefused(t) /\ ~run.threads
  <2>1. run' = NoRun /\ step' = AllIdle /\ past'.starts = NoStarts
    BY <1>2 DEF BeginRefused, Escape, Past
  <2>. QED BY <2>1, StartsForgotten
<1>3. CASE Work(t)
  <2>1. wd'.status = wd.status
    BY <1>3 DEF Work, GitOK, Tree
  <2>. QED BY <1>3, <2>1, StartsGoOn DEF Work, Started
<1>4. CASE WorkerRejected(t) \/ Reject(t) \/ Escalate(t)
  <2>1. /\ step[t] \in {"work", "review"} /\ Goto(t, "back") /\ UNCHANGED <<past, run>>
        /\ run.threads => wd' = wd
    BY <1>4 DEF WorkerRejected, Reject, Escalate, CleanUp
  <2>2. \E s \in TaskStatus \ {"IN_PROGRESS"} : SetStatus(t, s)
    BY <1>4 DEF WorkerRejected, Reject, Escalate, SoftReject, TaskStatus
  <2>. QED BY <2>1, <2>2, StartsGoOn DEF Started
<1>5. CASE Approve(t)
  BY <1>5, StartsGoOn DEF Approve, Started
<1>6. CASE CommitInWorktree(t) \/ CommitInPrimary(t) \/ NothingToCommit(t)
  <2>1. /\ step[t] = "commit" /\ UNCHANGED <<past, run>> /\ (run.threads => wd' = wd)
        /\ \/ Goto(t, "back") /\ SetStatus(t, "DONE")
           \/ Goto(t, "merge") /\ mem' = mem /\ ~run.threads
    BY <1>6 DEF CommitInWorktree, CommitInPrimary, NothingToCommit, Committed
  <2>. QED BY <2>1, StartsGoOn DEF Started, TaskStatus
<1>7. CASE CheckoutMain(t)
  <2>1. ~run.threads
    BY <1>7 DEF CheckoutMain, StartsInv
  <2>. QED BY <1>7, <2>1, StartsGoOn DEF CheckoutMain, Started
<1>8. CASE FinishMerge(t)
  <2>1. ~run.threads
    BY <1>8 DEF FinishMerge, StartsInv
  <2>. QED BY <1>8, <2>1, StartsGoOn DEF FinishMerge, Started, TaskStatus
<1>. QED BY <1>1, <1>2, <1>3, <1>4, <1>5, <1>6, <1>7, <1>8 DEF ExecuteTask

\* A batch begins or ends, a command starts, or the operator does something.
LEMMA StartsAtRest ==
    ASSUME BudgetInv, StartsInv, \A u \in Task : step[u] = "idle",
           \A u \in Task : step'[u] \in {"idle", "begin"}, past' = past, wd'.status = wd.status,
           Running' => mem' = wd.status \/ (Running /\ mem' = mem),
           \A u \in run'.todo : Open(mem', u)
    PROVE  StartsInv'
<1>1. FileCurrent
  BY DEF FileCurrent, Collecting
<1>2. \A u \in Task : Counts(wd.status[u], past.starts[u])
  BY <1>1 DEF StartsInv, Waiting
<1>3. Running => \A u \in Task : Counts(mem[u], past.starts[u])
  BY DEF StartsInv, Started
<1>4. Running' => \A u \in Task : Counts(mem'[u], past'.starts[u])
  BY <1>2, <1>3
<1>. QED BY <1>2, <1>4 DEF StartsInv, Started

\* The task in hand is over, and the loop goes on without it.
LEMMA AfterTaskIs ==
    ASSUME run \in Run, NEW t \in Task, NEW ok \in BOOLEAN, AfterTask(t, ok)
    PROVE  run'.threads = run.threads /\ run'.todo \subseteq run.todo \ {t}
<1>. DEFINE rest == run.todo \ {t}
            over == rest = {} \/ (~ok /\ run.stopOnFail /\ ~run.threads)
<1>1. run'.threads = run.threads /\ run'.todo = IF over THEN {} ELSE rest
  BY DEF AfterTask, Run
<1>. QED BY <1>1

\* A finished task is collected: until the save the file may be that of an older merge.
LEMMA StartsCollected ==
    ASSUME BudgetInv, BranchInv, StartsInv, NEW t \in Task, step[t] = "back", run.threads,
           NEW x \in {"approved", "declined"}, Goto(t, x), UNCHANGED <<past, run>>,
           mem' = mem \/ SetStatus(t, "AWAITING_HITL")
    PROVE  StartsInv'
<1>. USE DEF BudgetInv, TypeOK, ProcOK
<1>1. step'[t] = x /\ \A u \in Task \ {t} : step'[u] = step[u] /\ mem'[u] = mem[u]
  BY DEF Goto, SetStatus
<1>2. Running /\ Counts(mem[t], past.starts[t])
  BY DEF StartsInv, Started, BranchInv, TasksInHand, Running
<1>3. Counts(mem'[t], past.starts[t])
  <2>1. ASSUME SetStatus(t, "AWAITING_HITL") PROVE Counts(mem'[t], past.starts[t])
    <3>1. mem'[t].status = "AWAITING_HITL" /\ mem'[t].attempts = mem[t].attempts
      BY <2>1 DEF SetStatus, Record
    <3>. QED BY <1>2, <3>1 DEF Counts
  <2>. QED BY <1>2, <2>1
<1>4. ~FileCurrent'
  BY <1>1 DEF FileCurrent, Collecting
<1>5. \A u \in run'.todo : step'[u] \in {"idle", "begin"} => Open(mem, u)'
  BY <1>1 DEF StartsInv, Open, Run
<1>6. \A u \in Task : IF Started(u)'
                      THEN past'.starts[u] <= mem'[u].attempts /\ past'.starts[u] <= MaxAttempts
                      ELSE Counts(mem'[u], past'.starts[u])
  BY <1>1, <1>2, <1>3 DEF StartsInv, Started
<1>. QED BY <1>1, <1>4, <1>5, <1>6 DEF StartsInv

\* The save, and the future that raised
LEMMA StartsSaved ==
    ASSUME BudgetInv, BranchInv, StartsInv, NEW t \in Task,
           SaveSequential(t) \/ SaveThreads(t) \/ CollectRaised(t)
    PROVE  StartsInv'
<1>. USE DEF BudgetInv, TypeOK, ProcOK
<1>1. step[t] \in {"back", "approved", "declined", "raised"} /\ UNCHANGED <<past, mem>>
  BY DEF SaveSequential, SaveThreads, CollectRaised
<1>2. \/ wd'.status = mem
      \/ step[t] = "raised" /\ run.threads /\ ~Collecting /\ wd' = wd
  BY DEF SaveSequential, SaveThreads, CollectRaised, GitOK, Tree, StartsInv
<1>3. /\ step'[t] \in {"idle", "begin"} /\ \A u \in Task \ {t} : step'[u] = step[u]
      /\ run'.threads = run.threads
      /\ run'.todo \subseteq run.todo /\ (t \in run'.todo => Open(mem, t))
  <2>1. CASE SaveSequential(t) /\ mem[t].status = "PENDING"
    BY <2>1 DEF SaveSequential, Goto, Open
  <2>2. CASE ~(SaveSequential(t) /\ mem[t].status = "PENDING")
    <3>1. Goto(t, "idle") /\ \E ok \in BOOLEAN : AfterTask(t, ok)
      BY <2>2 DEF SaveSequential, SaveThreads, CollectRaised
    <3>. QED BY <3>1, AfterTaskIs DEF Goto
  <2>. QED BY <2>1, <2>2
<1>4. Running /\ \A u \in Task : ~Started(u)' => ~Started(u)
  BY <1>1, <1>3 DEF Started, BranchInv, TasksInHand, Running
<1>5. /\ \A u \in Task : step'[u] \in {"merge", "onmain"} => ~run'.threads
     /\ \A u \in Task : step'[u] \in {"approved", "declined", "raised"} => run'.threads
  BY <1>3 DEF StartsInv
<1>6. \A u \in run'.todo : step'[u] \in {"idle", "begin"} => Open(mem, u)'
  BY <1>1, <1>3 DEF StartsInv, Open, Run
<1>7. \A u \in Task : IF Started(u)'
                      THEN past'.starts[u] <= mem'[u].attempts /\ past'.starts[u] <= MaxAttempts
                      ELSE Counts(mem'[u], past'.starts[u])
  BY <1>1, <1>3, <1>4 DEF StartsInv, Started
<1>8. \A u \in Task : Waiting(u)' => Counts(wd'.status[u], past'.starts[u])
  <2>1. CASE wd'.status = mem
    BY <1>1, <1>7, <2>1 DEF Waiting, Started
  <2>2. CASE step[t] = "raised" /\ run.threads /\ ~Collecting /\ wd' = wd
    BY <1>1, <1>3, <2>2 DEF Waiting, FileCurrent, StartsInv
  <2>. QED BY <1>2, <2>1, <2>2
<1>9. /\ Running' => \A u \in Task : IF Started(u)'
                                     THEN past'.starts[u] <= mem'[u].attempts /\ past'.starts[u] <= MaxAttempts
                                     ELSE Counts(mem'[u], past'.starts[u])
      /\ FileCurrent' => \A u \in Task : Waiting(u)' => Counts(wd'.status[u], past'.starts[u])
  BY <1>7, <1>8
<1>. QED BY <1>5, <1>6, <1>9 DEF StartsInv

LEMMA StartsOfLoop ==
    ASSUME BudgetInv, BranchInv, BranchInv', StartsInv, Loop
    PROVE  StartsInv'
<1>. USE DEF BudgetInv, TypeOK, ProcOK
<1>1. run.at # "tasks" => run.todo = {} /\ \A t \in Task : step[t] = "idle"
  BY DEF BranchInv, TasksInHand
<1>2. run'.at # "tasks" => run'.todo = {}
  BY DEF BranchInv, TasksInHand
<1>3. CASE EnterBatch
  <2>. DEFINE pending == {t \in Kept : Open(mem, t)}
              threads == run.parallel /\ Cardinality(pending) > 1
  <2>1. run.at = "enter" /\ UNCHANGED <<wd, past, mem>>
    BY <1>3 DEF EnterBatch
  <2>2. \A u \in Task : step'[u] \in {"idle", "begin"}
    BY <1>1, <1>3, <2>1 DEF EnterBatch
  <2>3. \A u \in run'.todo : Open(mem', u)
    <3>. DEFINE blocked == run.blocked \/ \E t \in Kept : mem[t].status = "AWAITING_HITL"
                next == run.batch + 1
    <3>. HIDE DEF pending, threads, blocked, next
    <3>1. \/ run' = [run EXCEPT !.blocked = TRUE, !.at = "finish"]
          \/ run' = [run EXCEPT !.blocked = blocked, !.batch = next]
          \/ run' = [run EXCEPT !.blocked = blocked, !.at = "tasks",
                                !.todo = pending, !.threads = threads]
      BY <1>3 DEF EnterBatch, pending, threads, blocked, next
    <3>2. run'.todo = run.todo \/ run'.todo = pending
      BY <3>1 DEF Run
    <3>. QED BY <1>1, <2>1, <3>2 DEF pending
  <2>. QED BY <1>1, <2>1, <2>2, <2>3, StartsAtRest DEF Running
<1>4. CASE LastBatchDone \/ BudgetGate \/ NextBatch \/ Finish
  <2>1. /\ run.at # "tasks" /\ UNCHANGED <<past, step>> /\ wd'.status = wd.status
        /\ Running' => Running /\ mem' = mem
    BY <1>4 DEF LastBatchDone, BudgetGate, NextBatch, Finish, Running, NoRun, GitOK, Tree
  <2>2. run'.at # "tasks"
    <3>. DEFINE next == run.batch + 1
    <3>. HIDE DEF next
    <3>1. NextBatch => \/ run' = [run EXCEPT !.at = "finish"]
                       \/ run' = [run EXCEPT !.at = "enter", !.batch = next, !.threads = FALSE]
      BY DEF NextBatch, next
    <3>2. NextBatch => run'.at # "tasks"
      BY <3>1 DEF Run
    <3>3. LastBatchDone => run'.at # "tasks"
      BY DEF LastBatchDone, Run
    <3>4. BudgetGate => run'.at # "tasks"
      BY DEF BudgetGate, Run
    <3>5. Finish => run'.at # "tasks"
      BY DEF Finish, NoRun
    <3>. QED BY <1>4, <3>2, <3>3, <3>4, <3>5
  <2>. QED BY <1>1, <1>2, <2>1, <2>2, StartsAtRest
<1>5. ASSUME NEW t \in Task, PickTask(t) PROVE StartsInv'
  <2>1. /\ t \in run.todo /\ run' = run /\ UNCHANGED <<wd, past, mem>>
        /\ \A u \in Task : step[u] = "idle"
        /\ step' = [step EXCEPT ![t] = "begin"] /\ run.at = "tasks"
    BY <1>5 DEF PickTask, NoActive, AllIdle, Goto
  <2>2. \A u \in Task : step'[u] \in {"idle", "begin"}
    BY <2>1
  <2>3. \A u \in run'.todo : Open(mem', u)
    BY <2>1 DEF StartsInv, Run
  <2>. QED BY <2>1, <2>2, <2>3, StartsAtRest DEF Running
<1>6. ASSUME NEW t \in Task, CollectUnmerged(t) \/ CollectMerge(t) \/ CollectConflict(t)
      PROVE  StartsInv'
  <2>1. /\ step[t] = "back" /\ run.threads /\ UNCHANGED <<past, run>>
        /\ mem' = mem \/ SetStatus(t, "AWAITING_HITL")
        /\ \E x \in {"approved", "declined"} : Goto(t, x)
    BY <1>6 DEF CollectUnmerged, CollectMerge, CollectConflict
  <2>. QED BY <2>1, StartsCollected
<1>7. ASSUME NEW t \in Task, SaveSequential(t) \/ SaveThreads(t) \/ CollectRaised(t)
      PROVE  StartsInv'
  BY <1>7, StartsSaved
<1>. QED BY <1>3, <1>4, <1>5, <1>6, <1>7 DEF Loop

LEMMA StartsOfRest ==
    ASSUME BudgetInv, BudgetInv', BranchInv, BranchInv', StartsInv, Commands \/ Operator \/ Fault
    PROVE  StartsInv'
<1>. USE DEF BudgetInv, TypeOK, ProcOK
<1>1. ~Running => run.todo = {} /\ \A t \in Task : step[t] = "idle"
  BY DEF BranchInv, TasksInHand, Running
<1>2. CASE \/ OpenSchemaGate \/ Advance \/ AbortMerge \/ RaiseCap
           \/ \E t \in Task : ExecuteOverBudget(t)
  <2>1. ~Running /\ UNCHANGED <<run, step, past, mem>> /\ wd'.status = wd.status
    BY <1>2 DEF OpenSchemaGate, ExecuteOverBudget, Advance, AbortMerge, RaiseCap,
                Loadable, procVars, GitOK, Tree
  <2>. QED BY <1>1, <2>1, StartsAtRest DEF Running
<1>3. ASSUME NEW m \in Modes, StartRunAll(m) PROVE StartsInv'
  <2>1. /\ ~Running /\ UNCHANGED <<step, past>> /\ mem' = wd.status /\ wd'.status = wd.status
        /\ run'.todo = {}
    BY <1>3 DEF StartRunAll, Load, Loadable, NoRun, GitOK, Tree
  <2>. QED BY <1>1, <2>1, StartsAtRest
<1>4. ASSUME NEW t \in Task, NEW signed \in BOOLEAN, StartExecute(t, signed) PROVE StartsInv'
  <2>1. /\ ~Running /\ past' = past /\ mem' = wd.status /\ wd'.status = wd.status
        /\ run'.todo = {t} /\ Open(wd.status, t) /\ step' = [step EXCEPT ![t] = "begin"]
    BY <1>4 DEF StartExecute, Load, Loadable, NoRun, GitOK, Tree, Goto, Executable
  <2>2. \A u \in Task : step'[u] \in {"idle", "begin"}
    BY <1>1, <2>1
  <2>. QED BY <1>1, <2>1, <2>2, StartsAtRest
<1>5. ASSUME NEW t \in Task, ResetRecord(t) PROVE StartsInv'
  <2>1. /\ ~Running /\ UNCHANGED <<run, step, mem>>
        /\ past' = [past EXCEPT !.starts[t] = 0]
        /\ wd' = [wd EXCEPT !.status[t] = FreshRecord]
    BY <1>5 DEF ResetRecord, procVars
  <2>2. /\ past'.starts[t] = 0 /\ wd'.status[t] = FreshRecord
        /\ \A u \in Task \ {t} : past'.starts[u] = past.starts[u] /\ wd'.status[u] = wd.status[u]
    BY <2>1 DEF Past, GitOK, Tree
  <2>3. wd'.status \in [Task -> Record] /\ WithinBudget(wd'.status)
    BY DEF GitOK, Tree, RetryBudget
  <2>4. Counts(wd'.status[t], past'.starts[t])
    BY <2>2, <2>3, CountsNone
  <2>5. FileCurrent
    BY <1>1, <2>1 DEF FileCurrent, Collecting
  <2>6. \A u \in Task : Counts(wd'.status[u], past'.starts[u])
    BY <1>1, <2>1, <2>2, <2>4, <2>5 DEF StartsInv, Waiting
  <2>. QED BY <1>1, <2>1, <2>6 DEF StartsInv, Running
<1>6. CASE Kill
  BY <1>6, StartsForgotten DEF Kill, Past
<1>7. ASSUME NEW t \in Task, Raise(t) PROVE StartsInv'
  <2>1. /\ run.threads /\ Started(t) /\ UNCHANGED <<run, mem, wd>>
        /\ past'.starts[t] = 0 /\ \A u \in Task \ {t} : past'.starts[u] = past.starts[u]
        /\ step'[t] = "raised" /\ \A u \in Task \ {t} : step'[u] = step[u]
    BY <1>7 DEF Raise, Started, Past, Goto
  <2>2. Counts(mem[t], 0) /\ Counts(wd.status[t], 0)
    BY CountsNone DEF GitOK, Tree, RetryBudget
  <2>3. FileCurrent' => FileCurrent
    BY <2>1 DEF FileCurrent, Collecting, Started
  <2>4. \A u \in run'.todo : step'[u] \in {"idle", "begin"} => Open(mem, u)'
    BY <2>1 DEF StartsInv, Open, Run
  <2>5. /\ \A u \in Task : step'[u] \in {"merge", "onmain"} => ~run'.threads
       /\ \A u \in Task : step'[u] \in {"approved", "declined", "raised"} => run'.threads
    BY <2>1 DEF StartsInv
  <2>6. Running' => \A u \in Task : IF Started(u)'
                                    THEN past'.starts[u] <= mem'[u].attempts /\ past'.starts[u] <= MaxAttempts
                                    ELSE Counts(mem'[u], past'.starts[u])
    BY <2>1, <2>2 DEF StartsInv, Started, Running
  <2>7. FileCurrent' => \A u \in Task : Waiting(u)' => Counts(wd'.status[u], past'.starts[u])
    <3>1. \A u \in Task \ {t} : Waiting(u)' => Waiting(u)
      BY <2>1 DEF Waiting
    <3>. QED BY <2>1, <2>2, <2>3, <3>1 DEF StartsInv
  <2>. QED BY <2>4, <2>5, <2>6, <2>7 DEF StartsInv
<1>. QED BY <1>2, <1>3, <1>4, <1>5, <1>6, <1>7 DEF Commands, Operator, Fault

LEMMA StartsInit == Init => StartsInv
<1>1. Init => /\ run.todo = {} /\ ~Running
              /\ \A t \in Task : /\ step[t] = "idle"
                                 /\ past.starts[t] = 0 /\ wd.status[t] = FreshRecord
  BY DEF Init, NoRun, Running, AllIdle, NoStarts, SeedTree, Tree
<1>2. Counts(FreshRecord, 0)
  BY MaxAttemptsAssumption DEF Counts, FreshRecord
<1>. QED BY <1>1, <1>2 DEF StartsInv

LEMMA StartsNext ==
    BudgetInv /\ BudgetInv' /\ BranchInv /\ BranchInv' /\ StartsInv /\ [Next]_vars => StartsInv'
<1>. SUFFICES ASSUME BudgetInv, BudgetInv', BranchInv, BranchInv', StartsInv, [Next]_vars
              PROVE  StartsInv'
  OBVIOUS
<1>1. CASE Next
  BY <1>1, StartsOfExecuteTask, StartsOfLoop, StartsOfRest DEF Next, Command
<1>2. CASE UNCHANGED vars
  BY <1>2 DEF vars, gitVars, procVars, StartsInv, FileCurrent, Collecting, Started, Waiting,
              Running, Open
<1>. QED BY <1>1, <1>2

\* As long as no command is cut short, all the commands together start a task at most
\* MaxAttempts times before its record is reset: no checkout, merge, save or thread loses
\* a count, in every mode.
THEOREM RetriesAreBounded == Spec => []StartsBounded
<1>1. BranchInv /\ StartsInv => StartsBounded
  <2>. SUFFICES ASSUME BranchInv, StartsInv, NEW t \in Task
                PROVE  past.starts[t] <= MaxAttempts
    BY DEF StartsBounded
  <2>1. CASE Running
    BY <2>1 DEF StartsInv, Counts
  <2>2. CASE ~Running
    <3>1. \A u \in Task : step[u] = "idle"
      BY <2>2 DEF BranchInv, TasksInHand, Running
    <3>. QED BY <3>1 DEF StartsInv, FileCurrent, Collecting, Waiting, Counts
  <2>. QED BY <2>1, <2>2
<1>2. Spec => []BranchInv
  BY BranchInit, BranchNext, PTL DEF Spec
<1>3. Spec => []BudgetInv
  BY BudgetHolds
<1>4. BudgetInv /\ BudgetInv' /\ BranchInv /\ BranchInv' /\ StartsInv /\ [Next]_vars => StartsInv'
  BY StartsNext
<1>. QED BY <1>1, <1>2, <1>3, <1>4, StartsInit, PTL DEF Spec

------------------------------------------------------------------------------
(* Without worktrees a record that says DONE has its accepted output on    *)
(* main, through every rejection, retry and kill.                          *)

\* What a switch leaves, seen from the trees it goes between.
LEMMA SwitchedSame ==
    ASSUME NEW old \in Tree, NEW here \in Tree
    PROVE  Switched(old, old, here) = here
BY DEF Switched, Carry, Tree

LEMMA SwitchedClean ==
    ASSUME NEW old \in Tree, NEW new \in Tree
    PROVE  Switched(old, new, old) = new
<1>1. \A t \in Task : Carry(old.out[t], new.out[t], old.out[t]) = new.out[t]
  BY DEF Carry
<1>2. [t \in Task |-> Carry(old.out[t], new.out[t], old.out[t])] = new.out
  BY <1>1 DEF Tree
<1>. QED BY <1>2 DEF Switched, Carry, Tree

\* A switch to main keeps what FilesBehind says of wd and main.
LEMMA SwitchToMain ==
    ASSUME GitOK, KeepsDone(main.status, wd.status),
           DoneIn(wd.status, main.out), DoneIn(wd.status, wd.out)
    PROVE  /\ KeepsDone(main.status, OnMain.status)
           /\ KeepsDone(OnMain.status, wd.status)
           /\ DoneIn(OnMain.status, OnMain.out)
           /\ \A records : DoneIn(records, main.out) /\ DoneIn(records, wd.out)
                              => DoneIn(records, OnMain.out)
<1>1. OnMain.status \in {main.status, wd.status}
  BY DEF OnMain, Switched, Carry
<1>2. \A t \in Task : OnMain.out[t] \in {main.out[t], wd.out[t]}
  BY DEF OnMain, Switched, Carry
<1>3. KeepsDone(main.status, OnMain.status) /\ KeepsDone(OnMain.status, wd.status)
  BY <1>1 DEF KeepsDone
<1>4. \A records : DoneIn(records, main.out) /\ DoneIn(records, wd.out)
                      => DoneIn(records, OnMain.out)
  BY <1>2 DEF DoneIn
<1>5. DoneIn(OnMain.status, main.out) /\ DoneIn(OnMain.status, wd.out)
  BY <1>3 DEF KeepsDone, DoneIn
<1>. HIDE DEF OnMain
<1>. QED BY <1>3, <1>4, <1>5

LEMMA DoneInit == Init => OneAtATime /\ FilesBehind /\ BranchInHand
BY DEF Init, OneAtATime, FilesBehind, BranchInHand, KeepsDone, DoneIn, NoRun, AllIdle,
       SeedTree, FreshRecord, Running

\* The parts of DoneInv that the steps below preserve; types are TypeNext's.
DoneParts == OneAtATime /\ FilesBehind /\ BranchInHand

LEMMA DoneBegin ==
    ASSUME DoneInv, NEW t \in Task, Begin(t) \/ BeginRefused(t)
    PROVE  DoneParts'
<1>. USE DEF DoneInv, TypeOK
<1>1. /\ KeepsDone(main.status, OnMain.status)
      /\ KeepsDone(OnMain.status, wd.status)
      /\ DoneIn(OnMain.status, OnMain.out)
      /\ \A records : DoneIn(records, main.out) /\ DoneIn(records, wd.out)
                         => DoneIn(records, OnMain.out)
  BY SwitchToMain DEF FilesBehind
<1>2. step[t] = "begin" /\ ~run.threads /\ ~run.parallel /\ run.at = "tasks" /\ Running
  BY DEF Begin, BeginRefused, OneAtATime, Running
<1>3. \A u \in Task : u # t => step[u] = "idle"
  BY <1>2 DEF OneAtATime
<1>4. CASE Begin(t)
  <2>1. StartBranch(t) /\ step' = [step EXCEPT ![t] = "work"] /\ run' = run
    BY <1>2, <1>4 DEF Begin, Goto
  <2>2. mem' = [mem EXCEPT ![t] = CountAttempt(@)] /\ CountAttempt(mem[t]).status = "IN_PROGRESS"
    BY <1>4 DEF Begin, CountAttempt, ProcOK, Record
  <2>3. mem[t].status # "DONE"
    BY <1>2 DEF OneAtATime
  <2>4. \A u \in Task : mem'[u].status = "DONE" <=> mem[u].status = "DONE"
    BY <2>2, <2>3 DEF ProcOK
  <2>5. OneAtATime'
    BY <1>2, <1>3, <2>1, <2>2, <2>4 DEF OneAtATime, ProcOK
  <2>6. FilesBehind'
    <3>1. wd' = OnMain /\ main' = main
      BY <2>1 DEF StartBranch
    <3>2. DoneIn(mem, main.out) /\ DoneIn(mem, wd.out) /\ KeepsDone(wd.status, mem)
      BY <1>2, <1>3 DEF FilesBehind
    <3>3. DoneIn(mem, OnMain.out)
      BY <1>1, <3>2
    <3>4. KeepsDone(OnMain.status, mem)
      BY <1>1, <3>2 DEF KeepsDone
    <3>5. DoneIn(mem', OnMain.out) /\ DoneIn(mem', main.out) /\ KeepsDone(OnMain.status, mem')
      BY <2>4, <3>2, <3>3, <3>4 DEF DoneIn, KeepsDone
    <3>6. DoneIn(OnMain.status, main.out)
      BY <3>2, <3>4 DEF DoneIn, KeepsDone
    <3>. HIDE DEF OnMain
    <3>. QED BY <1>1, <3>1, <3>5, <3>6 DEF FilesBehind
  <2>7. BranchInHand'
    BY <1>3, <2>1 DEF BranchInHand, StartBranch, ProcOK, GitOK
  <2>. QED BY <2>5, <2>6, <2>7 DEF DoneParts
<1>5. CASE BeginRefused(t)
  <2>1. step' = AllIdle /\ run' = NoRun /\ main' = main /\ (wd' = wd \/ wd' = OnMain)
    BY <1>2, <1>5 DEF BeginRefused, Escape
  <2>2. OneAtATime' /\ BranchInHand'
    BY <2>1 DEF OneAtATime, BranchInHand, NoRun, AllIdle
  <2>3. ~Running'
    BY <2>1 DEF Running, NoRun
  <2>4. DoneIn(OnMain.status, main.out)
    BY <1>1 DEF FilesBehind, DoneIn, KeepsDone
  <2>. HIDE DEF OnMain
  <2>5. FilesBehind'
    BY <1>1, <2>1, <2>3, <2>4 DEF FilesBehind
  <2>. QED BY <2>2, <2>5 DEF DoneParts
<1>. QED BY <1>4, <1>5

\* Steps in which the Worker has the branch and the task goes on or is rejected.
LEMMA DoneWork ==
    ASSUME DoneInv, NEW t \in Task,
           Work(t) \/ WorkerRejected(t) \/ Reject(t) \/ Escalate(t) \/ Approve(t)
    PROVE  DoneParts'
<1>. USE DEF DoneInv, TypeOK
<1>1. step[t] \in {"work", "review"} /\ ~run.threads /\ ~run.parallel /\ run.at = "tasks" /\ Running
  BY DEF Work, WorkerRejected, Reject, Escalate, Approve, OneAtATime, Running
<1>2. \A u \in Task : u # t => step[u] = "idle"
  BY <1>1 DEF OneAtATime
<1>3. mem[t].status # "DONE" /\ head = t /\ cut[t] = main /\ tip[t] = main
  BY <1>1 DEF OneAtATime, BranchInHand
<1>4. /\ KeepsDone(wd.status, mem) /\ DoneIn(mem, main.out) /\ DoneIn(mem, wd.out)
  BY <1>1, <1>2 DEF FilesBehind
<1>5. CASE Work(t)
  <2>1. wd' = [wd EXCEPT !.out[t] = "draft"] /\ step' = [step EXCEPT ![t] = "review"]
    BY <1>1, <1>5 DEF Work, Goto
  <2>2. wd'.status = wd.status /\ \A u \in Task : u # t => wd'.out[u] = wd.out[u]
    BY <2>1 DEF GitOK, Tree
  <2>3. wd.status[t].status # "DONE"
    BY <1>3, <1>4 DEF KeepsDone
  <2>4. DoneIn(wd'.status, wd'.out) /\ DoneIn(mem, wd'.out)
    BY <1>3, <1>4, <2>2, <2>3 DEF FilesBehind, DoneIn
  <2>5. main' = main /\ mem' = mem /\ run' = run /\ head' = head /\ tip' = tip /\ cut' = cut
    BY <1>5 DEF Work, gitVars
  <2>6. FilesBehind'
    BY <1>4, <2>2, <2>4, <2>5 DEF FilesBehind, Running
  <2>7. OneAtATime'
    BY <1>1, <1>2, <1>3, <2>1, <2>5 DEF OneAtATime, ProcOK
  <2>8. BranchInHand'
    BY <1>2, <1>3, <2>1, <2>5 DEF BranchInHand, ProcOK
  <2>. QED BY <2>6, <2>7, <2>8 DEF DoneParts
<1>6. CASE WorkerRejected(t) \/ Reject(t) \/ Escalate(t)
  <2>1. CleanUp(t) /\ step' = [step EXCEPT ![t] = "back"] /\ run' = run
    BY <1>6 DEF WorkerRejected, Reject, Escalate, Goto
  <2>2. \E x \in {"PENDING", "AWAITING_HITL"} : mem' = [mem EXCEPT ![t].status = x]
    BY <1>6 DEF WorkerRejected, Reject, Escalate, SoftReject, SetStatus
  <2>3. \A u \in Task : mem'[u].status = "DONE" <=> mem[u].status = "DONE"
    BY <1>3, <2>2 DEF ProcOK, Record
  <2>4. OnMain = wd
    BY <1>3, SwitchedSame DEF OnMain, HeadTree, GitOK
  <2>5. wd' = wd /\ main' = main
    BY <1>1, <2>1, <2>4 DEF CleanUp
  <2>6. FilesBehind'
    BY <1>4, <2>1, <2>3, <2>5 DEF FilesBehind, Running, KeepsDone, DoneIn
  <2>9. step'[t] = "back" /\ \A u \in Task : u # t => step'[u] = "idle"
    BY <1>2, <2>1 DEF ProcOK
  <2>10. \A u \in run.todo : u # t => mem'[u].status # "DONE"
    BY <1>2, <2>3 DEF OneAtATime, ProcOK, Run
  <2>7. OneAtATime'
    BY <1>1, <2>1, <2>9, <2>10 DEF OneAtATime
  <2>8. BranchInHand'
    BY <1>2, <2>1 DEF BranchInHand, ProcOK
  <2>. QED BY <2>6, <2>7, <2>8 DEF DoneParts
<1>7. CASE Approve(t)
  <2>1. /\ step' = [step EXCEPT ![t] = "commit"]
        /\ UNCHANGED <<wd, main, head, tip, cut, mem, run>>
    BY <1>7 DEF Approve, Goto, gitVars
  <2>2. FilesBehind'
    BY <1>4, <2>1 DEF FilesBehind, Running
  <2>3. OneAtATime'
    BY <1>1, <1>2, <1>3, <2>1 DEF OneAtATime, ProcOK
  <2>4. BranchInHand'
    BY <1>2, <1>3, <2>1 DEF BranchInHand, ProcOK
  <2>. QED BY <2>2, <2>3, <2>4 DEF DoneParts
<1>. QED BY <1>5, <1>6, <1>7

\* Commit and inline merge.
LEMMA DoneCommit ==
    ASSUME DoneInv, NEW t \in Task,
           \/ CommitInWorktree(t) \/ CommitInPrimary(t) \/ NothingToCommit(t)
           \/ CheckoutMain(t) \/ FinishMerge(t)
    PROVE  DoneParts'
<1>. USE DEF DoneInv, TypeOK
<1>1. step[t] \in {"commit", "merge", "onmain"} /\ ~run.threads /\ ~run.parallel /\ run.at = "tasks" /\ Running
  BY DEF CommitInWorktree, CommitInPrimary, NothingToCommit, CheckoutMain, FinishMerge, OneAtATime, Running
<1>2. \A u \in Task : u # t => step[u] = "idle"
  BY <1>1 DEF OneAtATime
<1>3. mem[t].status # "DONE"
  BY <1>1 DEF OneAtATime
<1>4. KeepsDone(wd.status, mem) /\ DoneIn(mem, main.out) /\ KeepsDone(main.status, wd.status)
  BY <1>1 DEF FilesBehind
<1>5. KeepsDone(main.status, mem)
  BY <1>4 DEF KeepsDone
<1>6. DoneIn(main.status, main.out)
  BY <1>4, <1>5 DEF KeepsDone, DoneIn
<1>7. CASE CommitInPrimary(t)
  <2>1. step[t] = "commit" /\ head = t /\ cut[t] = main /\ tip[t] = main
    BY <1>7 DEF CommitInPrimary, BranchInHand
  <2>2. CommitTree(t) = [wd EXCEPT !.out[t] = "accepted"]
    BY <1>1 DEF CommitTree
  <2>3. /\ CommitTree(t).status = wd.status /\ CommitTree(t).out[t] = "accepted"
        /\ \A u \in Task : u # t => CommitTree(t).out[u] = wd.out[u]
    BY <2>2 DEF GitOK, Tree
  <2>4. /\ wd' = CommitTree(t) /\ tip' = [tip EXCEPT ![t] = CommitTree(t)]
        /\ step' = [step EXCEPT ![t] = "merge"]
        /\ UNCHANGED <<main, head, cut, mem, run>>
    BY <1>7 DEF CommitInPrimary, Committed, Goto
  <2>. HIDE DEF CommitTree
  <2>5. DoneIn(mem, wd.out) /\ DoneIn(wd.status, wd.out)
    BY <1>1, <1>2, <2>1 DEF FilesBehind
  <2>6. DoneIn(mem, wd'.out) /\ DoneIn(wd'.status, wd'.out)
    BY <2>3, <2>4, <2>5 DEF DoneIn
  <2>7. FilesBehind'
    BY <1>4, <2>3, <2>4, <2>6 DEF FilesBehind, Running
  <2>8. OneAtATime'
    BY <1>1, <1>2, <1>3, <2>4 DEF OneAtATime, ProcOK
  <2>9. BranchInHand'
    BY <1>2, <2>1, <2>3, <2>4 DEF BranchInHand, ProcOK, GitOK
  <2>. QED BY <2>7, <2>8, <2>9 DEF DoneParts
<1>8. CASE NothingToCommit(t)
  <2>1. step[t] = "commit" /\ cut[t] = main /\ tip[t] = main
    BY <1>8 DEF NothingToCommit, BranchInHand
  <2>2. CommitTree(t) = main
    BY <1>8, <2>1 DEF NothingToCommit
  <2>3. main.out[t] = "accepted"
    <3>1. CommitTree(t).out[t] = "accepted"
      BY <1>1 DEF CommitTree, GitOK, Tree
    <3>. QED BY <2>2, <3>1
  <2>4. /\ wd' = main /\ step' = [step EXCEPT ![t] = "back"] /\ mem' = [mem EXCEPT ![t].status = "DONE"]
        /\ UNCHANGED <<main, head, cut, run>>
    BY <1>8, <2>2 DEF NothingToCommit, Committed, Goto, SetStatus
  <2>5. /\ \A u \in Task : mem'[u].status = "DONE" <=> u = t \/ mem[u].status = "DONE"
    BY <2>4 DEF ProcOK, Record
  <2>6. KeepsDone(main.status, mem') /\ DoneIn(mem', main.out) /\ KeepsDone(main.status, main.status)
    BY <1>4, <1>5, <2>3, <2>5 DEF KeepsDone, DoneIn
  <2>7. FilesBehind'
    BY <1>6, <2>4, <2>6 DEF FilesBehind, Running
  <2>8. OneAtATime'
    BY <1>1, <1>2, <2>4, <2>5 DEF OneAtATime, ProcOK
  <2>9. BranchInHand'
    BY <1>2, <2>4 DEF BranchInHand, ProcOK
  <2>. QED BY <2>7, <2>8, <2>9 DEF DoneParts
<1>9. CASE CheckoutMain(t)
  <2>1. step[t] = "merge" /\ head = t /\ cut[t] = main /\ tip[t] = wd /\ wd.out[t] = "accepted"
    BY <1>9 DEF CheckoutMain, BranchInHand
  <2>2. OnMain = main
    BY <2>1, SwitchedClean, BranchAssumption DEF OnMain, HeadTree, GitOK
  <2>3. /\ wd' = main /\ head' = "main" /\ step' = [step EXCEPT ![t] = "onmain"]
        /\ UNCHANGED <<main, tip, cut, mem, run>>
    BY <1>9, <2>2 DEF CheckoutMain, Goto
  <2>4. DoneIn(mem, wd.out)
    BY <1>1, <1>2, <2>1 DEF FilesBehind
  <2>5. FilesBehind'
    <3>1. step'[t] = "onmain"
      BY <2>3 DEF ProcOK
    <3>. QED BY <1>4, <1>5, <1>6, <2>3, <3>1 DEF FilesBehind, Running, KeepsDone
  <2>6. OneAtATime'
    BY <1>1, <1>2, <1>3, <2>3 DEF OneAtATime, ProcOK
  <2>7. BranchInHand'
    BY <1>2, <1>4, <2>1, <2>3, <2>4 DEF BranchInHand, ProcOK
  <2>. QED BY <2>5, <2>6, <2>7 DEF DoneParts
<1>10. CASE FinishMerge(t)
  <2>1. /\ step[t] = "onmain" /\ head = "main" /\ cut[t] = main /\ wd = main
        /\ tip[t].out[t] = "accepted" /\ KeepsDone(main.status, tip[t].status)
        /\ KeepsDone(tip[t].status, mem) /\ DoneIn(mem, tip[t].out)
    BY <1>10 DEF FinishMerge, BranchInHand
  <2>2. OnMain = main
    BY <2>1, SwitchedSame DEF OnMain, HeadTree, GitOK
  <2>3. Merged(cut[t], main, tip[t]) = tip[t]
    BY <2>1, SwitchedClean DEF Merged, GitOK
  <2>4. Switched(main, tip[t], main) = tip[t]
    BY SwitchedClean DEF GitOK
  <2>5. /\ wd' = tip[t] /\ main' = tip[t] /\ step' = [step EXCEPT ![t] = "back"]
        /\ mem' = [mem EXCEPT ![t].status = "DONE"] /\ run' = run
    BY <1>10, <2>2, <2>3, <2>4 DEF FinishMerge, MergeBranch, Goto, SetStatus
  <2>6. \A u \in Task : mem'[u].status = "DONE" <=> u = t \/ mem[u].status = "DONE"
    BY <2>5 DEF ProcOK, Record
  <2>7. KeepsDone(tip[t].status, mem') /\ DoneIn(mem', tip[t].out)
    BY <2>1, <2>6 DEF KeepsDone, DoneIn
  <2>8. DoneIn(tip[t].status, tip[t].out) /\ KeepsDone(tip[t].status, tip[t].status)
    BY <2>7 DEF KeepsDone, DoneIn
  <2>9. FilesBehind'
    BY <2>5, <2>7, <2>8 DEF FilesBehind
  <2>10. OneAtATime'
    BY <1>1, <1>2, <2>5, <2>6 DEF OneAtATime, ProcOK
  <2>11. BranchInHand'
    BY <1>2, <2>5 DEF BranchInHand, ProcOK
  <2>. QED BY <2>9, <2>10, <2>11 DEF DoneParts
<1>11. ~CommitInWorktree(t)
  BY <1>1 DEF CommitInWorktree
<1>. QED BY <1>7, <1>8, <1>9, <1>10, <1>11

\* The loop of a command.
LEMMA DoneLoop ==
    ASSUME DoneInv, Loop
    PROVE  DoneParts'
<1>. USE DEF DoneInv, TypeOK
<1>1. ~run.threads /\ ~run.parallel
  BY DEF OneAtATime
<1>2. CASE EnterBatch \/ LastBatchDone \/ NextBatch
  <2>1. UNCHANGED <<wd, main, head, tip, cut, mem>> /\ Running
    BY <1>2 DEF EnterBatch, LastBatchDone, NextBatch, gitVars, Running
  <2>2. step' = step /\ \A t \in Task : step[t] = "idle"
    BY <1>1, <1>2 DEF EnterBatch, LastBatchDone, NextBatch, OneAtATime
  <2>6. ASSUME LastBatchDone \/ NextBatch
        PROVE  ~run'.threads /\ ~run'.parallel /\ run'.todo = run.todo
    BY <1>1, <2>6 DEF LastBatchDone, NextBatch, ProcOK, Run
  <2>7. ASSUME EnterBatch
        PROVE  /\ ~run'.threads /\ ~run'.parallel
               /\ run'.todo = run.todo \/ \A t \in run'.todo : mem[t].status # "DONE"
    <3>. DEFINE pending == {t \in Kept : Open(mem, t)}
                blocked == run.blocked \/ \E t \in Kept : mem[t].status = "AWAITING_HITL"
                threads == run.parallel /\ Cardinality(pending) > 1
    <3>1. ~threads /\ \A t \in pending : mem[t].status # "DONE"
      BY <1>1 DEF Open
    <3>2. \/ run' = [run EXCEPT !.blocked = TRUE, !.at = "finish"]
          \/ run' = [run EXCEPT !.blocked = blocked, !.batch = @ + 1]
          \/ run' = [run EXCEPT !.blocked = blocked, !.at = "tasks",
                                !.todo = pending, !.threads = threads]
      BY <2>7 DEF EnterBatch
    <3>. HIDE DEF pending, blocked, threads
    <3>. DEFINE next == run.batch + 1
    <3>3. CASE run' = [run EXCEPT !.blocked = TRUE, !.at = "finish"]
      BY <1>1, <3>3 DEF ProcOK, Run
    <3>4. CASE run' = [run EXCEPT !.blocked = blocked, !.batch = next]
      <4>. HIDE DEF next
      <4>. QED BY <1>1, <3>4 DEF ProcOK, Run
    <3>5. CASE run' = [run EXCEPT !.blocked = blocked, !.at = "tasks",
                                  !.todo = pending, !.threads = threads]
      BY <1>1, <3>1, <3>5 DEF ProcOK, Run
    <3>. QED BY <3>2, <3>3, <3>4, <3>5
  <2>3. /\ ~run'.threads /\ ~run'.parallel
        /\ run'.todo = run.todo \/ \A t \in run'.todo : mem[t].status # "DONE"
    BY <1>2, <2>6, <2>7
  <2>4. OneAtATime'
    BY <2>1, <2>2, <2>3 DEF OneAtATime
  <2>5. FilesBehind' /\ BranchInHand'
    BY <2>1, <2>2 DEF FilesBehind, BranchInHand
  <2>. QED BY <2>4, <2>5 DEF DoneParts
<1>3. CASE BudgetGate
  <2>1. /\ wd' = [wd EXCEPT !.state = "budget_awaiting_approval"]
        /\ run' = [run EXCEPT !.at = "finish", !.blocked = TRUE]
        /\ UNCHANGED <<main, head, tip, cut, mem, step>>
    BY <1>3 DEF BudgetGate, gitVars
  <2>2. wd'.status = wd.status /\ wd'.out = wd.out /\ Running /\ \A t \in Task : step[t] = "idle"
    BY <1>3, <2>1 DEF BudgetGate, GitOK, Tree, Running, OneAtATime
  <2>3. run'.todo = run.todo /\ ~run'.threads /\ ~run'.parallel
    BY <1>1, <2>1 DEF ProcOK, Run
  <2>4. OneAtATime' /\ FilesBehind' /\ BranchInHand'
    BY <2>1, <2>2, <2>3 DEF OneAtATime, FilesBehind, BranchInHand
  <2>. QED BY <2>4 DEF DoneParts
<1>4. CASE Finish
  <2>1. wd'.status = wd.status /\ wd'.out = wd.out
    BY <1>4 DEF Finish, GitOK, Tree
  <2>2. run' = NoRun /\ step' = step /\ main' = main /\ \A t \in Task : step[t] = "idle"
    BY <1>4 DEF Finish, gitVars, OneAtATime
  <2>3. OneAtATime' /\ FilesBehind' /\ BranchInHand'
    BY <2>1, <2>2 DEF OneAtATime, FilesBehind, BranchInHand, NoRun, Running
  <2>. QED BY <2>3 DEF DoneParts
<1>5. ASSUME NEW t \in Task, PickTask(t) PROVE DoneParts'
  <2>1. /\ run.at = "tasks" /\ (\A u \in Task : step[u] = "idle") /\ t \in run.todo
        /\ step' = [step EXCEPT ![t] = "begin"] /\ UNCHANGED <<wd, main, head, tip, cut, mem, run>>
    BY <1>5 DEF PickTask, NoActive, AllIdle, Goto, gitVars
  <2>2. mem[t].status # "DONE"
    BY <2>1 DEF OneAtATime
  <2>3. OneAtATime'
    BY <1>1, <2>1, <2>2 DEF OneAtATime, ProcOK
  <2>4. FilesBehind' /\ BranchInHand'
    BY <2>1 DEF FilesBehind, BranchInHand, ProcOK, Running
  <2>. QED BY <2>3, <2>4 DEF DoneParts
<1>6. ASSUME NEW t \in Task, SaveSequential(t) PROVE DoneParts'
  <2>1. /\ step[t] = "back" /\ wd' = [wd EXCEPT !.status = mem] /\ run.at = "tasks" /\ Running
        /\ UNCHANGED <<main, head, tip, cut, mem>>
    BY <1>6 DEF SaveSequential, gitVars, OneAtATime, Running
  <2>2. \A u \in Task : u # t => step[u] = "idle"
    BY <2>1 DEF OneAtATime
  <2>3. wd'.status = mem /\ wd'.out = wd.out
    BY <2>1 DEF GitOK, Tree
  <2>4. KeepsDone(wd.status, mem) /\ DoneIn(mem, main.out) /\ DoneIn(mem, wd.out) /\ KeepsDone(main.status, wd.status)
    BY <2>1, <2>2 DEF FilesBehind
  <2>5. FilesBehind'
    BY <2>1, <2>3, <2>4 DEF FilesBehind, KeepsDone
  <2>6. CASE mem[t].status = "PENDING"
    <3>1. step' = [step EXCEPT ![t] = "begin"] /\ run' = run
      BY <1>6, <2>6 DEF SaveSequential, Goto
    <3>2. OneAtATime' /\ BranchInHand'
      BY <1>1, <2>1, <2>2, <2>6, <3>1 DEF OneAtATime, BranchInHand, ProcOK
    <3>. QED BY <2>5, <3>2 DEF DoneParts
  <2>7. CASE mem[t].status # "PENDING"
    <3>1. step' = [step EXCEPT ![t] = "idle"] /\ AfterTask(t, mem[t].status = "DONE")
      BY <1>6, <2>7 DEF SaveSequential, Goto
    <3>2. \A u \in Task : step'[u] = "idle"
      BY <2>2, <3>1 DEF ProcOK
    <3>3. run'.todo \subseteq run.todo \ {t} /\ ~run'.threads /\ ~run'.parallel
      BY <1>1, <3>1 DEF AfterTask, ProcOK, Run
    <3>4. \A u \in run'.todo : mem[u].status # "DONE"
      BY <2>2, <3>3 DEF OneAtATime, ProcOK, Run
    <3>5. OneAtATime' /\ BranchInHand'
      BY <2>1, <3>2, <3>3, <3>4 DEF OneAtATime, BranchInHand
    <3>. QED BY <2>5, <3>5 DEF DoneParts
  <2>. QED BY <2>6, <2>7
<1>7. ASSUME NEW t \in Task,
             \/ CollectUnmerged(t) \/ CollectMerge(t) \/ CollectConflict(t)
             \/ SaveThreads(t) \/ CollectRaised(t)
      PROVE  FALSE
  BY <1>1, <1>7 DEF CollectUnmerged, CollectMerge, CollectConflict, SaveThreads,
                    CollectRaised, OneAtATime
<1>. QED
  BY <1>2, <1>3, <1>4, <1>5, <1>6, <1>7 DEF Loop

\* Starting a command; the operator; a kill.
LEMMA DoneOutside ==
    ASSUME DoneInv, SequentialModes, Commands \/ Operator \/ Fault
    PROVE  DoneParts'
<1>. USE DEF DoneInv, TypeOK
<1>1. ASSUME UNCHANGED <<wd, main, head, tip, cut, mem, step, run>> PROVE DoneParts'
  BY <1>1 DEF DoneParts, OneAtATime, FilesBehind, BranchInHand, Running
<1>2. ASSUME wd'.status = wd.status, wd'.out = wd.out, ~Running,
             UNCHANGED <<main, head, tip, cut, mem, step, run>>
      PROVE  DoneParts'
  BY <1>2 DEF DoneParts, OneAtATime, FilesBehind, BranchInHand, Running
<1>3. CASE Advance
  BY <1>2, <1>3 DEF Advance, GitOK, Tree, gitVars, procVars
<1>4. CASE AbortMerge \/ RaiseCap
  BY <1>1, <1>4 DEF AbortMerge, RaiseCap, gitVars, procVars
<1>5. ASSUME NEW t \in Task, ResetRecord(t) PROVE DoneParts'
  <2>1. /\ wd.status[t].status = "AWAITING_HITL" /\ wd' = [wd EXCEPT !.status[t] = FreshRecord]
        /\ ~Running /\ UNCHANGED <<main, head, tip, cut, mem, step, run>>
    BY <1>5 DEF ResetRecord, gitVars, procVars
  <2>2. wd'.out = wd.out /\ \A u \in Task : wd'.status[u].status = "DONE" <=> wd.status[u].status = "DONE"
    BY <2>1 DEF GitOK, Tree, FreshRecord
  <2>3. FilesBehind'
    BY <2>1, <2>2 DEF FilesBehind, KeepsDone, DoneIn, Running
  <2>4. OneAtATime' /\ BranchInHand'
    BY <2>1 DEF OneAtATime, BranchInHand, Running
  <2>. QED BY <2>3, <2>4 DEF DoneParts
<1>6. CASE Kill
  <2>1. run' = NoRun /\ step' = AllIdle /\ wd' = wd /\ main' = main
    BY <1>6 DEF Kill, gitVars
  <2>2. OneAtATime' /\ FilesBehind' /\ BranchInHand'
    BY <2>1 DEF OneAtATime, FilesBehind, BranchInHand, NoRun, AllIdle, Running
  <2>. QED BY <2>2 DEF DoneParts
<1>7. ASSUME NEW t \in Task, Raise(t) PROVE FALSE
  BY <1>7 DEF Raise, OneAtATime
<1>8. CASE OpenSchemaGate
  BY <1>2, <1>8 DEF OpenSchemaGate, Loadable, GitOK, Tree, gitVars, procVars
<1>9. ASSUME NEW t \in Task, ExecuteOverBudget(t) PROVE DoneParts'
  BY <1>2, <1>9 DEF ExecuteOverBudget, Loadable, GitOK, Tree, gitVars, procVars
<1>10. ASSUME NEW r, Load(r), ~Running
       PROVE  FilesBehind'
  <2>1. /\ wd'.status = wd.status /\ wd'.out = wd.out /\ main' = main /\ mem' = wd.status
    BY <1>10 DEF Load, GitOK, Tree, gitVars
  <2>. QED BY <2>1 DEF FilesBehind, KeepsDone, DoneIn
<1>11. ~Running => \A t \in Task : step[t] = "idle"
  BY DEF Running, OneAtATime
<1>12. ASSUME NEW m \in Modes, StartRunAll(m) PROVE DoneParts'
  <2>1. ~m.parallel
    BY DEF SequentialModes
  <2>2. /\ run'.todo = {} /\ ~run'.threads /\ ~run'.parallel /\ step' = step
        /\ \A t \in Task : step[t] = "idle"
    BY <1>11, <1>12, <2>1 DEF StartRunAll, Load, Loadable, NoRun
  <2>3. OneAtATime' /\ BranchInHand'
    BY <2>2 DEF OneAtATime, BranchInHand
  <2>4. FilesBehind'
    BY <1>10, <1>12 DEF StartRunAll, Loadable
  <2>. QED BY <2>3, <2>4 DEF DoneParts
<1>13. ASSUME NEW t \in Task, NEW signed \in BOOLEAN, StartExecute(t, signed) PROVE DoneParts'
  <2>1. wd.status[t].status # "DONE" /\ mem' = wd.status
    BY <1>13 DEF StartExecute, Executable, Open, Load
  <2>2. /\ run'.todo = {t} /\ ~run'.threads /\ ~run'.parallel /\ run'.at = "tasks"
        /\ step' = [step EXCEPT ![t] = "begin"] /\ \A u \in Task : step[u] = "idle"
    BY <1>11, <1>13 DEF StartExecute, Load, Loadable, NoRun, Goto
  <2>3. OneAtATime' /\ BranchInHand'
    BY <2>1, <2>2 DEF OneAtATime, BranchInHand, ProcOK
  <2>4. FilesBehind'
    BY <1>10, <1>13 DEF StartExecute, Loadable
  <2>. QED BY <2>3, <2>4 DEF DoneParts
<1>. QED
  BY <1>3, <1>4, <1>5, <1>6, <1>7, <1>8, <1>9, <1>12, <1>13 DEF Commands, Operator, Fault

LEMMA DoneNext == SequentialModes /\ DoneInv /\ [Next]_vars => DoneInv'
<1>. SUFFICES ASSUME SequentialModes, DoneInv, [Next]_vars PROVE DoneInv'
  OBVIOUS
<1>1. TypeOK'
  BY TypeNext DEF DoneInv
<1>2. CASE Next
  <2>1. ASSUME NEW t \in Task, ExecuteTask(t) PROVE DoneParts'
    BY <2>1, DoneBegin, DoneWork, DoneCommit DEF ExecuteTask
  <2>2. DoneParts'
    BY <1>2, <2>1, DoneLoop, DoneOutside DEF Next, Command
  <2>. QED BY <1>1, <2>2 DEF DoneParts, DoneInv
<1>3. CASE UNCHANGED vars
  BY <1>1, <1>3 DEF vars, gitVars, procVars, DoneInv, OneAtATime, FilesBehind, BranchInHand, Running
<1>. QED BY <1>2, <1>3

\* As long as run-all is called without --parallel, a record on disk that says
\* DONE has its accepted output on main: after any number of rejections, kills and
\* restarts, and although a kill can take the records back in time.
THEOREM SequentialDoneIsOnMain ==
    ASSUME SequentialModes PROVE Spec => []DoneIsOnMain
<1>1. Init => DoneInv
  BY TypeInit, DoneInit DEF DoneInv
<1>2. DoneInv /\ [Next]_vars => DoneInv'
  BY DoneNext
<1>3. DoneInv => DoneIsOnMain
  BY DEF DoneInv, FilesBehind, DoneIn, DoneIsOnMain
<1>. QED BY <1>1, <1>2, <1>3, PTL DEF Spec

------------------------------------------------------------------------------
(* The end of the project                                                  *)

\* The operator does not advance a project to done by hand.
NoMoveToDone == \A m \in Moves : m[2] # "done"

LEMMA StateOfSwitch ==
    ASSUME NEW old, NEW new, NEW here
    PROVE  Switched(old, new, here).state \in {new.state, here.state}
BY DEF Switched, Carry

\* Nothing that git keeps says that the project is done.
LEMMA StateOfGit ==
    ASSUME GitOK, NotDoneYet, wd.state # "done", NEW t \in Task
    PROVE  /\ OnMain.state # "done"
           /\ Merged(cut[t], main, tip[t]).state # "done"
           /\ Switched(main, Merged(cut[t], main, tip[t]), OnMain).state # "done"
           /\ CommitTree(t).state # "done"
           /\ SeedTree.state # "done"
<1>1. OnMain.state \in {main.state, wd.state}
  BY StateOfSwitch DEF OnMain
<1>2. Merged(cut[t], main, tip[t]).state \in {tip[t].state, main.state}
  BY StateOfSwitch DEF Merged
<1>3. Switched(main, Merged(cut[t], main, tip[t]), OnMain).state
          \in {Merged(cut[t], main, tip[t]).state, OnMain.state}
  BY StateOfSwitch
<1>4. CommitTree(t).state \in {tip[t].state, wd.state}
  BY DEF CommitTree, GitOK, Tree
<1>5. SeedTree.state # "done"
  BY DEF SeedTree
<1>. QED BY <1>1, <1>2, <1>3, <1>4, <1>5 DEF NotDoneYet

LEMMA StateOfBranches ==
    ASSUME GitOK, NotDoneYet, wd.state # "done", NEW t \in Task,
           StartBranch(t) \/ AddWorktree(t) \/ CleanUp(t) \/ MergeBranch(t)
    PROVE  /\ main'.state # "done" /\ wd'.state # "done"
           /\ \A u \in Task : tip'[u].state # "done"
<1>1. CASE StartBranch(t)
  BY <1>1, StateOfGit DEF StartBranch, GitOK, NotDoneYet
<1>2. CASE AddWorktree(t)
  BY <1>2, StateOfGit DEF AddWorktree, GitOK, NotDoneYet
<1>3. CASE CleanUp(t)
  BY <1>3, StateOfGit DEF CleanUp, DropBranch, GitOK, NotDoneYet
<1>4. CASE MergeBranch(t)
  <2>1. /\ main' = Merged(cut[t], main, tip[t])
        /\ wd' = Switched(main, Merged(cut[t], main, tip[t]), OnMain)
        /\ tip' = [tip EXCEPT ![t] = SeedTree]
    BY <1>4 DEF MergeBranch, DropBranch
  <2>. QED BY <2>1, StateOfGit DEF GitOK, NotDoneYet
<1>. QED BY <1>1, <1>2, <1>3, <1>4

\* Where no step of a running command ends it as done, only Finish can, and it looks
\* at the records.
LEMMA NotDoneWhileRunning ==
    ASSUME main'.state # "done", wd'.state # "done", \A u \in Task : tip'[u].state # "done"
    PROVE  NotDoneYet'
BY DEF NotDoneYet

LEMMA StateOfExecuteTask ==
    ASSUME BranchInv, NotDoneYet, NEW t \in Task, ExecuteTask(t)
    PROVE  NotDoneYet'
<1>. USE DEF BranchInv, TypeOK
<1>1. wd.state # "done"
  BY DEF ExecuteTask, Begin, BeginRefused, Work, WorkerRejected, Reject, Escalate, Approve,
         CommitInWorktree, CommitInPrimary, NothingToCommit, CheckoutMain, FinishMerge,
         NotDoneYet, TasksInHand, Running
<1>2. /\ main.state # "done" /\ \A u \in Task : tip[u].state # "done"
      /\ OnMain.state # "done" /\ CommitTree(t).state # "done"
  BY <1>1, StateOfGit DEF NotDoneYet
<1>3. CASE Begin(t)
  BY <1>1, <1>3, StateOfBranches, NotDoneWhileRunning DEF Begin
<1>4. CASE BeginRefused(t)
  BY <1>1, <1>2, <1>4, NotDoneWhileRunning DEF BeginRefused
<1>5. CASE Work(t)
  <2>1. wd'.state = wd.state
    BY <1>5 DEF Work, GitOK, Tree
  <2>. QED BY <1>1, <1>2, <1>5, <2>1, NotDoneWhileRunning DEF Work, gitVars
<1>6. CASE WorkerRejected(t) \/ Reject(t) \/ Escalate(t)
  BY <1>1, <1>6, StateOfBranches, NotDoneWhileRunning DEF WorkerRejected, Reject, Escalate
<1>7. CASE Approve(t)
  BY <1>1, <1>2, <1>7, NotDoneWhileRunning DEF Approve, gitVars
<1>8. CASE CommitInWorktree(t) \/ CommitInPrimary(t) \/ NothingToCommit(t)
  <2>1. /\ tip' = [tip EXCEPT ![t] = CommitTree(t)] /\ main' = main
        /\ wd' = wd \/ wd' = CommitTree(t)
    BY <1>8 DEF CommitInWorktree, CommitInPrimary, NothingToCommit, Committed
  <2>2. \A u \in Task : tip'[u].state # "done"
    BY <1>2, <2>1 DEF GitOK
  <2>. QED BY <1>1, <1>2, <2>1, <2>2, NotDoneWhileRunning
<1>9. CASE CheckoutMain(t)
  BY <1>2, <1>9, NotDoneWhileRunning DEF CheckoutMain
<1>10. CASE FinishMerge(t)
  BY <1>1, <1>10, StateOfBranches, NotDoneWhileRunning DEF FinishMerge
<1>. QED BY <1>3, <1>4, <1>5, <1>6, <1>7, <1>8, <1>9, <1>10 DEF ExecuteTask

LEMMA StateOfLoop ==
    ASSUME BranchInv, NotDoneYet, Loop,
           run.at = "finish" /\ AllDone(mem) => AllDone(wd.status)
    PROVE  NotDoneYet'
<1>. USE DEF BranchInv, TypeOK
<1>1. wd.state # "done"
  BY DEF Loop, EnterBatch, LastBatchDone, BudgetGate, NextBatch, Finish, PickTask, SaveSequential,
         CollectUnmerged, CollectMerge, CollectConflict, SaveThreads, CollectRaised,
         NotDoneYet, TasksInHand, Running
<1>2. main.state # "done" /\ \A u \in Task : tip[u].state # "done"
  BY DEF NotDoneYet
<1>3. [wd EXCEPT !.status = mem].state = wd.state /\ \A x : [wd EXCEPT !.state = x].state = x
  BY DEF GitOK, Tree
<1>4. CASE EnterBatch \/ LastBatchDone \/ NextBatch
  BY <1>1, <1>2, <1>4, NotDoneWhileRunning DEF EnterBatch, LastBatchDone, NextBatch, gitVars
<1>5. CASE BudgetGate
  BY <1>2, <1>3, <1>5, NotDoneWhileRunning DEF BudgetGate, gitVars
<1>6. CASE Finish
  <2>1. ~Running' /\ main' = main /\ tip' = tip
    BY <1>6 DEF Finish, Running, NoRun, gitVars
  <2>2. wd'.status = wd.status
    BY <1>6 DEF Finish, GitOK, Tree
  <2>3. wd'.state = "done" => AllDone(wd.status)
    BY <1>1, <1>6 DEF Finish
  <2>. QED BY <1>2, <2>1, <2>2, <2>3 DEF NotDoneYet, AllDone
<1>7. ASSUME NEW t \in Task, PickTask(t) \/ CollectUnmerged(t) \/ CollectRaised(t) PROVE NotDoneYet'
  BY <1>1, <1>2, <1>7, NotDoneWhileRunning DEF PickTask, CollectUnmerged, CollectRaised, gitVars
<1>8. ASSUME NEW t \in Task, SaveSequential(t) \/ SaveThreads(t) PROVE NotDoneYet'
  BY <1>1, <1>2, <1>3, <1>8, NotDoneWhileRunning DEF SaveSequential, SaveThreads, gitVars
<1>9. ASSUME NEW t \in Task, CollectMerge(t) PROVE NotDoneYet'
  BY <1>1, <1>9, StateOfBranches, NotDoneWhileRunning DEF CollectMerge
<1>10. ASSUME NEW t \in Task, CollectConflict(t) PROVE NotDoneYet'
  BY <1>1, <1>2, <1>10, StateOfGit, NotDoneWhileRunning DEF CollectConflict
<1>. QED BY <1>4, <1>5, <1>6, <1>7, <1>8, <1>9, <1>10 DEF Loop

LEMMA StateOfRest ==
    ASSUME BranchInv, NotDoneYet, NoMoveToDone, Commands \/ Operator \/ Fault
    PROVE  NotDoneYet'
<1>. USE DEF BranchInv, TypeOK
<1>1. main.state # "done" /\ \A u \in Task : tip[u].state # "done"
  BY DEF NotDoneYet
<1>2. \A x : [wd EXCEPT !.state = x].state = x
  BY DEF GitOK, Tree
<1>3. ASSUME UNCHANGED <<wd, main, tip, run>> PROVE NotDoneYet'
  BY <1>3 DEF NotDoneYet, Running
<1>4. ASSUME NEW r, Load(r) PROVE NotDoneYet'
  BY <1>1, <1>2, <1>4, NotDoneWhileRunning DEF Load, gitVars
<1>5. CASE OpenSchemaGate
  BY <1>1, <1>2, <1>5, NotDoneWhileRunning DEF OpenSchemaGate, gitVars
<1>6. ASSUME NEW t \in Task, ExecuteOverBudget(t) PROVE NotDoneYet'
  BY <1>1, <1>2, <1>6, NotDoneWhileRunning DEF ExecuteOverBudget, gitVars
<1>7. CASE Advance
  BY <1>1, <1>2, <1>7, NotDoneWhileRunning DEF Advance, NoMoveToDone, gitVars
<1>8. CASE AbortMerge \/ RaiseCap
  BY <1>3, <1>8 DEF AbortMerge, RaiseCap, gitVars, procVars
<1>9. ASSUME NEW t \in Task, ResetRecord(t) PROVE NotDoneYet'
  <2>1. wd'.state = wd.state /\ wd.state # "done"
    BY <1>9 DEF ResetRecord, NotDoneYet, AllDone, GitOK, Tree
  <2>. QED BY <1>1, <1>9, <2>1, NotDoneWhileRunning DEF ResetRecord, gitVars
<1>10. CASE Kill
  <2>1. wd.state # "done"
    BY <1>10 DEF Kill, NotDoneYet
  <2>. QED BY <1>1, <1>10, <2>1, NotDoneWhileRunning DEF Kill, gitVars
<1>11. ASSUME NEW t \in Task, Raise(t) PROVE NotDoneYet'
  BY <1>3, <1>11 DEF Raise, gitVars
<1>. QED
  BY <1>4, <1>5, <1>6, <1>7, <1>8, <1>9, <1>10, <1>11
     DEF Commands, StartRunAll, StartExecute, Operator, Fault

LEMMA StateNext ==
    ASSUME BranchInv, NotDoneYet, NoMoveToDone, [Next]_vars,
           run.at = "finish" /\ AllDone(mem) => AllDone(wd.status)
    PROVE  NotDoneYet'
<1>1. CASE Next
  BY <1>1, StateOfExecuteTask, StateOfLoop, StateOfRest DEF Next, Command
<1>2. CASE UNCHANGED vars
  BY <1>2 DEF vars, gitVars, NotDoneYet, Running, procVars
<1>. QED BY <1>1, <1>2

LEMMA StateInit == Init => NotDoneYet
<1>. SUFFICES ASSUME Init PROVE NotDoneYet
  OBVIOUS
<1>1. wd.state = "tasks_ready"
  BY DEF Init, SeedTree
<1>. QED BY <1>1 DEF Init, NotDoneYet, SeedTree

\* Without worktrees the memory is saved whenever no task is in hand.
LEMMA SavedNext ==
    ASSUME DoneInv, FilesSaved, [Next]_vars
    PROVE  FilesSaved'
<1>. USE DEF DoneInv, TypeOK
<1>1. ~run.threads
  BY DEF OneAtATime
<1>2. ASSUME ~Running' PROVE FilesSaved'
  BY <1>2 DEF FilesSaved
<1>3. ASSUME Running, wd'.status = wd.status, mem' = mem, \A t \in Task : step[t] = "idle"
      PROVE  FilesSaved'
  BY <1>3 DEF FilesSaved
<1>4. ASSUME NEW t \in Task, NEW x \in Step \ {"idle", "begin"}, Goto(t, x) PROVE FilesSaved'
  BY <1>4 DEF FilesSaved, Goto, ProcOK
<1>5. ASSUME NEW t \in Task, ExecuteTask(t) PROVE FilesSaved'
  <2>1. CASE BeginRefused(t)
    BY <1>1, <1>2, <2>1 DEF BeginRefused, Escape, Running, NoRun
  <2>2. CASE ~BeginRefused(t)
    <3>1. \E x \in Step \ {"idle", "begin"} : Goto(t, x)
      BY <1>5, <2>2 DEF ExecuteTask, Begin, Work, WorkerRejected, Reject, Escalate, Approve,
         CommitInWorktree, CommitInPrimary, NothingToCommit, CheckoutMain, FinishMerge, Step
    <3>. QED BY <1>4, <3>1
  <2>. QED BY <2>1, <2>2
<1>6. CASE EnterBatch \/ LastBatchDone \/ NextBatch
  BY <1>3, <1>6 DEF EnterBatch, LastBatchDone, NextBatch, Running, OneAtATime
<1>7. CASE BudgetGate
  <2>1. wd'.status = wd.status
    BY <1>7 DEF BudgetGate, GitOK, Tree
  <2>. QED BY <1>3, <1>7, <2>1 DEF BudgetGate, Running, OneAtATime
<1>8. CASE Finish \/ Kill
  BY <1>2, <1>8 DEF Finish, Kill, Running, NoRun
<1>9. ASSUME NEW t \in Task, PickTask(t) PROVE FilesSaved'
  BY <1>3, <1>9 DEF PickTask, NoActive, AllIdle, Running
<1>10. ASSUME NEW t \in Task, SaveSequential(t) PROVE FilesSaved'
  BY <1>10 DEF SaveSequential, FilesSaved, GitOK, Tree
<1>11. ASSUME NEW t \in Task,
              \/ CollectUnmerged(t) \/ CollectMerge(t) \/ CollectConflict(t)
              \/ SaveThreads(t) \/ CollectRaised(t) \/ Raise(t)
       PROVE  FALSE
  BY <1>1, <1>11 DEF CollectUnmerged, CollectMerge, CollectConflict, SaveThreads,
                     CollectRaised, Raise, OneAtATime
<1>12. ASSUME NEW r, Load(r) PROVE FilesSaved'
  BY <1>12 DEF Load, FilesSaved, GitOK, Tree
<1>13. CASE OpenSchemaGate \/ Advance
  BY <1>2, <1>13 DEF OpenSchemaGate, Advance, Loadable, Running, procVars
<1>14. ASSUME NEW t \in Task, ExecuteOverBudget(t) \/ ResetRecord(t) PROVE FilesSaved'
  BY <1>2, <1>14 DEF ExecuteOverBudget, ResetRecord, Loadable, Running, procVars
<1>15. CASE UNCHANGED vars \/ AbortMerge \/ RaiseCap
  BY <1>15 DEF vars, procVars, AbortMerge, RaiseCap, FilesSaved, Running
<1>. QED
  BY <1>5, <1>6, <1>7, <1>8, <1>9, <1>10, <1>11, <1>12, <1>13, <1>14, <1>15
     DEF Next, Command, Loop, Commands, StartRunAll, StartExecute, Operator, Fault

\* A project that run-all or execute finished without worktrees has every task done,
\* on disk and on main, whatever was rejected, killed or taken back on the way.
THEOREM FinishedHasLanded ==
    ASSUME SequentialModes, NoMoveToDone PROVE Spec => []FinishedMeansLanded
<1>. DEFINE I == BranchInv /\ DoneInv /\ FilesSaved /\ NotDoneYet
<1>1. Init => I
  BY BranchInit, TypeInit, DoneInit, StateInit DEF DoneInv, Init, FilesSaved, Running, NoRun
<1>2. I /\ [Next]_vars => I'
  <2>. SUFFICES ASSUME I, [Next]_vars PROVE I'
    OBVIOUS
  <2>1. run.at = "finish" /\ AllDone(mem) => AllDone(wd.status)
    BY DEF FilesSaved, Running, DoneInv, OneAtATime, AllDone
  <2>. QED BY <2>1, BranchNext, DoneNext, SavedNext, StateNext
<1>3. I => FinishedMeansLanded
  BY DEF DoneInv, FilesBehind, DoneIn, NotDoneYet, AllDone, FinishedMeansLanded
<1>. QED BY <1>1, <1>2, <1>3, PTL DEF Spec

------------------------------------------------------------------------------
(* The order of the batches                                                *)

LEMMA BatchesAre ==
    /\ Placed[0] = {}
    /\ \A n \in Nat \ {0} : Placed[n] = {t \in Task : Deps[t] \subseteq Placed[n - 1]}
    /\ \A n \in Nat : Placed[n] \subseteq Task
<1>1. IsPlaced(Task, Deps, Placed)
  BY PlacedExists DEF Placed
<1>. QED BY <1>1 DEF IsPlaced

\* --phase keeps what the tasks that it keeps depend on.
PhasesClosed ==
    \A m \in Modes, t \in Task :
        Phase[t] <= m.phase => \A d \in Deps[t] : Phase[d] <= m.phase

\* run-all is called without --phase, or with the last one.
EveryPhase == \A m \in Modes, t \in Task : Phase[t] <= m.phase

\* A batch that is done comes on top of the earlier ones.
LEMMA BatchAfterBatch ==
    ASSUME run.batch \in Nat \ {0}, KeptDone(run.batch - 1), \A t \in Kept : mem[t].status = "DONE"
    PROVE  KeptDone(run.batch)
BY BatchesAre DEF KeptDone, Kept, Batch

\* What keeps the DONE records and the command keeps the order.
LEMMA OrderKept ==
    ASSUME BatchesInOrder, run' = run, KeepsDone(mem, mem')
    PROVE  BatchesInOrder'
<1>1. Kept' = Kept /\ Kept \subseteq Task
  BY DEF Kept
<1>2. run.kind = "run_all" => run.batch \in Nat /\ run.batch - 1 \in Nat
  BY DEF BatchesInOrder
<1>3. ASSUME NEW n \in Nat, KeptDone(n) PROVE KeptDone(n)'
  BY <1>3, BatchesAre DEF KeptDone, KeepsDone
<1>4. run.kind = "run_all" /\ run.at \in {"enter", "tasks", "gate"} => KeptDone(run.batch - 1)'
  BY <1>2, <1>3 DEF BatchesInOrder
<1>5. run.at = "gate" /\ ~run.blocked => KeptDone(run.batch)'
  BY <1>2, <1>3 DEF BatchesInOrder
<1>6. \A t \in Kept \ run.todo : mem[t].status = "DONE" => mem'[t].status = "DONE"
  BY <1>1 DEF KeepsDone
<1>7. \A d \in Task : mem[d].status = "DONE" => mem'[d].status = "DONE"
  BY DEF KeepsDone
<1>. HIDE DEF Kept
<1>. QED BY <1>1, <1>4, <1>5, <1>6, <1>7 DEF BatchesInOrder

\* execute_task takes no DONE back.
LEMMA DoneStays ==
    ASSUME DoneInv, NEW t \in Task, ExecuteTask(t), ~BeginRefused(t)
    PROVE  run' = run /\ KeepsDone(mem, mem')
<1>1. run' = run
  BY DEF ExecuteTask, Begin, Work, WorkerRejected, Reject, Escalate, Approve, CommitInWorktree,
         CommitInPrimary, NothingToCommit, CheckoutMain, FinishMerge, Committed
<1>2. mem[t].status # "DONE"
  BY DEF ExecuteTask, Begin, Work, WorkerRejected, Reject, Escalate, Approve, CommitInWorktree,
         CommitInPrimary, NothingToCommit, CheckoutMain, FinishMerge, DoneInv, OneAtATime
<1>3. \A u \in Task \ {t} : mem'[u] = mem[u]
  BY DEF ExecuteTask, Begin, Work, WorkerRejected, Reject, Escalate, Approve, CommitInWorktree,
         CommitInPrimary, NothingToCommit, CheckoutMain, FinishMerge, SoftReject, SetStatus,
         DoneInv, TypeOK, ProcOK
<1>. QED BY <1>1, <1>2, <1>3 DEF KeepsDone

LEMMA OrderOfExecuteTask ==
    ASSUME OrderInv, NEW t \in Task, ExecuteTask(t)
    PROVE  ModeInHand' /\ (run'.stopOnFail => BatchesInOrder')
<1>1. CASE BeginRefused(t)
  <2>1. run' = NoRun
    BY <1>1 DEF BeginRefused, Escape, OrderInv, DoneInv, OneAtATime
  <2>. QED BY <2>1 DEF ModeInHand, BatchesInOrder, NoRun
<1>2. CASE ~BeginRefused(t)
  <2>1. run' = run /\ KeepsDone(mem, mem')
    BY <1>2, DoneStays DEF OrderInv
  <2>. QED BY <2>1, OrderKept DEF OrderInv, ModeInHand
<1>. QED BY <1>1, <1>2

LEMMA OrderOfBatch ==
    ASSUME OrderInv, PhasesClosed, EnterBatch
    PROVE  ModeInHand' /\ (run'.stopOnFail => BatchesInOrder')
<1>. USE DEF OrderInv, DoneInv, TypeOK, ProcOK
<1>. DEFINE pending == {t \in Kept : Open(mem, t)}
            blocked == run.blocked \/ \E t \in Kept : mem[t].status = "AWAITING_HITL"
            threads == run.parallel /\ Cardinality(pending) > 1
            next == run.batch + 1
<1>1. run.at = "enter" /\ mem' = mem /\ run.todo = {}
  BY DEF EnterBatch, TasksInHand, BranchInv
<1>2. \/ run' = [run EXCEPT !.blocked = TRUE, !.at = "finish"]
      \/ /\ pending = {} /\ ~(blocked /\ run.stopOnFail)
         /\ run' = [run EXCEPT !.blocked = blocked, !.batch = next]
      \/ /\ ~(blocked /\ run.stopOnFail)
         /\ run' = [run EXCEPT !.blocked = blocked, !.at = "tasks",
                               !.todo = pending, !.threads = threads]
  BY DEF EnterBatch
<1>3. ~blocked => \A t \in Kept \ pending : mem[t].status = "DONE"
  BY DEF Open, Kept
<1>4. pending \subseteq Kept /\ Kept \subseteq Task
  BY DEF Kept
<1>5. ASSUME run.stopOnFail
      PROVE  /\ run.kind = "run_all" /\ run.batch \in Nat \ {0} /\ KeptDone(run.batch - 1)
             /\ \A t \in pending, d \in Task : d \in Deps[t] => mem[d].status = "DONE"
  <2>1. run.kind = "run_all" /\ run.batch \in Nat \ {0} /\ KeptDone(run.batch - 1)
    BY <1>1, <1>5 DEF BatchesInOrder
  <2>2. ASSUME NEW t \in Kept, NEW d \in Task, d \in Deps[t] PROVE mem[d].status = "DONE"
    <3>1. t \in Task /\ Phase[t] <= run.phase /\ t \in Placed[run.batch]
      BY <2>2 DEF Kept, Batch
    <3>2. d \in Placed[run.batch - 1]
      BY <2>1, <2>2, <3>1, BatchesAre
    <3>3. Phase[d] <= run.phase
      BY <2>1, <2>2, <3>1 DEF ModeInHand, PhasesClosed
    <3>. QED BY <2>1, <3>2, <3>3 DEF KeptDone
  <2>. QED BY <1>4, <2>1, <2>2
<1>6. next \in Nat \ {0} /\ next - 1 = run.batch
  BY DEF Run
<1>. HIDE DEF pending, blocked, threads, next
<1>7. CASE run' = [run EXCEPT !.blocked = TRUE, !.at = "finish"]
  <2>1. /\ run'.at = "finish" /\ run'.todo = {} /\ run'.stopOnFail = run.stopOnFail
        /\ run'.kind = run.kind /\ run'.batch = run.batch /\ run'.phase = run.phase
    BY <1>1, <1>7 DEF Run
  <2>. QED BY <1>5, <2>1 DEF ModeInHand, BatchesInOrder
<1>8. CASE /\ pending = {} /\ ~(blocked /\ run.stopOnFail)
           /\ run' = [run EXCEPT !.blocked = blocked, !.batch = next]
  <2>1. /\ run'.at = "enter" /\ run'.todo = {} /\ run'.stopOnFail = run.stopOnFail
        /\ run'.kind = run.kind /\ run'.batch = next /\ run'.phase = run.phase
    BY <1>1, <1>8 DEF Run
  <2>2. ASSUME run.stopOnFail PROVE KeptDone(run.batch - 1)'
    <3>1. KeptDone(run.batch)
      BY <1>3, <1>5, <1>8, <2>2, BatchAfterBatch
    <3>2. \A t \in Placed[run.batch] : Phase[t] <= run'.phase => mem'[t].status = "DONE"
      BY <1>1, <2>1, <3>1 DEF KeptDone
    <3>. QED BY <1>6, <2>1, <3>2 DEF KeptDone
  <2>. QED BY <1>5, <1>6, <2>1, <2>2 DEF ModeInHand, BatchesInOrder
<1>9. CASE /\ ~(blocked /\ run.stopOnFail)
           /\ run' = [run EXCEPT !.blocked = blocked, !.at = "tasks",
                                 !.todo = pending, !.threads = threads]
  <2>1. /\ run'.at = "tasks" /\ run'.todo = pending /\ run'.stopOnFail = run.stopOnFail
        /\ run'.kind = run.kind /\ run'.batch = run.batch /\ run'.phase = run.phase
    BY <1>9 DEF Run
  <2>2. Kept' = Kept
    BY <2>1 DEF Kept
  <2>3. KeptDone(run.batch - 1) => KeptDone(run.batch - 1)'
    BY <1>1, <2>1 DEF KeptDone
  <2>. QED BY <1>1, <1>3, <1>4, <1>5, <1>9, <2>1, <2>2, <2>3 DEF ModeInHand, BatchesInOrder
<1>. QED BY <1>2, <1>7, <1>8, <1>9

\* A task of a batch is over.
LEMMA OrderOfSave ==
    ASSUME OrderInv, NEW t \in Task, SaveSequential(t)
    PROVE  ModeInHand' /\ (run'.stopOnFail => BatchesInOrder')
<1>. USE DEF OrderInv, DoneInv, TypeOK, ProcOK
<1>1. mem' = mem /\ ~run.threads /\ step[t] = "back"
  BY DEF SaveSequential
<1>2. run.at = "tasks"
  BY <1>1 DEF OneAtATime
<1>3. CASE run' = run
  BY <1>1, <1>3, OrderKept DEF ModeInHand, KeepsDone
<1>4. CASE run' # run
  <2>. DEFINE ok == mem[t].status = "DONE"
              rest == run.todo \ {t}
              over == rest = {} \/ (~ok /\ run.stopOnFail /\ ~run.threads)
  <2>1. AfterTask(t, mem[t].status = "DONE")
    BY <1>4 DEF SaveSequential
  <2>2. /\ run'.blocked <=> run.blocked \/ ~ok
        /\ run'.todo = IF over THEN {} ELSE rest
        /\ run'.at = IF ~over THEN "tasks" ELSE IF run.kind = "execute" THEN "finish" ELSE "gate"
        /\ run'.stopOnFail = run.stopOnFail /\ run'.kind = run.kind
        /\ run'.batch = run.batch /\ run'.phase = run.phase
    BY <2>1 DEF AfterTask, Run
  <2>3. Kept' = Kept
    BY <2>2 DEF Kept
  <2>4. ModeInHand'
    BY <2>2 DEF ModeInHand
  <2>5. ASSUME run.stopOnFail PROVE BatchesInOrder'
    <3>1. run.kind \in {"run_all", "execute"}
      BY <1>2, <2>5 DEF BatchesInOrder, Run
    <3>2. /\ run.kind = "run_all" => run.batch \in Nat \ {0} /\ KeptDone(run.batch - 1)
          /\ run.kind = "run_all" => run.todo \subseteq Kept
          /\ run.kind = "run_all" => \A u \in Kept \ run.todo : mem[u].status = "DONE"
          /\ \A u \in run.todo, d \in Task : d \in Deps[u] => mem[d].status = "DONE"
      BY <1>2, <2>5 DEF BatchesInOrder
    <3>3. KeptDone(run.batch - 1) => KeptDone(run.batch - 1)'
      BY <1>1, <2>2 DEF KeptDone
    <3>4. CASE over
      <4>1. run'.at \in {"finish", "gate"} /\ run'.todo = {}
        BY <2>2, <3>4
      <4>2. run'.at = "gate" => run'.kind = "run_all"
        BY <2>2, <3>1
      <4>3. ASSUME run'.at = "gate", ~run'.blocked PROVE KeptDone(run.batch)'
        <5>1. ok /\ run.kind = "run_all"
          BY <2>2, <4>2, <4>3
        <5>2. run.todo \subseteq {t}
          BY <3>4, <5>1
        <5>3. \A u \in Kept : mem[u].status = "DONE"
          BY <3>2, <5>1, <5>2
        <5>4. KeptDone(run.batch)
          BY <3>2, <5>1, <5>3, BatchAfterBatch
        <5>. QED BY <1>1, <2>2, <5>4 DEF KeptDone
      <4>. HIDE DEF over, rest
      <4>. QED BY <2>2, <3>2, <3>3, <4>1, <4>2, <4>3 DEF BatchesInOrder
    <3>5. CASE ~over
      <4>1. run'.at = "tasks" /\ run'.todo = rest /\ ok
        BY <1>1, <2>2, <2>5, <3>5
      <4>2. run.kind = "run_all" => \A u \in Kept \ rest : mem[u].status = "DONE"
        BY <3>2, <4>1
      <4>. QED BY <1>1, <2>2, <2>3, <3>1, <3>2, <3>3, <4>1, <4>2 DEF BatchesInOrder
    <3>. QED BY <3>4, <3>5
  <2>. QED BY <2>2, <2>4, <2>5
<1>. QED BY <1>3, <1>4

LEMMA OrderOfLoop ==
    ASSUME OrderInv, PhasesClosed, Loop
    PROVE  ModeInHand' /\ (run'.stopOnFail => BatchesInOrder')
<1>. USE DEF OrderInv, DoneInv, TypeOK, ProcOK
<1>1. run.at # "tasks" => run.todo = {}
  BY DEF BranchInv, TasksInHand
<1>2. ASSUME run'.at = "finish", UNCHANGED <<run.todo, run.stopOnFail, run.kind, run.batch, run.phase>>,
             run.at # "tasks"
      PROVE  ModeInHand' /\ (run'.stopOnFail => BatchesInOrder')
  BY <1>1, <1>2 DEF ModeInHand, BatchesInOrder
<1>3. CASE EnterBatch
  BY <1>3, OrderOfBatch
<1>4. CASE LastBatchDone
  BY <1>2, <1>4 DEF LastBatchDone, Run
<1>5. CASE BudgetGate
  BY <1>2, <1>5 DEF BudgetGate, Run
<1>6. CASE NextBatch
  <2>. DEFINE next == run.batch + 1
  <2>1. run.at = "gate" /\ mem' = mem
    BY <1>6 DEF NextBatch
  <2>2. \/ run' = [run EXCEPT !.at = "finish"]
        \/ /\ ~(run.blocked /\ run.stopOnFail)
           /\ run' = [run EXCEPT !.at = "enter", !.batch = next, !.threads = FALSE]
    BY <1>6 DEF NextBatch
  <2>3. next \in Nat \ {0} /\ next - 1 = run.batch
    BY DEF Run
  <2>. HIDE DEF next
  <2>4. CASE run' = [run EXCEPT !.at = "finish"]
    BY <1>2, <2>1, <2>4 DEF Run
  <2>5. CASE /\ ~(run.blocked /\ run.stopOnFail)
             /\ run' = [run EXCEPT !.at = "enter", !.batch = next, !.threads = FALSE]
    <3>1. /\ run'.at = "enter" /\ run'.todo = {} /\ run'.stopOnFail = run.stopOnFail
          /\ run'.kind = run.kind /\ run'.batch = next /\ run'.phase = run.phase
      BY <1>1, <2>1, <2>5 DEF Run
    <3>2. ASSUME run.stopOnFail PROVE run.kind = "run_all" /\ KeptDone(run.batch - 1)'
      <4>1. run.kind = "run_all" /\ KeptDone(run.batch)
        BY <2>1, <2>5, <3>2 DEF BatchesInOrder
      <4>2. \A t \in Placed[run.batch] : Phase[t] <= run'.phase => mem'[t].status = "DONE"
        BY <2>1, <3>1, <4>1 DEF KeptDone
      <4>. QED BY <2>3, <3>1, <4>1, <4>2 DEF KeptDone
    <3>. QED BY <2>3, <3>1, <3>2 DEF ModeInHand, BatchesInOrder
  <2>. QED BY <2>2, <2>4, <2>5
<1>7. CASE Finish
  BY <1>7 DEF Finish, NoRun, ModeInHand, BatchesInOrder
<1>8. ASSUME NEW t \in Task, PickTask(t) PROVE ModeInHand' /\ (run'.stopOnFail => BatchesInOrder')
  BY <1>8, OrderKept DEF PickTask, ModeInHand, KeepsDone
<1>9. ASSUME NEW t \in Task,
             \/ CollectUnmerged(t) \/ CollectMerge(t) \/ CollectConflict(t)
             \/ SaveThreads(t) \/ CollectRaised(t)
      PROVE  FALSE
  BY <1>9 DEF CollectUnmerged, CollectMerge, CollectConflict, SaveThreads,
              CollectRaised, OneAtATime
<1>. QED BY <1>3, <1>4, <1>5, <1>6, <1>7, <1>8, <1>9, OrderOfSave DEF Loop

LEMMA OrderOfRest ==
    ASSUME OrderInv, Commands \/ Operator \/ Fault
    PROVE  ModeInHand' /\ (run'.stopOnFail => BatchesInOrder')
<1>. USE DEF OrderInv, DoneInv, TypeOK, ProcOK
<1>1. ASSUME UNCHANGED <<run, mem>> PROVE ModeInHand' /\ (run'.stopOnFail => BatchesInOrder')
  BY <1>1, OrderKept DEF ModeInHand, KeepsDone
<1>2. CASE OpenSchemaGate \/ Operator \/ \E t \in Task : ExecuteOverBudget(t) \/ Raise(t)
  <2>1. UNCHANGED <<run, mem>>
    BY <1>2 DEF OpenSchemaGate, ExecuteOverBudget, Operator, Advance, AbortMerge, RaiseCap,
                ResetRecord, Raise, procVars
  <2>. QED BY <1>1, <2>1
<1>3. ASSUME NEW m \in Modes, StartRunAll(m) PROVE ModeInHand' /\ (run'.stopOnFail => BatchesInOrder')
  <2>1. /\ run'.at = "enter" /\ run'.kind = "run_all" /\ run'.batch = 1 /\ run'.todo = {}
        /\ run'.phase = m.phase /\ run'.stopOnFail = m.stopOnFail
    BY <1>3 DEF StartRunAll, Load, NoRun
  <2>2. KeptDone(run.batch - 1)'
    BY <2>1, BatchesAre DEF KeptDone
  <2>. QED BY <2>1, <2>2 DEF ModeInHand, BatchesInOrder
<1>4. ASSUME NEW t \in Task, NEW signed \in BOOLEAN, StartExecute(t, signed)
      PROVE  ModeInHand' /\ (run'.stopOnFail => BatchesInOrder')
  <2>1. /\ run'.at = "tasks" /\ run'.kind = "execute" /\ run'.todo = {t} /\ run'.stopOnFail
        /\ mem' = wd.status
    BY <1>4 DEF StartExecute, Load, NoRun
  <2>2. \A d \in Deps[t] : wd.status[d].status = "DONE"
    BY <1>4 DEF StartExecute, Executable
  <2>. QED BY <2>1, <2>2 DEF ModeInHand, BatchesInOrder
<1>5. CASE Kill
  BY <1>5 DEF Kill, NoRun, ModeInHand, BatchesInOrder
<1>. QED BY <1>2, <1>3, <1>4, <1>5 DEF Commands, Fault

LEMMA OrderNext ==
    ASSUME SequentialModes, PhasesClosed, OrderInv, [Next]_vars
    PROVE  OrderInv'
<1>1. BranchInv' /\ DoneInv'
  BY BranchNext, DoneNext DEF OrderInv
<1>2. CASE Next
  <2>1. ModeInHand' /\ (run'.stopOnFail => BatchesInOrder')
    BY <1>2, OrderOfExecuteTask, OrderOfLoop, OrderOfRest DEF Next, Command
  <2>. QED BY <1>1, <2>1 DEF OrderInv
<1>3. CASE UNCHANGED vars
  <2>1. run' = run /\ KeepsDone(mem, mem')
    BY <1>3 DEF vars, procVars, KeepsDone
  <2>. QED BY <1>1, <2>1, OrderKept DEF OrderInv, ModeInHand
<1>. QED BY <1>2, <1>3

LEMMA OrderInit == Init => OrderInv
<1>1. Init => ModeInHand /\ (run.stopOnFail => BatchesInOrder)
  BY DEF Init, NoRun, ModeInHand, BatchesInOrder
<1>. QED BY <1>1, BranchInit, TypeInit, DoneInit DEF OrderInv, DoneInv

LEMMA OrderGivesDependencies ==
    ASSUME OrderInv, \A m \in Modes : m.stopOnFail
    PROVE  DependencyOrder
<1>. SUFFICES ASSUME NEW t \in Task, step[t] \notin {"idle", "raised"}, NEW d \in Deps[t]
              PROVE  mem[d].status = "DONE" /\ main.out[d] = "accepted"
  BY DEF DependencyOrder
<1>1. t \in run.todo /\ d \in Task
  BY DagAssumption DEF OrderInv, BranchInv, TasksInHand
<1>2. run.stopOnFail
  BY DEF OrderInv, ModeInHand
<1>3. mem[d].status = "DONE"
  BY <1>1, <1>2 DEF OrderInv, BatchesInOrder
<1>4. Running
  BY <1>1 DEF OrderInv, BranchInv, TasksInHand, Running
<1>. QED BY <1>1, <1>3, <1>4 DEF OrderInv, DoneInv, FilesBehind, DoneIn

\* Without worktrees and with stop_on_fail, no task is attempted before the output of
\* every task that it depends on is done and on main, whatever was killed before.
THEOREM DependenciesComeFirst ==
    ASSUME SequentialModes, PhasesClosed, \A m \in Modes : m.stopOnFail
    PROVE  Spec => []DependencyOrder
<1>1. OrderInv => DependencyOrder
  BY OrderGivesDependencies
<1>2. OrderInv /\ [Next]_vars => OrderInv'
  BY OrderNext
<1>. QED BY <1>1, <1>2, OrderInit, PTL DEF Spec

\* Without worktrees and --phase, run-all does not go past a batch in which a task
\* waits for a human.  (With worktrees it does: TaskRunner_conflict.)
THEOREM HumansAreWaitedFor ==
    ASSUME SequentialModes, EveryPhase PROVE Spec => StopOnFail
<1>. DEFINE A == run.at = "enter" /\ run'.at = "tasks" /\ run.stopOnFail =>
                   \A t \in Placed[run.batch] : mem[t].status # "AWAITING_HITL"
<1>1. PhasesClosed
  BY DagAssumption DEF PhasesClosed, EveryPhase
<1>2. OrderInv /\ [Next]_vars => OrderInv'
  BY <1>1, OrderNext
<1>3. ASSUME OrderInv, [Next]_vars PROVE [A]_vars
  <2>. SUFFICES ASSUME Next, run.at = "enter", run'.at = "tasks", run.stopOnFail,
                       NEW t \in Placed[run.batch]
                PROVE  mem[t].status # "AWAITING_HITL"
    BY <1>3
  <2>1. EnterBatch
    <3>1. \A u \in Task : step[u] = "idle"
      BY <1>3 DEF OrderInv, DoneInv, OneAtATime
    <3>2. \A u \in Task : ~ExecuteTask(u) /\ ~Raise(u)
      BY <3>1 DEF ExecuteTask, Begin, BeginRefused, Work, WorkerRejected, Reject, Escalate, Approve,
         CommitInWorktree, CommitInPrimary, NothingToCommit, CheckoutMain, FinishMerge, Raise
    <3>3. ~Commands /\ ~Operator
      BY DEF Commands, OpenSchemaGate, StartRunAll, ExecuteOverBudget, StartExecute, Loadable,
             Operator, Advance, AbortMerge, RaiseCap, ResetRecord, Running
    <3>4. ~Kill /\ ~LastBatchDone /\ ~BudgetGate /\ ~NextBatch /\ ~Finish
      <4>1. ~Kill /\ ~Finish
        BY DEF Kill, Finish, NoRun
      <4>2. ~LastBatchDone
        BY <1>3 DEF LastBatchDone, OrderInv, DoneInv, TypeOK, ProcOK, Run
      <4>. QED BY <4>1, <4>2 DEF BudgetGate, NextBatch
    <3>5. \A u \in Task : ~(\/ PickTask(u) \/ SaveSequential(u) \/ CollectUnmerged(u) \/ CollectMerge(u)
                            \/ CollectConflict(u) \/ SaveThreads(u) \/ CollectRaised(u))
      BY <3>1 DEF PickTask, SaveSequential, CollectUnmerged, CollectMerge, CollectConflict,
                  SaveThreads, CollectRaised
    <3>. QED BY <3>2, <3>3, <3>4, <3>5 DEF Next, Command, Fault, Loop
  <2>2. ~\E u \in Kept : mem[u].status = "AWAITING_HITL"
    <3>. DEFINE blocked == run.blocked \/ \E u \in Kept : mem[u].status = "AWAITING_HITL"
    <3>1. blocked => run' = [run EXCEPT !.blocked = TRUE, !.at = "finish"]
      BY <2>1 DEF EnterBatch
    <3>. HIDE DEF blocked
    <3>2. ~blocked
      BY <1>3, <3>1 DEF OrderInv, DoneInv, TypeOK, ProcOK, Run
    <3>. QED BY <3>2 DEF blocked
  <2>3. BatchesInOrder /\ ModeInHand
    BY <1>3 DEF OrderInv
  <2>4. run.kind = "run_all" /\ run.batch \in Nat /\ KeptDone(run.batch - 1)
    BY <2>3 DEF BatchesInOrder
  <2>5. t \in Task /\ Phase[t] <= run.phase
    BY <2>3, <2>4, BatchesAre DEF ModeInHand, EveryPhase
  <2>. QED BY <2>2, <2>4, <2>5 DEF Kept, KeptDone, Batch
<1>. HIDE DEF A
<1>4. Spec => [][A]_vars
  BY <1>2, <1>3, OrderInit, PTL DEF Spec
<1>. QED BY <1>4 DEF A, StopOnFail

------------------------------------------------------------------------------
(* Records and main without kills, with and without worktrees              *)

UnkilledParts ==
    /\ \A t \in Task : step[t] \in {"approved", "declined", "raised"} => run.threads
    /\ head # "main" => step[head] = "merge" \/ tip[head] = main
    /\ Running => \A t \in Task : Agreed(t)
    /\ ~Running => \A t \in Task :
          /\ IsDone(wd.status, t) <=> Landed(main.out, t)
          /\ Landed(wd.out, t) <=> Landed(main.out, t)
    /\ \A t \in Task : BranchAgrees(t)

\* What a step leaves as it was for task u.
SameFor(u) ==
    /\ step'[u] = step[u]
    /\ u \in run'.todo => u \in run.todo
    /\ Landed(main'.out, u) <=> Landed(main.out, u)
    /\ Landed(wd'.out, u) <=> Landed(wd.out, u)
    /\ IsDone(mem', u) <=> IsDone(mem, u)
    /\ IsDone(wd'.status, u) <=> IsDone(wd.status, u)

LEMMA SameAgreed ==
    ASSUME NEW u \in Task, Agreed(u), SameFor(u), run'.threads = run.threads,
           FilesInPlace
    PROVE  Agreed(u)'
BY DEF Agreed, SameFor

LEMMA SameBranch ==
    ASSUME UnkilledInv, NEW t \in Task, step[t] # "idle", NEW u \in Task, u # t,
           step'[u] = step[u], run'.threads = run.threads,
           tip'[u] = tip[u], cut'[u] = cut[u],
           run.threads => main'.out[u] = main.out[u], IsDone(mem', u) => IsDone(mem, u)
    PROVE  BranchAgrees(u)'
<1>1. CASE run.threads
  <2>1. BranchAgrees(u) /\ step[u] \notin {"merge", "onmain"}
    BY <1>1 DEF UnkilledInv, BranchAgrees
  <2>. QED BY <1>1, <2>1 DEF BranchAgrees
<1>2. CASE ~run.threads
  <2>1. step'[u] = "idle"
    BY <1>2 DEF UnkilledInv, BranchInv, TasksInHand
  <2>. QED BY <2>1 DEF BranchAgrees
<1>. QED BY <1>1, <1>2

\* Where HEAD is, and what a checkout of main does.
LEMMA HeadIsMain ==
    ASSUME UnkilledInv, head # "main" => step[head] # "merge"
    PROVE  HeadTree = main /\ OnMain = wd
<1>1. HeadTree = main
  BY DEF HeadTree, UnkilledInv
<1>. QED BY <1>1, SwitchedSame DEF OnMain, UnkilledInv, BranchInv, TypeOK, GitOK

\* In the hand of a command.
LEMMA InHand ==
    ASSUME UnkilledInv, NEW t \in Task, step[t] # "idle"
    PROVE  /\ Running /\ run.at = "tasks" /\ t \in run.todo
           /\ \A u \in Task : Agreed(u)
           /\ ~run.threads => \A u \in Task : u # t => step[u] = "idle"
           /\ run.threads => \A u \in Task : step[u] \notin {"merge", "onmain"}
           /\ step[t] # "onmain" => FilesInPlace
           /\ step[t] # "merge" => HeadTree = main /\ OnMain = wd
<1>1. run.at = "tasks" /\ t \in run.todo /\ Running
  BY DEF UnkilledInv, BranchInv, TasksInHand, Running
<1>2. ~run.threads => \A u \in Task : u # t => step[u] = "idle"
  BY DEF UnkilledInv, BranchInv, TasksInHand
<1>3. run.threads => \A u \in Task : step[u] \notin {"merge", "onmain"}
  BY DEF UnkilledInv, BranchAgrees
<1>4. step[t] # "onmain" => FilesInPlace
  BY <1>2, <1>3 DEF FilesInPlace
<1>5. ASSUME step[t] # "merge" PROVE head # "main" => step[head] # "merge"
  BY <1>2, <1>3, <1>5 DEF UnkilledInv, BranchInv, TypeOK, GitOK
<1>6. step[t] # "merge" => HeadTree = main /\ OnMain = wd
  BY <1>5, HeadIsMain
<1>. QED BY <1>1, <1>2, <1>3, <1>4, <1>6 DEF UnkilledInv

\* A step that moves task t alone: what is left to look at is t itself.
LEMMA OneMoves ==
    ASSUME UnkilledInv, NEW t \in Task, step[t] \notin {"idle", "onmain"},
           NEW x \in Step \ {"idle", "onmain"}, Goto(t, x), run' = run,
           \A u \in Task : u # t => /\ Landed(main'.out, u) <=> Landed(main.out, u)
                                    /\ run.threads => main'.out[u] = main.out[u]
                                    /\ Landed(wd'.out, u) <=> Landed(wd.out, u)
                                    /\ mem'[u] = mem[u] /\ tip'[u] = tip[u] /\ cut'[u] = cut[u]
                                    /\ IsDone(wd'.status, u) <=> IsDone(wd.status, u),
           head' # "main" => step'[head'] = "merge" \/ tip'[head'] = main',
           Agreed(t)', BranchAgrees(t)',
           x \in {"approved", "declined", "raised"} => run.threads
    PROVE  UnkilledParts'
<1>1. /\ step'[t] = x /\ \A u \in Task : u # t => step'[u] = step[u]
      /\ Running /\ FilesInPlace /\ \A u \in Task : Agreed(u)
  BY InHand DEF Goto, UnkilledInv, BranchInv, TypeOK, ProcOK
<1>2. \A u \in Task : u # t => SameFor(u)
  BY <1>1 DEF SameFor, IsDone
<1>3. \A u \in Task : Agreed(u)'
  BY <1>1, <1>2, SameAgreed
<1>4. \A u \in Task : BranchAgrees(u)'
  <2>. SUFFICES ASSUME NEW u \in Task, u # t PROVE BranchAgrees(u)'
    OBVIOUS
  <2>1. IsDone(mem', u) => IsDone(mem, u)
    BY DEF IsDone
  <2>. QED BY <1>1, <2>1, SameBranch
<1>5. Running'
  BY <1>1 DEF Running
<1>. QED BY <1>1, <1>3, <1>4, <1>5 DEF UnkilledParts, UnkilledInv

\* The steps before the commit.
LEMMA UnkilledWork ==
    ASSUME UnkilledInv, NEW t \in Task,
           \/ Begin(t) \/ BeginRefused(t) \/ Work(t) \/ WorkerRejected(t) \/ Reject(t)
           \/ Escalate(t) \/ Approve(t) \/ Raise(t)
    PROVE  UnkilledParts'
<1>. USE DEF UnkilledInv, BranchInv, TypeOK, ProcOK, GitOK
<1>1. step[t] \in {"begin", "work", "review", "commit"}
  BY DEF Begin, BeginRefused, Work, WorkerRejected, Reject, Escalate, Approve, Raise
<1>2. /\ Running /\ FilesInPlace /\ OnMain = wd /\ HeadTree = main
      /\ ~run.threads => \A u \in Task : u # t => step[u] = "idle"
  BY <1>1, InHand
<1>3. /\ Agreed(t) /\ ~IsDone(mem, t) /\ ~Landed(main.out, t)
      /\ ~IsDone(wd.status, t) /\ ~Landed(wd.out, t)
  BY <1>1, <1>2 DEF Agreed
<1>4. head # "main" => tip[head] = main
  BY <1>2 DEF HeadTree
<1>5. "main" \notin Task /\ main' = main
  BY BranchAssumption DEF Begin, StartBranch, AddWorktree, BeginRefused, Work, WorkerRejected,
     Reject, Escalate, Approve, Raise, CleanUp, gitVars
<1>6. CASE Begin(t)
  <2>1. /\ Goto(t, "work") /\ run' = run /\ wd' = wd /\ mem' = [mem EXCEPT ![t] = CountAttempt(@)]
        /\ tip' = [tip EXCEPT ![t] = main] /\ cut' = [cut EXCEPT ![t] = main]
        /\ head' = head \/ head' = t
    BY <1>2, <1>6 DEF Begin, StartBranch, AddWorktree
  <2>2. mem'[t].status = "IN_PROGRESS" /\ step'[t] = "work"
    BY <2>1 DEF CountAttempt, Goto, Record
  <2>3. Agreed(t)'
    BY <1>3, <1>5, <2>1, <2>2 DEF Agreed, IsDone
  <2>4. BranchAgrees(t)'
    BY <1>5, <2>1, <2>2 DEF BranchAgrees
  <2>5. head' # "main" => tip'[head'] = main'
    BY <1>4, <1>5, <2>1
  <2>. QED BY <1>1, <1>5, <2>1, <2>3, <2>4, <2>5, OneMoves DEF Step
<1>7. CASE BeginRefused(t)
  <2>1. wd' = wd /\ UNCHANGED <<tip, cut>>
    BY <1>2, <1>7 DEF BeginRefused
  <2>2. CASE run.threads
    <3>1. /\ Goto(t, "raised") /\ run' = run /\ head' = head
          /\ mem' = [mem EXCEPT ![t] = CountAttempt(@)]
      BY <1>7, <2>2 DEF BeginRefused, Escape
    <3>2. mem'[t].status = "IN_PROGRESS" /\ step'[t] = "raised"
      BY <3>1 DEF CountAttempt, Goto, Record
    <3>3. Agreed(t)' /\ BranchAgrees(t)'
      BY <1>3, <1>5, <2>1, <3>1, <3>2 DEF Agreed, IsDone, BranchAgrees
    <3>. QED BY <1>1, <1>4, <1>5, <2>1, <2>2, <3>1, <3>3, OneMoves DEF Step
  <2>3. CASE ~run.threads
    <3>1. step' = AllIdle /\ run' = NoRun /\ head' \in {head, "main"}
      BY <1>7, <2>3 DEF BeginRefused, Escape
    <3>2. \A u \in Task : /\ IsDone(wd.status, u) <=> Landed(main.out, u)
                          /\ Landed(wd.out, u) <=> Landed(main.out, u)
      <4>1. \A u \in Task : Agreed(u) /\ step[u] \in {"idle", "begin"}
        BY <1>1, <1>2, <1>7, <2>3, InHand DEF BeginRefused
      <4>. QED BY <1>2, <4>1 DEF Agreed
    <3>3. ~Running' /\ \A u \in Task : step'[u] = "idle"
      BY <3>1 DEF Running, NoRun, AllIdle
    <3>. QED BY <1>4, <1>5, <2>1, <3>1, <3>2, <3>3 DEF UnkilledParts, BranchAgrees
  <2>. QED BY <2>2, <2>3
<1>8. CASE Work(t)
  <2>1. /\ Goto(t, "review") /\ UNCHANGED <<head, tip, cut, mem, run>> /\ step[t] = "work"
        /\ wd' = wd \/ wd' = [wd EXCEPT !.out[t] = "draft"]
    BY <1>8 DEF Work, gitVars
  <2>2. wd'.status = wd.status /\ ~Landed(wd'.out, t) /\ \A u \in Task : u # t => wd'.out[u] = wd.out[u]
    BY <1>3, <2>1 DEF Tree, Landed
  <2>3. step'[t] = "review"
    BY <2>1 DEF Goto
  <2>4. Agreed(t)' /\ BranchAgrees(t)'
    BY <1>3, <1>5, <2>1, <2>2, <2>3 DEF Agreed, BranchAgrees
  <2>. QED BY <1>1, <1>4, <1>5, <2>1, <2>2, <2>4, OneMoves DEF Step, Landed
<1>9. CASE WorkerRejected(t) \/ Reject(t) \/ Escalate(t)
  <2>1. /\ CleanUp(t) /\ Goto(t, "back") /\ run' = run
        /\ \E x \in {"PENDING", "AWAITING_HITL"} : mem' = [mem EXCEPT ![t].status = x]
    BY <1>9 DEF WorkerRejected, Reject, Escalate, SoftReject, SetStatus
  <2>2. mem'[t].status # "DONE" /\ step'[t] = "back"
    BY <2>1 DEF Goto, Record
  <2>3. /\ wd' = wd /\ tip' = [tip EXCEPT ![t] = SeedTree] /\ cut' = [cut EXCEPT ![t] = SeedTree]
        /\ run.threads => head' = head
        /\ ~run.threads => head' = "main"
    BY <1>2, <2>1 DEF CleanUp, DropBranch
  <2>4. run.threads => head # t
    BY <1>9 DEF WorkerOnItsBranch, WorkerRejected, Reject, Escalate
  <2>5. head' # "main" => tip'[head'] = main'
    BY <1>4, <1>5, <2>3, <2>4
  <2>6. Agreed(t)' /\ BranchAgrees(t)'
    BY <1>3, <1>5, <2>1, <2>2, <2>3 DEF Agreed, IsDone, BranchAgrees
  <2>. QED BY <1>1, <1>5, <2>1, <2>3, <2>5, <2>6, OneMoves DEF Step
<1>10. CASE Approve(t)
  <2>1. Goto(t, "commit") /\ UNCHANGED <<wd, head, tip, cut, mem, run>> /\ step[t] = "review"
    BY <1>10 DEF Approve, gitVars
  <2>2. step'[t] = "commit"
    BY <2>1 DEF Goto
  <2>3. Agreed(t)' /\ BranchAgrees(t)'
    BY <1>3, <1>5, <2>1, <2>2 DEF Agreed, BranchAgrees
  <2>. QED BY <1>1, <1>4, <1>5, <2>1, <2>3, OneMoves DEF Step
<1>11. CASE Raise(t)
  <2>1. Goto(t, "raised") /\ UNCHANGED <<wd, head, tip, cut, mem, run>> /\ run.threads
    BY <1>11 DEF Raise, gitVars
  <2>2. step'[t] = "raised"
    BY <2>1 DEF Goto
  <2>3. Agreed(t)' /\ BranchAgrees(t)'
    BY <1>3, <1>5, <2>1, <2>2 DEF Agreed, BranchAgrees
  <2>. QED BY <1>1, <1>4, <1>5, <2>1, <2>3, OneMoves DEF Step
<1>. QED BY <1>6, <1>7, <1>8, <1>9, <1>10, <1>11

\* The commit and the inline merge.
LEMMA UnkilledCommit ==
    ASSUME UnkilledInv, NEW t \in Task,
           \/ CommitInWorktree(t) \/ CommitInPrimary(t) \/ NothingToCommit(t)
           \/ CheckoutMain(t) \/ FinishMerge(t)
    PROVE  UnkilledParts'
<1>. USE DEF UnkilledInv, BranchInv, TypeOK, ProcOK, GitOK
<1>1. step[t] \in {"commit", "merge", "onmain"}
  BY DEF CommitInWorktree, CommitInPrimary, NothingToCommit, CheckoutMain, FinishMerge
<1>2. /\ Running /\ \A u \in Task : Agreed(u)
      /\ step[t] # "onmain" => FilesInPlace
      /\ step[t] = "commit" => HeadTree = main
      /\ ~run.threads => \A u \in Task : u # t => step[u] = "idle"
  BY <1>1, InHand
<1>3. ~IsDone(mem, t) /\ ~Landed(main.out, t) /\ BranchAgrees(t)
  BY <1>1, <1>2 DEF Agreed
<1>4. step[t] = "commit" => /\ ~IsDone(wd.status, t) /\ ~Landed(wd.out, t)
                            /\ head # "main" => tip[head] = main
  BY <1>2, <1>3 DEF Agreed, HeadTree
<1>5. "main" \notin Task
  BY BranchAssumption
<1>6. CASE CommitInWorktree(t)
  <2>1. /\ step[t] = "commit" /\ run.threads /\ Goto(t, "back")
        /\ mem' = [mem EXCEPT ![t].status = "DONE"] /\ tip' = [tip EXCEPT ![t] = CommitTree(t)]
        /\ CommitTree(t) = [tip[t] EXCEPT !.out[t] = "accepted"]
        /\ UNCHANGED <<wd, main, head, cut, run>>
    BY <1>6 DEF CommitInWorktree, Committed, SetStatus, CommitTree
  <2>2. /\ step'[t] = "back" /\ mem'[t].status = "DONE" /\ tip'[t] = [cut[t] EXCEPT !.out[t] = "accepted"]
        /\ cut[t].out[t] = main.out[t]
    BY <1>3, <2>1 DEF Goto, BranchAgrees
  <2>3. Agreed(t)' /\ BranchAgrees(t)'
    BY <1>3, <1>4, <2>1, <2>2 DEF Agreed, IsDone, BranchAgrees
  <2>4. head # t
    BY <2>1 DEF WorkerOnItsBranch
  <2>5. head' # "main" => tip'[head'] = main'
    BY <1>4, <2>1, <2>4
  <2>. QED BY <2>1, <2>3, <2>5, OneMoves DEF Step
<1>7. CASE CommitInPrimary(t)
  <2>1. /\ step[t] = "commit" /\ ~run.threads /\ Goto(t, "merge")
        /\ CommitTree(t) = [wd EXCEPT !.out[t] = "accepted"] /\ wd' = CommitTree(t)
        /\ tip' = [tip EXCEPT ![t] = CommitTree(t)]
        /\ UNCHANGED <<main, head, cut, mem, run>>
    BY <1>7 DEF CommitInPrimary, Committed, CommitTree
  <2>2. /\ wd'.status = wd.status /\ Landed(wd'.out, t)
        /\ \A u \in Task : u # t => wd'.out[u] = wd.out[u]
    BY <2>1 DEF Tree, Landed
  <2>3. step'[t] = "merge" /\ tip'[t] = wd' /\ head = t /\ cut[t] = main
    BY <1>3, <2>1 DEF Goto, WorkerOnItsBranch, BranchAgrees
  <2>. HIDE DEF CommitTree
  <2>4. Agreed(t)' /\ BranchAgrees(t)'
    BY <1>3, <1>4, <2>1, <2>2, <2>3 DEF Agreed, BranchAgrees
  <2>. QED BY <2>1, <2>2, <2>3, <2>4, OneMoves DEF Step, Landed
<1>8. CASE NothingToCommit(t)
  <2>1. step[t] = "commit" /\ ~run.threads /\ CommitTree(t) = tip[t]
    BY <1>8 DEF NothingToCommit
  <2>2. tip[t] = main
    BY <1>3, <2>1 DEF BranchAgrees
  <2>3. CommitTree(t).out[t] = "accepted"
    BY <2>1 DEF CommitTree, Tree
  <2>. QED BY <1>3, <2>1, <2>2, <2>3 DEF Landed
<1>9. CASE CheckoutMain(t)
  <2>1. step[t] = "merge" /\ ~run.threads /\ cut[t] = main /\ head = t /\ tip[t] = wd /\ FilesInPlace
    BY <1>2, <1>3, <1>9 DEF CheckoutMain, BranchAgrees
  <2>2. OnMain = main
    BY <1>5, <2>1, SwitchedClean DEF OnMain, HeadTree
  <2>3. /\ wd' = main /\ head' = "main" /\ step' = [step EXCEPT ![t] = "onmain"]
        /\ UNCHANGED <<main, tip, cut, mem, run>>
    BY <1>9, <2>2 DEF CheckoutMain, Goto
  <2>4. step'[t] = "onmain" /\ \A u \in Task : u # t => step'[u] = "idle" /\ step[u] = "idle"
    BY <1>2, <2>1, <2>3
  <2>5. ~FilesInPlace'
    BY <2>4 DEF FilesInPlace
  <2>6. ASSUME NEW u \in Task PROVE Agreed(u)'
    <3>1. Agreed(u) /\ (step[u] = "idle" <=> step'[u] = "idle") /\ (u # t => step'[u] = step[u])
      BY <1>2, <2>1, <2>4
    <3>2. ~Landed(main.out, t) /\ ~IsDone(mem, t)
      BY <1>3
    <3>. QED BY <2>1, <2>3, <2>4, <2>5, <3>1, <3>2 DEF Agreed
  <2>7. \A u \in Task : /\ Landed(wd.out, u) <=> u = t \/ Landed(main.out, u)
                        /\ IsDone(wd.status, u) <=> Landed(main.out, u)
    BY <1>2, <1>3, <2>1, <2>4 DEF Agreed
  <2>8. \A u \in Task : BranchAgrees(u)'
    BY <2>1, <2>3, <2>4, <2>7 DEF BranchAgrees
  <2>9. \A u \in Task : step'[u] \in {"approved", "declined", "raised"} => run.threads
    BY <2>4
  <2>. QED BY <1>2, <2>3, <2>6, <2>8, <2>9 DEF UnkilledParts, Running
<1>10. CASE FinishMerge(t)
  <2>1. /\ step[t] = "onmain" /\ ~run.threads /\ cut[t] = main /\ head = "main" /\ wd = main
        /\ \A u \in Task : /\ Landed(tip[t].out, u) <=> u = t \/ Landed(main.out, u)
                           /\ IsDone(tip[t].status, u) <=> Landed(main.out, u)
    BY <1>3, <1>10 DEF FinishMerge, BranchAgrees
  <2>2. OnMain = main
    BY <2>1, SwitchedSame DEF OnMain, HeadTree
  <2>3. Merged(cut[t], main, tip[t]) = tip[t]
    BY <2>1, SwitchedClean DEF Merged
  <2>4. Switched(main, tip[t], main) = tip[t]
    BY SwitchedClean
  <2>5. /\ wd' = tip[t] /\ main' = tip[t] /\ head' = "main" /\ step' = [step EXCEPT ![t] = "back"]
        /\ mem' = [mem EXCEPT ![t].status = "DONE"] /\ run' = run
    BY <1>10, <2>2, <2>3, <2>4 DEF FinishMerge, MergeBranch, Goto, SetStatus
  <2>6. step'[t] = "back" /\ \A u \in Task : u # t => step'[u] = "idle" /\ step[u] = "idle"
    BY <1>2, <2>1, <2>5
  <2>7. \A u \in Task : IsDone(mem', u) <=> u = t \/ IsDone(mem, u)
    BY <2>5 DEF IsDone, Record
  <2>8. ASSUME NEW u \in Task PROVE Agreed(u)'
    <3>1. Agreed(u) /\ (IsDone(mem, u) <=> Landed(main.out, u))
      BY <1>2, <2>1 DEF Agreed
    <3>2. Landed(main'.out, u) <=> u = t \/ Landed(main.out, u)
      BY <2>1, <2>5
    <3>3. IsDone(wd'.status, u) <=> Landed(main.out, u)
      BY <2>1, <2>5
    <3>4. CASE u = t
      BY <2>1, <2>5, <2>6, <2>7, <3>2, <3>4 DEF Agreed
    <3>5. CASE u # t
      <4>1. step'[u] = "idle" /\ step[u] = "idle"
        BY <2>6, <3>5
      <4>. QED BY <2>1, <2>5, <2>7, <3>1, <3>2, <3>3, <3>5, <4>1 DEF Agreed
    <3>. QED BY <3>4, <3>5
  <2>9. \A u \in Task : BranchAgrees(u)'
    BY <2>1, <2>5, <2>6 DEF BranchAgrees
  <2>10. \A u \in Task : step'[u] \in {"approved", "declined", "raised"} => run.threads
    BY <2>6
  <2>. QED BY <1>2, <2>5, <2>8, <2>9, <2>10 DEF UnkilledParts, Running
<1>. QED BY <1>6, <1>7, <1>8, <1>9, <1>10

\* A branch with one accepted output more is merged by adding that output.
LEMMA MergeAddsOne ==
    ASSUME NEW base \in Tree, NEW ours \in Tree, NEW here \in Tree, NEW t \in Task, NEW theirs,
           theirs = [base EXCEPT !.out[t] = "accepted"],
           base.out[t] = ours.out[t], ~Landed(ours.out, t)
    PROVE  /\ Merged(base, ours, theirs) = [ours EXCEPT !.out[t] = "accepted"]
           /\ Switched(ours, [ours EXCEPT !.out[t] = "accepted"], here)
                = [here EXCEPT !.out[t] = "accepted"]
<1>. DEFINE merged == [ours EXCEPT !.out[t] = "accepted"]
            after == [here EXCEPT !.out[t] = "accepted"]
<1>1. /\ theirs.state = base.state /\ theirs.docs = base.docs /\ theirs.status = base.status
      /\ theirs.out[t] = "accepted" /\ \A u \in Task : u # t => theirs.out[u] = base.out[u]
  BY DEF Tree
<1>2. /\ merged \in Tree
      /\ merged.state = ours.state /\ merged.docs = ours.docs /\ merged.status = ours.status
      /\ merged.out[t] = "accepted" /\ \A u \in Task : u # t => merged.out[u] = ours.out[u]
  BY DEF Tree, Output
<1>3. /\ after \in Tree
      /\ after.state = here.state /\ after.docs = here.docs /\ after.status = here.status
      /\ after.out[t] = "accepted" /\ \A u \in Task : u # t => after.out[u] = here.out[u]
  BY DEF Tree, Output
<1>. HIDE DEF merged, after
<1>4. [u \in Task |-> Carry(base.out[u], theirs.out[u], ours.out[u])] = merged.out
  <2>1. \A u \in Task : Carry(base.out[u], theirs.out[u], ours.out[u]) = merged.out[u]
    BY <1>1, <1>2 DEF Carry, Landed
  <2>2. merged.out = [u \in Task |-> merged.out[u]]
    BY <1>2 DEF Tree
  <2>. QED BY <2>1, <2>2
<1>5. Merged(base, ours, theirs) = merged
  BY <1>1, <1>2, <1>4 DEF Merged, Switched, Carry, Tree
<1>6. [u \in Task |-> Carry(ours.out[u], merged.out[u], here.out[u])] = after.out
  <2>1. \A u \in Task : Carry(ours.out[u], merged.out[u], here.out[u]) = after.out[u]
    BY <1>2, <1>3 DEF Carry, Landed
  <2>2. after.out = [u \in Task |-> after.out[u]]
    BY <1>3 DEF Tree
  <2>. QED BY <2>1, <2>2
<1>7. Switched(ours, merged, here) = after
  BY <1>2, <1>3, <1>6 DEF Switched, Carry, Tree
<1>. QED BY <1>5, <1>7 DEF merged, after

\* The coordinator takes the finished futures.
LEMMA UnkilledCollect ==
    ASSUME UnkilledInv, NEW t \in Task,
           CollectUnmerged(t) \/ CollectMerge(t) \/ CollectConflict(t)
    PROVE  UnkilledParts'
<1>. USE DEF UnkilledInv, BranchInv, TypeOK, ProcOK, GitOK
<1>1. step[t] = "back" /\ run.threads
  BY DEF CollectUnmerged, CollectMerge, CollectConflict
<1>2. Running /\ FilesInPlace /\ OnMain = wd /\ HeadTree = main /\ Agreed(t)
  BY <1>1, InHand
<1>3. ~Landed(main.out, t) /\ ~Landed(wd.out, t) /\ (IsDone(wd.status, t) => IsDone(mem, t))
  BY <1>1, <1>2 DEF Agreed
<1>4. head # "main" => tip[head] = main
  BY <1>2 DEF HeadTree
<1>5. IsDone(mem, t) => /\ tip[t] = [cut[t] EXCEPT !.out[t] = "accepted"]
                        /\ cut[t].out[t] = main.out[t] /\ NeedsMerge(t)
  <2>. SUFFICES ASSUME IsDone(mem, t) PROVE /\ tip[t] = [cut[t] EXCEPT !.out[t] = "accepted"]
                                            /\ cut[t].out[t] = main.out[t] /\ NeedsMerge(t)
    OBVIOUS
  <2>1. tip[t] = [cut[t] EXCEPT !.out[t] = "accepted"] /\ cut[t].out[t] = main.out[t]
    BY <1>1 DEF BranchAgrees
  <2>2. tip[t].out[t] = "accepted" /\ cut[t].out[t] # "accepted"
    BY <1>3, <2>1 DEF Tree, Landed
  <2>. QED BY <2>1, <2>2 DEF NeedsMerge, IsDone
<1>6. CASE CollectUnmerged(t)
  <2>1. ~IsDone(mem, t)
    BY <1>5, <1>6 DEF CollectUnmerged
  <2>2. Goto(t, "declined") /\ UNCHANGED <<wd, main, head, tip, cut, mem, run>>
    BY <1>6, <2>1 DEF CollectUnmerged, IsDone, gitVars
  <2>3. step'[t] = "declined"
    BY <2>2 DEF Goto
  <2>4. Agreed(t)' /\ BranchAgrees(t)'
    BY <1>3, <2>1, <2>2, <2>3 DEF Agreed, BranchAgrees
  <2>. QED BY <1>1, <1>4, <2>2, <2>4, OneMoves DEF Step
<1>7. CASE CollectMerge(t)
  <2>1. IsDone(mem, t)
    BY <1>7 DEF CollectMerge, NeedsMerge, IsDone
  <2>2. /\ Merged(cut[t], main, tip[t]) = [main EXCEPT !.out[t] = "accepted"]
        /\ Switched(main, [main EXCEPT !.out[t] = "accepted"], wd) = [wd EXCEPT !.out[t] = "accepted"]
    <3>1. cut[t] \in Tree /\ main \in Tree /\ wd \in Tree /\ cut[t].out[t] = main.out[t]
      BY <1>5, <2>1
    <3>2. tip[t] = [cut[t] EXCEPT !.out[t] = "accepted"]
      BY <1>5, <2>1
    <3>3. ~Landed(main.out, t)
      BY <1>3
    <3>. HIDE DEF UnkilledInv, BranchInv, TypeOK, ProcOK, GitOK
    <3>4. Merged(cut[t], main, tip[t]) = [main EXCEPT !.out[t] = "accepted"]
      BY <3>1, <3>2, <3>3, MergeAddsOne
    <3>5. Switched(main, [main EXCEPT !.out[t] = "accepted"], wd) = [wd EXCEPT !.out[t] = "accepted"]
      BY <3>1, <3>2, <3>3, MergeAddsOne
    <3>. QED BY <3>4, <3>5
  <2>3. /\ main' = [main EXCEPT !.out[t] = "accepted"] /\ wd' = [wd EXCEPT !.out[t] = "accepted"]
        /\ head' = "main" /\ tip' = [tip EXCEPT ![t] = SeedTree] /\ cut' = [cut EXCEPT ![t] = SeedTree]
        /\ Goto(t, "approved") /\ UNCHANGED <<mem, run>>
    BY <1>2, <1>7, <2>2 DEF CollectMerge, MergeBranch, DropBranch
  <2>4. /\ Landed(main'.out, t) /\ Landed(wd'.out, t) /\ wd'.status = wd.status
        /\ \A u \in Task : u # t => main'.out[u] = main.out[u] /\ wd'.out[u] = wd.out[u]
    BY <2>3 DEF Tree, Landed
  <2>5. step'[t] = "approved"
    BY <2>3 DEF Goto
  <2>6. Agreed(t)' /\ BranchAgrees(t)'
    BY <1>1, <2>1, <2>3, <2>4, <2>5 DEF Agreed, BranchAgrees
  <2>. QED BY <1>1, <2>3, <2>4, <2>6, OneMoves DEF Step, Landed
<1>8. CASE CollectConflict(t)
  <2>1. /\ wd' = wd /\ head' \in {head, "main"} /\ mem' = [mem EXCEPT ![t].status = "AWAITING_HITL"]
        /\ Goto(t, "approved") /\ UNCHANGED <<main, tip, cut, run>>
    BY <1>2, <1>8 DEF CollectConflict, SetStatus
  <2>2. step'[t] = "approved" /\ ~IsDone(mem', t)
    BY <2>1 DEF Goto, IsDone, Record
  <2>3. Agreed(t)' /\ BranchAgrees(t)'
    BY <1>3, <2>1, <2>2 DEF Agreed, BranchAgrees
  <2>. QED BY <1>1, <1>4, <2>1, <2>3, OneMoves DEF Step
<1>. QED BY <1>6, <1>7, <1>8

\* A task is over: its record is saved, and the loop goes on without it.
LEMMA UnkilledSave ==
    ASSUME UnkilledInv, NEW t \in Task,
           SaveSequential(t) \/ SaveThreads(t) \/ CollectRaised(t)
    PROVE  UnkilledParts'
<1>. USE DEF UnkilledInv, BranchInv, TypeOK, ProcOK, GitOK
<1>1. /\ step[t] \in {"back", "approved", "declined", "raised"}
      /\ step[t] = "back" => ~run.threads
      /\ step[t] # "back" => run.threads
  BY DEF SaveSequential, SaveThreads, CollectRaised
<1>2. /\ Running /\ FilesInPlace /\ HeadTree = main /\ \A u \in Task : Agreed(u)
      /\ run.threads => \A u \in Task : step[u] \notin {"merge", "onmain"}
      /\ ~run.threads => \A u \in Task : u # t => step[u] = "idle"
  BY <1>1, InHand
<1>3. /\ (IsDone(mem, t) <=> Landed(main.out, t)) /\ (Landed(wd.out, t) <=> Landed(main.out, t))
      /\ step[t] = "raised" => (IsDone(wd.status, t) <=> Landed(main.out, t))
  BY <1>1, <1>2 DEF Agreed
<1>4. head # "main" => tip[head] = main
  BY <1>2 DEF HeadTree
<1>5. UNCHANGED <<main, head, tip, cut, mem>>
  BY DEF SaveSequential, SaveThreads, CollectRaised, gitVars
<1>6. wd'.out = wd.out /\ ((wd' = wd /\ step[t] = "raised") \/ wd'.status = mem)
  BY DEF SaveSequential, SaveThreads, CollectRaised, Tree
<1>7. ASSUME NEW u \in Task, u # t, step'[u] = step[u], run'.threads = run.threads,
             u \in run'.todo => u \in run.todo
      PROVE  Agreed(u)'
  <2>1. Agreed(u) /\ (~run.threads => step[u] = "idle")
    BY <1>2, <1>7
  <2>. QED BY <1>2, <1>5, <1>6, <1>7, <2>1 DEF Agreed
<1>8. ASSUME run'.threads = run.threads, run'.at # "off", run'.todo \subseteq run.todo,
             \A u \in Task : u # t => step'[u] = step[u],
             step'[t] \in {"idle", "begin"}, Agreed(t)'
      PROVE  UnkilledParts'
  <2>1. \A u \in Task : Agreed(u)'
    BY <1>7, <1>8
  <2>2. BranchAgrees(t)'
    BY <1>8 DEF BranchAgrees
  <2>3. \A u \in Task : u # t => BranchAgrees(u)'
    BY <1>1, <1>5, <1>8, SameBranch DEF IsDone
  <2>. QED BY <1>4, <1>5, <1>8, <2>1, <2>2, <2>3 DEF UnkilledParts, Running
<1>9. CASE Goto(t, "begin") /\ run' = run /\ mem[t].status = "PENDING" /\ wd'.status = mem
  <2>1. /\ step'[t] = "begin" /\ (\A u \in Task : u # t => step'[u] = step[u])
        /\ ~Landed(main.out, t) /\ ~IsDone(mem, t)
    BY <1>3, <1>9 DEF Goto, IsDone
  <2>2. Agreed(t)'
    BY <1>3, <1>5, <1>6, <1>9, <2>1 DEF Agreed, IsDone
  <2>. QED BY <1>2, <1>8, <1>9, <2>1, <2>2 DEF Running
<1>10. ASSUME NEW ok \in BOOLEAN, AfterTask(t, ok), Goto(t, "idle") PROVE UnkilledParts'
  <2>. DEFINE rest == run.todo \ {t}
              over == rest = {} \/ (~ok /\ run.stopOnFail /\ ~run.threads)
  <2>1. /\ run'.threads = run.threads /\ run'.todo = IF over THEN {} ELSE rest
        /\ run'.at = IF ~over THEN "tasks" ELSE IF run.kind = "execute" THEN "finish" ELSE "gate"
    BY <1>10 DEF AfterTask, Run
  <2>2. run'.todo \subseteq run.todo \ {t} /\ run'.at # "off"
    BY <2>1
  <2>3. step'[t] = "idle" /\ \A u \in Task : u # t => step'[u] = step[u]
    BY <1>10 DEF Goto
  <2>4. Agreed(t)'
    BY <1>3, <1>5, <1>6, <2>2, <2>3 DEF Agreed, IsDone
  <2>. QED BY <1>8, <2>1, <2>2, <2>3, <2>4
<1>11. CASE SaveSequential(t)
  <2>1. wd'.status = mem
    BY <1>11 DEF SaveSequential, Tree
  <2>. QED BY <1>9, <1>10, <1>11, <2>1 DEF SaveSequential
<1>12. CASE SaveThreads(t) \/ CollectRaised(t)
  BY <1>10, <1>12 DEF SaveThreads, CollectRaised
<1>. QED BY <1>11, <1>12

\* The loop of a command, between the tasks.
LEMMA UnkilledLoop ==
    ASSUME UnkilledInv, Loop
    PROVE  UnkilledParts'
<1>. USE DEF UnkilledInv, BranchInv, TypeOK, ProcOK, GitOK
<1>1. run.at # "tasks" => run.todo = {} /\ \A t \in Task : step[t] = "idle"
  BY DEF TasksInHand
<1>2. ASSUME Running, \A t \in Task : step[t] = "idle"
      PROVE  /\ \A t \in Task : /\ IsDone(mem, t) <=> Landed(main.out, t)
                                /\ IsDone(wd.status, t) <=> Landed(main.out, t)
                                /\ Landed(wd.out, t) <=> Landed(main.out, t)
                                /\ t \in run.todo => ~Landed(main.out, t)
             /\ head # "main" => tip[head] = main
  BY <1>2 DEF Agreed, FilesInPlace
<1>3. ASSUME Running, \A t \in Task : step[t] = "idle" /\ step'[t] \in {"idle", "begin"},
             \A t \in Task : step'[t] = "begin" \/ t \in run'.todo => ~Landed(main.out, t),
             UNCHANGED <<main, head, tip, cut, mem>>,
             wd'.status = wd.status, wd'.out = wd.out, Running'
      PROVE  UnkilledParts'
  <2>1. \A t \in Task : Agreed(t)'
    BY <1>2, <1>3 DEF Agreed
  <2>2. \A t \in Task : BranchAgrees(t)'
    BY <1>3 DEF BranchAgrees
  <2>. QED BY <1>2, <1>3, <2>1, <2>2 DEF UnkilledParts
<1>4. CASE EnterBatch
  <2>. DEFINE pending == {t \in Kept : Open(mem, t)}
              blocked == run.blocked \/ \E t \in Kept : mem[t].status = "AWAITING_HITL"
              threads == run.parallel /\ Cardinality(pending) > 1
              next == run.batch + 1
  <2>1. run.at = "enter" /\ UNCHANGED <<wd, main, head, tip, cut, mem>>
    BY <1>4 DEF EnterBatch, gitVars
  <2>2. \/ step' = step /\ run' = [run EXCEPT !.blocked = TRUE, !.at = "finish"]
        \/ step' = step /\ run' = [run EXCEPT !.blocked = blocked, !.batch = next]
        \/ /\ run' = [run EXCEPT !.blocked = blocked, !.at = "tasks",
                                 !.todo = pending, !.threads = threads]
           /\ step' = IF threads
                      THEN [t \in Task |-> IF t \in pending THEN "begin" ELSE "idle"]
                      ELSE step
    BY <1>4 DEF EnterBatch
  <2>3. Running /\ \A t \in Task : step[t] = "idle"
    BY <1>1, <2>1 DEF Running
  <2>4. \A t \in pending : ~Landed(main.out, t)
    BY <1>2, <2>3 DEF Open, Kept, IsDone
  <2>. HIDE DEF pending, blocked, threads, next
  <2>5. /\ run'.at # "off"
        /\ \A t \in Task : step'[t] \in {"idle", "begin"}
        /\ \A t \in Task : step'[t] = "begin" \/ t \in run'.todo => t \in pending
    <3>1. CASE step' = step /\ run' = [run EXCEPT !.blocked = TRUE, !.at = "finish"]
      BY <1>1, <2>1, <2>3, <3>1 DEF Run
    <3>2. CASE step' = step /\ run' = [run EXCEPT !.blocked = blocked, !.batch = next]
      BY <1>1, <2>1, <2>3, <3>2 DEF Run
    <3>3. CASE /\ run' = [run EXCEPT !.blocked = blocked, !.at = "tasks",
                                     !.todo = pending, !.threads = threads]
               /\ step' = IF threads
                          THEN [t \in Task |-> IF t \in pending THEN "begin" ELSE "idle"]
                          ELSE step
      <4>1. run'.at = "tasks" /\ run'.todo = pending
        BY <3>3 DEF Run
      <4>. QED BY <2>3, <3>3, <4>1
    <3>. QED BY <2>2, <3>1, <3>2, <3>3
  <2>6. Running'
    BY <2>5 DEF Running
  <2>. QED BY <1>3, <2>1, <2>3, <2>4, <2>5, <2>6
<1>5. CASE LastBatchDone \/ BudgetGate \/ NextBatch
  <2>1. run.at # "tasks" /\ Running /\ step' = step /\ UNCHANGED <<main, head, tip, cut, mem>>
    BY <1>5 DEF LastBatchDone, BudgetGate, NextBatch, gitVars, Running
  <2>2. wd'.status = wd.status /\ wd'.out = wd.out
    BY <1>5 DEF LastBatchDone, BudgetGate, NextBatch, Tree
  <2>3. run'.todo = run.todo /\ run'.at # "off"
    <3>1. CASE LastBatchDone
      BY <3>1 DEF LastBatchDone, Run
    <3>2. CASE BudgetGate
      BY <3>2 DEF BudgetGate, Run
    <3>3. CASE NextBatch
      <4>. DEFINE next == run.batch + 1
      <4>1. \/ run' = [run EXCEPT !.at = "finish"]
            \/ run' = [run EXCEPT !.at = "enter", !.batch = next, !.threads = FALSE]
        BY <3>3 DEF NextBatch
      <4>. HIDE DEF next
      <4>. QED BY <4>1 DEF Run
    <3>. QED BY <1>5, <3>1, <3>2, <3>3
  <2>. QED BY <1>1, <1>3, <2>1, <2>2, <2>3 DEF Running
<1>6. CASE Finish
  <2>1. /\ run.at = "finish" /\ ~Running' /\ step' = step /\ UNCHANGED <<main, head, tip, cut>>
        /\ wd'.status = wd.status /\ wd'.out = wd.out
    BY <1>6 DEF Finish, gitVars, Running, NoRun, Tree
  <2>2. \A t \in Task : BranchAgrees(t)'
    BY <1>1, <2>1 DEF BranchAgrees
  <2>. QED BY <1>1, <1>2, <2>1, <2>2 DEF UnkilledParts, Running
<1>7. ASSUME NEW t \in Task, PickTask(t) PROVE UnkilledParts'
  <2>1. /\ run.at = "tasks" /\ t \in run.todo /\ run' = run /\ UNCHANGED <<wd, main, head, tip, cut, mem>>
        /\ \A u \in Task : step[u] = "idle"
        /\ step' = [step EXCEPT ![t] = "begin"]
    BY <1>7 DEF PickTask, NoActive, AllIdle, Goto, gitVars
  <2>. QED BY <1>2, <1>3, <2>1 DEF Running
<1>. QED BY <1>4, <1>5, <1>6, <1>7, UnkilledCollect, UnkilledSave DEF Loop

\* Starting a command, and the operator.
LEMMA UnkilledRest ==
    ASSUME UnkilledInv, Commands \/ Operator
    PROVE  UnkilledParts'
<1>. USE DEF UnkilledInv, BranchInv, TypeOK, ProcOK, GitOK
<1>1. ~Running => /\ \A t \in Task : /\ step[t] = "idle" /\ t \notin run.todo
                                     /\ IsDone(wd.status, t) <=> Landed(main.out, t)
                                     /\ Landed(wd.out, t) <=> Landed(main.out, t)
                  /\ head # "main" => tip[head] = main
  BY DEF TasksInHand, Running
<1>2. ASSUME ~Running, wd'.out = wd.out, \A t \in Task : IsDone(wd'.status, t) <=> IsDone(wd.status, t),
             UNCHANGED <<main, head, tip, cut, step, run>>
      PROVE  UnkilledParts'
  BY <1>1, <1>2 DEF UnkilledParts, BranchAgrees, Running
<1>3. \A x : [wd EXCEPT !.state = x].status = wd.status /\ [wd EXCEPT !.state = x].out = wd.out
  BY DEF Tree
<1>4. CASE OpenSchemaGate \/ Advance
  BY <1>2, <1>3, <1>4 DEF OpenSchemaGate, Advance, Loadable, gitVars, procVars
<1>5. CASE AbortMerge \/ RaiseCap
  BY <1>2, <1>5 DEF AbortMerge, RaiseCap, gitVars, procVars
<1>6. ASSUME NEW t \in Task, ResetRecord(t) PROVE UnkilledParts'
  <2>1. /\ wd.status[t].status = "AWAITING_HITL" /\ wd'.status = [wd.status EXCEPT ![t] = FreshRecord]
        /\ wd'.out = wd.out
    BY <1>6 DEF ResetRecord, Tree
  <2>2. \A u \in Task : IsDone(wd'.status, u) <=> IsDone(wd.status, u)
    BY <2>1 DEF IsDone, FreshRecord, Tree
  <2>. QED BY <1>2, <1>6, <2>1, <2>2 DEF ResetRecord, gitVars, procVars
<1>7. ASSUME NEW t \in Task, ExecuteOverBudget(t) PROVE UnkilledParts'
  BY <1>2, <1>3, <1>7 DEF ExecuteOverBudget, Loadable, gitVars, procVars
<1>8. ASSUME NEW r, Load(r), ~Running, r.at # "off",
             \A t \in Task : step'[t] = "idle" \/ (step'[t] = "begin" /\ ~IsDone(wd.status, t)),
             \A t \in Task : t \in r.todo => ~IsDone(wd.status, t)
      PROVE  UnkilledParts'
  <2>1. /\ mem' = wd.status /\ wd'.status = wd.status /\ wd'.out = wd.out /\ run' = r
        /\ UNCHANGED <<main, head, tip, cut>>
    BY <1>3, <1>8 DEF Load, gitVars
  <2>2. \A t \in Task : Agreed(t)'
    BY <1>1, <1>8, <2>1 DEF Agreed
  <2>3. \A t \in Task : BranchAgrees(t)'
    BY <1>8 DEF BranchAgrees
  <2>. QED BY <1>1, <1>8, <2>1, <2>2, <2>3 DEF UnkilledParts, Running
<1>9. ASSUME NEW m \in Modes, StartRunAll(m) PROVE UnkilledParts'
  <2>. DEFINE r == [NoRun EXCEPT !.at = "enter", !.kind = "run_all", !.batch = 1,
                                 !.parallel = m.parallel, !.stopOnFail = m.stopOnFail,
                                 !.phase = m.phase]
  <2>1. r.at # "off" /\ r.todo = {}
    BY DEF NoRun
  <2>2. Load(r) /\ ~Running /\ step' = step
    BY <1>9 DEF StartRunAll, Loadable
  <2>. HIDE DEF r
  <2>. QED BY <1>1, <1>8, <2>1, <2>2
<1>10. ASSUME NEW t \in Task, NEW signed \in BOOLEAN, StartExecute(t, signed) PROVE UnkilledParts'
  <2>. DEFINE r == [NoRun EXCEPT !.at = "tasks", !.kind = "execute", !.todo = {t}, !.signed = signed]
  <2>1. r.at # "off" /\ r.todo = {t}
    BY DEF NoRun
  <2>2. Load(r) /\ ~Running /\ step' = [step EXCEPT ![t] = "begin"]
    BY <1>10 DEF StartExecute, Loadable, Goto
  <2>3. ~IsDone(wd.status, t)
    BY <1>10 DEF StartExecute, Executable, Open, IsDone
  <2>. HIDE DEF r
  <2>. QED BY <1>1, <1>8, <2>1, <2>2, <2>3
<1>. QED BY <1>4, <1>5, <1>6, <1>7, <1>9, <1>10 DEF Commands, Operator

LEMMA UnkilledNext ==
    ASSUME MaxKills = 0, UnkilledInv, [Next]_vars
    PROVE  UnkilledInv'
<1>1. BranchInv'
  BY BranchNext DEF UnkilledInv
<1>2. CASE Next
  <2>1. ~Kill
    BY DEF Kill, UnkilledInv, BranchInv, TypeOK, Past
  <2>2. UnkilledParts'
    BY <1>2, <2>1, UnkilledWork, UnkilledCommit, UnkilledLoop, UnkilledRest
       DEF Next, Command, ExecuteTask, Fault
  <2>. QED BY <1>1, <2>2 DEF UnkilledParts, UnkilledInv
<1>3. CASE UNCHANGED vars
  BY <1>1, <1>3 DEF vars, gitVars, procVars, UnkilledInv, Agreed, FilesInPlace, BranchAgrees, Running
<1>. QED BY <1>2, <1>3

LEMMA UnkilledInit == Init => UnkilledInv
<1>1. Init => UnkilledParts
  BY DEF Init, UnkilledParts, BranchAgrees, Running, NoRun, AllIdle, SeedTree, FreshRecord,
         IsDone, Landed
<1>. QED BY <1>1, BranchInit DEF UnkilledParts, UnkilledInv

\* Between commands a record on disk says DONE exactly if the output of its task is on
\* main: in worktrees too, through conflicts, exceptions and refused branches, as long
\* as no command is killed.  (After a kill it need not be: TaskRunner_unmerged.)
THEOREM UnkilledDoneIsOnMain ==
    ASSUME MaxKills = 0 PROVE Spec => []DoneIsOnMainAtRest
<1>1. UnkilledInv /\ [Next]_vars => UnkilledInv'
  BY UnkilledNext
<1>2. UnkilledInv => DoneIsOnMainAtRest
  BY DEF UnkilledInv, IsDone, Landed, DoneIsOnMainAtRest, DoneIsOnMain
<1>. QED BY <1>1, <1>2, UnkilledInit, PTL DEF Spec

\* The same of a finished project: the batches of worktrees included.
THEOREM UnkilledFinishedHasLanded ==
    ASSUME MaxKills = 0, NoMoveToDone PROVE Spec => []FinishedMeansLanded
<1>. DEFINE I == UnkilledInv /\ NotDoneYet
<1>1. Init => I
  BY UnkilledInit, StateInit
<1>2. I /\ [Next]_vars => I'
  <2>. SUFFICES ASSUME I, [Next]_vars PROVE I'
    OBVIOUS
  <2>1. run.at = "finish" /\ AllDone(mem) => AllDone(wd.status)
    <3>. SUFFICES ASSUME run.at = "finish", AllDone(mem), NEW t \in Task PROVE IsDone(wd.status, t)
      BY DEF AllDone, IsDone
    <3>1. Running /\ \A u \in Task : step[u] = "idle"
      BY DEF UnkilledInv, BranchInv, TasksInHand, Running
    <3>2. Agreed(t) /\ IsDone(mem, t)
      BY <3>1 DEF UnkilledInv, AllDone, IsDone
    <3>. QED BY <3>1, <3>2 DEF Agreed, FilesInPlace
  <2>2. BranchInv
    BY DEF UnkilledInv
  <2>. QED BY <2>1, <2>2, UnkilledNext, StateNext
<1>3. I => FinishedMeansLanded
  BY DEF UnkilledInv, NotDoneYet, AllDone, IsDone, Landed, FinishedMeansLanded
<1>. QED BY <1>1, <1>2, <1>3, PTL DEF Spec
------------------------------------------------------------------------------
(* The executor implements the ledger                                      *)

\* No rule of the state machine takes a project from or to `done` while it is executed.
NoMoveOfDone == \A m \in Moves : m[1] # "done" /\ m[2] # "done"

Awaiting(records) == {t \in Task : records[t].status = "AWAITING_HITL"}
Accepted(tree) == {t \in Task : Landed(tree.out, t)}

LEMMA HeldIs == Held = IF Running THEN Awaiting(mem) ELSE Awaiting(wd.status)
BY DEF Held, Awaiting

LEMMA HeldIsNext == Held' = IF Running' THEN Awaiting(mem') ELSE Awaiting(wd'.status)
BY DEF Held, Awaiting

LEMMA LedgerVars ==
    /\ Ledger!ledger = <<Accepted(main), Held, wd.state = "done">>
    /\ Ledger!ledger' = <<Accepted(main'), Held', wd'.state = "done">>
BY DEF Ledger!ledger, Accepted, Landed

LEMMA UnderWayNext ==
    ASSUME DoneInv, UnderWay, [Next]_vars
    PROVE  UnderWay'
<1>. USE DEF DoneInv, TypeOK, ProcOK
<1>1. ~run.threads
  BY DEF OneAtATime
<1>2. ASSUME \A t \in Task : step'[t] \in {"idle", "begin", "back"} PROVE UnderWay'
  BY <1>2 DEF UnderWay
<1>3. ASSUME UNCHANGED <<step, mem>> PROVE UnderWay'
  BY <1>3 DEF UnderWay
<1>4. ASSUME NEW t \in Task, ExecuteTask(t) PROVE UnderWay'
  <2>1. \A u \in Task : u # t => step[u] = "idle"
    BY <1>4 DEF ExecuteTask, Begin, BeginRefused, Work, WorkerRejected, Reject, Escalate, Approve,
         CommitInWorktree, CommitInPrimary, NothingToCommit, CheckoutMain, FinishMerge, OneAtATime
  <2>2. CASE BeginRefused(t)
    BY <1>1, <1>2, <2>2 DEF BeginRefused, Escape, AllIdle
  <2>3. ASSUME NEW x \in Step, Goto(t, x),
               x \in {"idle", "begin", "back"} \/ mem'[t].status = "IN_PROGRESS"
        PROVE  UnderWay'
    <3>1. \A u \in Task : u # t => step'[u] = "idle"
      BY <2>1, <2>3 DEF Goto
    <3>2. step'[t] = x
      BY <2>3 DEF Goto
    <3>. QED BY <2>3, <3>1, <3>2 DEF UnderWay
  <2>4. CASE Begin(t)
    <3>1. mem'[t].status = "IN_PROGRESS"
      BY <2>4 DEF Begin, CountAttempt, Record
    <3>. QED BY <2>3, <2>4, <3>1 DEF Begin, Step
  <2>5. CASE Work(t) \/ Approve(t) \/ CommitInPrimary(t) \/ CheckoutMain(t)
    <3>1. mem'[t].status = "IN_PROGRESS"
      BY <2>5 DEF Work, Approve, CommitInPrimary, CheckoutMain, UnderWay
    <3>. QED BY <2>3, <2>5, <3>1 DEF Work, Approve, CommitInPrimary, CheckoutMain, Step
  <2>6. CASE WorkerRejected(t) \/ Reject(t) \/ Escalate(t) \/ CommitInWorktree(t)
             \/ NothingToCommit(t) \/ FinishMerge(t)
    BY <2>3, <2>6 DEF WorkerRejected, Reject, Escalate, CommitInWorktree, NothingToCommit,
                      FinishMerge, Step
  <2>. QED BY <1>4, <2>2, <2>4, <2>5, <2>6 DEF ExecuteTask
<1>5. CASE EnterBatch \/ LastBatchDone \/ BudgetGate \/ NextBatch \/ Finish
  <2>1. \A t \in Task : step[t] = "idle"
    BY <1>5 DEF EnterBatch, LastBatchDone, BudgetGate, NextBatch, Finish, OneAtATime
  <2>2. \A t \in Task : step'[t] \in {"idle", "begin"}
    BY <1>5, <2>1 DEF EnterBatch, LastBatchDone, BudgetGate, NextBatch, Finish
  <2>. QED BY <1>2, <2>2
<1>6. ASSUME NEW t \in Task, PickTask(t) \/ SaveSequential(t) PROVE UnderWay'
  <2>1. mem' = mem /\ \E x \in {"idle", "begin"} : Goto(t, x)
    BY <1>6 DEF PickTask, SaveSequential
  <2>. QED BY <2>1 DEF UnderWay, Goto
<1>7. ASSUME NEW t \in Task,
             \/ CollectUnmerged(t) \/ CollectMerge(t) \/ CollectConflict(t)
             \/ SaveThreads(t) \/ CollectRaised(t) \/ Raise(t)
      PROVE  FALSE
  BY <1>1, <1>7 DEF CollectUnmerged, CollectMerge, CollectConflict, SaveThreads,
                    CollectRaised, Raise, OneAtATime
<1>8. CASE Kill
  BY <1>2, <1>8 DEF Kill, AllIdle
<1>9. CASE Operator \/ OpenSchemaGate \/ UNCHANGED vars
  BY <1>3, <1>9 DEF Operator, Advance, AbortMerge, RaiseCap, ResetRecord, OpenSchemaGate, vars, procVars
<1>10. ASSUME NEW t \in Task, ExecuteOverBudget(t) PROVE UnderWay'
  BY <1>3, <1>10 DEF ExecuteOverBudget, procVars
<1>11. ASSUME ~Running, \A t \in Task : step'[t] = step[t] \/ step'[t] = "begin" PROVE UnderWay'
  BY <1>2, <1>11 DEF OneAtATime, Running
<1>12. ASSUME NEW m \in Modes, StartRunAll(m) PROVE UnderWay'
  BY <1>11, <1>12 DEF StartRunAll, Loadable
<1>13. ASSUME NEW t \in Task, NEW signed \in BOOLEAN, StartExecute(t, signed) PROVE UnderWay'
  BY <1>11, <1>13 DEF StartExecute, Loadable, Goto
<1>. QED
  BY <1>4, <1>5, <1>6, <1>7, <1>8, <1>9, <1>10, <1>12, <1>13
     DEF Next, Command, Loop, Commands, Fault

LEMMA LedgerInit == Init => LedgerInv /\ Ledger!LedgerInit
<1>. SUFFICES ASSUME Init PROVE LedgerInv /\ Ledger!LedgerInit
  OBVIOUS
<1>1. FilesSaved /\ UnderWay
  BY DEF Init, FilesSaved, UnderWay, Running, NoRun, AllIdle
<1>2. main = SeedTree /\ wd.status = SeedTree.status /\ wd.state = "tasks_ready" /\ ~Running
  BY DEF Init, SeedTree, Running, NoRun
<1>3. Accepted(main) = {} /\ Awaiting(wd.status) = {}
  BY <1>2 DEF SeedTree, FreshRecord, Accepted, Awaiting, Landed
<1>4. Held = {}
  BY <1>2, <1>3, HeldIs
<1>. QED BY <1>1, <1>2, <1>3, <1>4, OrderInit, UnkilledInit, StateInit
         DEF LedgerInv, Ledger!LedgerInit, Accepted, Landed

LEMMA LedgerInvNext ==
    ASSUME SequentialModes, PhasesClosed, MaxKills = 0, NoMoveOfDone, LedgerInv, [Next]_vars
    PROVE  LedgerInv'
<1>1. OrderInv' /\ UnkilledInv'
  BY OrderNext, UnkilledNext DEF LedgerInv
<1>2. DoneInv /\ BranchInv
  BY DEF LedgerInv, OrderInv
<1>3. FilesSaved' /\ UnderWay'
  BY <1>2, SavedNext, UnderWayNext DEF LedgerInv
<1>4. run.at = "finish" /\ AllDone(mem) => AllDone(wd.status)
  BY <1>2 DEF LedgerInv, FilesSaved, Running, DoneInv, OneAtATime, AllDone
<1>5. NoMoveToDone
  BY DEF NoMoveOfDone, NoMoveToDone
<1>6. NotDoneYet'
  BY <1>2, <1>4, <1>5, StateNext DEF LedgerInv
<1>. QED BY <1>1, <1>3, <1>6 DEF LedgerInv
\* The moves of the ledger, as the executor makes them.
LEMMA LedgerStays ==
    ASSUME Accepted(main') = Accepted(main), Held' = Held,
           wd'.state = "done" <=> wd.state = "done"
    PROVE  UNCHANGED Ledger!ledger
<1>1. (wd'.state = "done") = (wd.state = "done")
  OBVIOUS
<1>. QED BY <1>1, LedgerVars

\* A step of a running command that lands nothing and writes at most one record.
LEMMA LedgerOfRecord ==
    ASSUME LedgerInv, NotDoneYet', Running, Running', Accepted(main') = Accepted(main),
           NEW t \in Task, \A u \in Task : u # t => mem'[u] = mem[u],
           mem'[t].status = "AWAITING_HITL" => mem[t].status = "AWAITING_HITL" \/ ~Landed(main.out, t)
    PROVE  [Ledger!LedgerNext]_(Ledger!ledger)
<1>1. wd.state # "done" /\ wd'.state # "done"
  BY DEF LedgerInv, NotDoneYet
<1>2. Held = Awaiting(mem) /\ Held' = Awaiting(mem')
  BY HeldIs, HeldIsNext
<1>3. {u \in Task : main'.out[u] = "accepted"} = {u \in Task : main.out[u] = "accepted"}
  BY DEF Accepted, Landed
<1>4. CASE mem'[t].status = "AWAITING_HITL" /\ mem[t].status # "AWAITING_HITL"
  <2>1. Held' = Held \union {t}
    BY <1>2, <1>4 DEF Awaiting
  <2>2. t \notin {u \in Task : main.out[u] = "accepted"}
    BY <1>4 DEF Landed
  <2>3. Ledger!Hold(t)
    BY <1>1, <1>3, <2>1, <2>2 DEF Ledger!Hold
  <2>. QED BY <2>3 DEF Ledger!LedgerNext
<1>5. CASE mem'[t].status # "AWAITING_HITL" \/ mem[t].status = "AWAITING_HITL"
  <2>1. Held' = IF mem'[t].status = "AWAITING_HITL" THEN Held ELSE Held \ {t}
    BY <1>2, <1>5 DEF Awaiting
  <2>2. CASE mem'[t].status = "AWAITING_HITL"
    BY <1>1, <2>1, <2>2, LedgerStays
  <2>3. CASE mem'[t].status # "AWAITING_HITL"
    <3>1. Ledger!Release(t)
      BY <1>1, <1>3, <2>1, <2>3 DEF Ledger!Release
    <3>. QED BY <3>1 DEF Ledger!LedgerNext
  <2>. QED BY <2>2, <2>3
<1>. QED BY <1>4, <1>5

\* A step of a running command that lands nothing and writes no record.
LEMMA LedgerOfQuietStep ==
    ASSUME LedgerInv, NotDoneYet', Running, Running', main' = main, mem' = mem
    PROVE  UNCHANGED Ledger!ledger
<1>1. wd.state # "done" /\ wd'.state # "done"
  BY DEF LedgerInv, NotDoneYet
<1>2. Held' = Held
  BY HeldIs, HeldIsNext
<1>. QED BY <1>1, <1>2, LedgerStays

LEMMA LedgerOfMerge ==
    ASSUME LedgerInv, NotDoneYet', \A m \in Modes : m.stopOnFail, NEW t \in Task, FinishMerge(t)
    PROVE  Ledger!Land(t)
<1>1. BranchInv /\ UnkilledInv /\ TypeOK /\ step[t] = "onmain"
  BY DEF LedgerInv, UnkilledInv, BranchInv, FinishMerge
<1>2. Running /\ Running' /\ Agreed(t) /\ BranchAgrees(t)
  BY <1>1, InHand DEF UnkilledInv, FinishMerge, Running
<1>3. wd.state # "done" /\ wd'.state # "done"
  BY <1>2 DEF LedgerInv, NotDoneYet
<1>4. main' = tip[t]
  <2>1. cut[t] = main /\ main \in Tree /\ tip[t] \in Tree
    BY <1>1, <1>2 DEF BranchAgrees, TypeOK, GitOK
  <2>2. main' = Merged(cut[t], main, tip[t])
    BY DEF FinishMerge, MergeBranch
  <2>. QED BY <2>1, <2>2, SwitchedClean DEF Merged
<1>5. \A u \in Task : Landed(main'.out, u) <=> u = t \/ Landed(main.out, u)
  BY <1>1, <1>2, <1>4 DEF BranchAgrees
<1>6. ~Landed(main.out, t)
  BY <1>1, <1>2 DEF Agreed
<1>7. {u \in Task : main'.out[u] = "accepted"} = {u \in Task : main.out[u] = "accepted"} \union {t}
  BY <1>5 DEF Landed
<1>8. Held = Awaiting(mem) /\ Held' = Awaiting(mem')
  BY <1>2, HeldIs, HeldIsNext
<1>9. mem[t].status = "IN_PROGRESS"
  BY <1>1 DEF LedgerInv, UnderWay
<1>10. Held' = Held /\ t \notin Held
  BY <1>1, <1>8, <1>9 DEF Awaiting, FinishMerge, SetStatus, TypeOK, ProcOK
<1>11. Deps[t] \subseteq {u \in Task : main.out[u] = "accepted"}
  BY <1>1, OrderGivesDependencies, DagAssumption DEF LedgerInv, DependencyOrder
<1>12. t \notin {u \in Task : main.out[u] = "accepted"} \union Held
  BY <1>6, <1>10 DEF Landed
<1>. QED BY <1>3, <1>7, <1>10, <1>11, <1>12 DEF Ledger!Land
LEMMA LedgerOfExecuteTask ==
    ASSUME LedgerInv, NotDoneYet', \A m \in Modes : m.stopOnFail, NEW t \in Task, ExecuteTask(t)
    PROVE  [Ledger!LedgerNext]_(Ledger!ledger)
<1>1. BranchInv /\ UnkilledInv /\ DoneInv /\ TypeOK /\ step[t] # "idle"
  BY DEF LedgerInv, OrderInv, UnkilledInv, BranchInv, ExecuteTask, Begin, BeginRefused, Work, WorkerRejected,
         Reject, Escalate, Approve, CommitInWorktree, CommitInPrimary, NothingToCommit,
         CheckoutMain, FinishMerge
<1>2. Running /\ ~run.threads /\ Agreed(t)
  BY <1>1, InHand DEF DoneInv, OneAtATime
<1>3. CASE BeginRefused(t)
  <2>1. run' = NoRun /\ main' = main /\ step[t] = "begin"
        /\ (wd' = OnMain \/ wd' = wd)
    BY <1>2, <1>3 DEF BeginRefused, Escape
  <2>2. OnMain = wd
    BY <1>1, <2>1, InHand
  <2>3. mem = wd.status
    BY <1>1, <1>2, <2>1 DEF LedgerInv, FilesSaved, DoneInv, OneAtATime
  <2>4. ~Running'
    BY <2>1 DEF Running, NoRun
  <2>5. Held' = Held
    BY <1>2, <2>1, <2>2, <2>3, <2>4, HeldIs, HeldIsNext
  <2>. QED BY <2>1, <2>2, <2>5, LedgerStays
<1>4. CASE FinishMerge(t)
  BY <1>4, LedgerOfMerge DEF Ledger!LedgerNext
<1>5. CASE Begin(t) \/ WorkerRejected(t) \/ Reject(t) \/ Escalate(t) \/ NothingToCommit(t)
  <2>1. main' = main /\ run' = run /\ \A u \in Task : u # t => mem'[u] = mem[u]
    BY <1>1, <1>2, <1>5 DEF Begin, StartBranch, WorkerRejected, Reject, Escalate, CleanUp, SoftReject,
                            NothingToCommit, Committed, SetStatus, TypeOK, ProcOK
  <2>2. ~Landed(main.out, t)
    BY <1>1, <1>2, <1>5 DEF Agreed, Begin, WorkerRejected, Reject, Escalate, NothingToCommit
  <2>. QED BY <1>2, <2>1, <2>2, LedgerOfRecord DEF Running
<1>6. CASE Work(t) \/ Approve(t) \/ CommitInPrimary(t) \/ CheckoutMain(t)
  <2>1. main' = main /\ run' = run /\ mem' = mem
    BY <1>6 DEF Work, Approve, CommitInPrimary, Committed, CheckoutMain, gitVars
  <2>. QED BY <1>2, <2>1, LedgerOfQuietStep DEF Running
<1>. QED BY <1>2, <1>3, <1>4, <1>5, <1>6 DEF ExecuteTask, CommitInWorktree

LEMMA LedgerOfLoop ==
    ASSUME LedgerInv, NotDoneYet', Loop
    PROVE  [Ledger!LedgerNext]_(Ledger!ledger)
<1>1. DoneInv /\ TypeOK /\ ~run.threads
  BY DEF LedgerInv, OrderInv, DoneInv, OneAtATime
<1>2. CASE Finish
  <2>1. /\ Running /\ ~Running' /\ main' = main /\ \A t \in Task : step[t] = "idle"
        /\ wd' = IF AllDone(mem) /\ proj = "executing" THEN [wd EXCEPT !.state = "done"] ELSE wd
    BY <1>1, <1>2 DEF Finish, Running, NoRun, gitVars, DoneInv, OneAtATime
  <2>2. mem = wd.status /\ wd'.status = wd.status
    BY <1>1, <2>1 DEF LedgerInv, FilesSaved, TypeOK, GitOK, Tree
  <2>3. Held' = Held
    BY <2>1, <2>2, HeldIs, HeldIsNext
  <2>4. wd.state # "done"
    BY <2>1 DEF LedgerInv, NotDoneYet
  <2>5. CASE AllDone(mem) /\ proj = "executing"
    <3>1. wd'.state = "done"
      BY <1>1, <2>1, <2>5 DEF TypeOK, GitOK, Tree
    <3>2. \A t \in Task : main.out[t] = "accepted"
      BY <1>1, <2>1, <2>5 DEF DoneInv, FilesBehind, DoneIn, AllDone
    <3>3. {t \in Task : main.out[t] = "accepted"} = Task
      BY <3>2
    <3>4. Ledger!FinishProject
      BY <2>1, <2>3, <3>1, <3>3 DEF Ledger!FinishProject
    <3>. QED BY <3>4 DEF Ledger!LedgerNext
  <2>6. CASE ~(AllDone(mem) /\ proj = "executing")
    BY <2>1, <2>3, <2>6, LedgerStays
  <2>. QED BY <2>5, <2>6
<1>3. ASSUME main' = main, mem' = mem, Running, Running' PROVE UNCHANGED Ledger!ledger
  BY <1>3, LedgerOfQuietStep
<1>4. CASE EnterBatch \/ LastBatchDone \/ BudgetGate \/ NextBatch
  <2>1. main' = main /\ mem' = mem /\ Running
    BY <1>4 DEF EnterBatch, LastBatchDone, BudgetGate, NextBatch, gitVars, Running
  <2>2. run'.at # "off"
    BY <1>1, <1>4 DEF EnterBatch, LastBatchDone, BudgetGate, NextBatch, TypeOK, ProcOK, Run
  <2>. QED BY <1>3, <2>1, <2>2 DEF Running
<1>5. ASSUME NEW t \in Task, PickTask(t) PROVE UNCHANGED Ledger!ledger
  BY <1>3, <1>5 DEF PickTask, gitVars, Running
<1>6. ASSUME NEW t \in Task, SaveSequential(t) PROVE UNCHANGED Ledger!ledger
  <2>1. main' = main /\ mem' = mem /\ Running
    BY <1>1, <1>6 DEF SaveSequential, gitVars, DoneInv, OneAtATime, Running
  <2>2. run'.at # "off"
    BY <1>1, <1>6, <2>1 DEF SaveSequential, AfterTask, TypeOK, ProcOK, Run, Running
  <2>. QED BY <1>3, <2>1, <2>2 DEF Running
<1>7. ASSUME NEW t \in Task,
             \/ CollectUnmerged(t) \/ CollectMerge(t) \/ CollectConflict(t)
             \/ SaveThreads(t) \/ CollectRaised(t)
      PROVE  FALSE
  BY <1>1, <1>7 DEF CollectUnmerged, CollectMerge, CollectConflict, SaveThreads,
                    CollectRaised, DoneInv, OneAtATime
<1>. QED BY <1>2, <1>4, <1>5, <1>6, <1>7 DEF Loop

LEMMA LedgerOfRest ==
    ASSUME LedgerInv, NoMoveOfDone, Commands \/ Operator
    PROVE  [Ledger!LedgerNext]_(Ledger!ledger)
<1>1. TypeOK
  BY DEF LedgerInv, OrderInv, DoneInv
<1>2. ASSUME ~Running, ~Running', main' = main, wd'.status = wd.status,
             wd'.state = "done" <=> wd.state = "done"
      PROVE  UNCHANGED Ledger!ledger
  <2>1. Held' = Held
    BY <1>2, HeldIs, HeldIsNext
  <2>. QED BY <1>2, <2>1, LedgerStays
<1>3. \A x : [wd EXCEPT !.state = x].status = wd.status /\ [wd EXCEPT !.state = x].state = x
  BY <1>1 DEF TypeOK, GitOK, Tree
<1>4. CASE OpenSchemaGate
  BY <1>2, <1>3, <1>4 DEF OpenSchemaGate, Loadable, gitVars, procVars, Running
<1>5. ASSUME NEW t \in Task, ExecuteOverBudget(t) PROVE UNCHANGED Ledger!ledger
  BY <1>2, <1>3, <1>5 DEF ExecuteOverBudget, Loadable, gitVars, procVars, Running
<1>6. CASE Advance
  BY <1>2, <1>3, <1>6 DEF Advance, NoMoveOfDone, gitVars, procVars, Running
<1>7. CASE AbortMerge \/ RaiseCap
  BY <1>2, <1>7 DEF AbortMerge, RaiseCap, gitVars, procVars, Running
<1>8. ASSUME NEW t \in Task, ResetRecord(t) PROVE Ledger!Release(t)
  <2>1. /\ ~Running /\ ~Running' /\ main' = main /\ wd'.state = wd.state
        /\ wd'.status = [wd.status EXCEPT ![t] = FreshRecord]
    BY <1>1, <1>8 DEF ResetRecord, gitVars, procVars, Running, TypeOK, GitOK, Tree
  <2>2. Awaiting(wd'.status) = Awaiting(wd.status) \ {t}
    BY <1>1, <2>1 DEF Awaiting, FreshRecord, TypeOK, GitOK, Tree
  <2>3. Held' = Held \ {t}
    BY <2>1, <2>2, HeldIs, HeldIsNext
  <2>. QED BY <2>1, <2>3 DEF Ledger!Release
<1>9. ASSUME NEW r, Load(r), r.at # "off", Loadable PROVE UNCHANGED Ledger!ledger
  <2>1. /\ ~Running /\ Running' /\ main' = main /\ mem' = wd.status
        /\ wd.state # "done" /\ wd'.state # "done"
    BY <1>3, <1>9 DEF Load, Loadable, gitVars, Running
  <2>2. Held' = Held
    BY <2>1, HeldIs, HeldIsNext
  <2>. QED BY <2>1, <2>2, LedgerStays
<1>10. ASSUME NEW m \in Modes, StartRunAll(m) PROVE UNCHANGED Ledger!ledger
  <2>. DEFINE r == [NoRun EXCEPT !.at = "enter", !.kind = "run_all", !.batch = 1,
                                 !.parallel = m.parallel, !.stopOnFail = m.stopOnFail,
                                 !.phase = m.phase]
  <2>1. r.at # "off"
    BY DEF NoRun
  <2>2. Load(r) /\ Loadable
    BY <1>10 DEF StartRunAll
  <2>. HIDE DEF r
  <2>. QED BY <1>9, <2>1, <2>2
<1>11. ASSUME NEW t \in Task, NEW signed \in BOOLEAN, StartExecute(t, signed)
       PROVE  UNCHANGED Ledger!ledger
  <2>. DEFINE r == [NoRun EXCEPT !.at = "tasks", !.kind = "execute", !.todo = {t}, !.signed = signed]
  <2>1. r.at # "off"
    BY DEF NoRun
  <2>2. Load(r) /\ Loadable
    BY <1>11 DEF StartExecute
  <2>. HIDE DEF r
  <2>. QED BY <1>9, <2>1, <2>2
<1>. QED
  BY <1>4, <1>5, <1>6, <1>7, <1>8, <1>10, <1>11 DEF Commands, Operator, Ledger!LedgerNext

\* run-all and execute, with their branches, retries, rejections and checkouts, are an
\* implementation of the ledger: a task lands once and after its dependencies, a task
\* that waits for a human does not land, and a project is finished when every task has
\* landed.  Without kills, as a task whose merge was not saved is attempted again and may
\* be held although it has landed; in order and without worktrees, as dependencies may
\* otherwise come late.
THEOREM ExecutorImplementsLedger ==
    ASSUME SequentialModes, \A m \in Modes : m.stopOnFail, PhasesClosed, MaxKills = 0, NoMoveOfDone
    PROVE  Spec => ImplementsLedger
<1>1. LedgerInv /\ [Next]_vars => LedgerInv'
  BY LedgerInvNext
<1>2. ASSUME LedgerInv, LedgerInv', [Next]_vars PROVE [Ledger!LedgerNext]_(Ledger!ledger)
  <2>1. NotDoneYet'
    BY <1>2 DEF LedgerInv
  <2>2. CASE Next
    <3>1. past.kills = 0
      BY <1>2 DEF LedgerInv, OrderInv, DoneInv, TypeOK, Past
    <3>2. ~Kill
      BY <3>1 DEF Kill
    <3>3. \A t \in Task : ~Raise(t)
      BY <1>2 DEF LedgerInv, OrderInv, DoneInv, OneAtATime, Raise
    <3>. QED BY <1>2, <2>1, <2>2, <3>2, <3>3, LedgerOfExecuteTask, LedgerOfLoop, LedgerOfRest
             DEF Next, Command, Fault
  <2>3. CASE UNCHANGED vars
    <3>1. Held' = Held /\ Accepted(main') = Accepted(main) /\ wd' = wd
      BY <2>3 DEF vars, gitVars, procVars, Held, Running
    <3>. QED BY <3>1, LedgerStays
  <2>. QED BY <1>2, <2>2, <2>3
<1>. QED BY <1>1, <1>2, LedgerInit, PTL DEF Spec, ImplementsLedger, Ledger!LedgerSpec
==============================================================================
