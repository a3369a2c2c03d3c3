------------------------------- MODULE TaskPlan ------------------------------
(***************************************************************************)
(* How task_dag.json comes about and grows: the Orchestrator asks the      *)
(* model for a DAG until one passes validation or three have not; the      *)
(* first one is written as it is, and every `ortim extend` cycle appends a *)
(* delta to it.  The records of task_status.json, kept by task id, stay.   *)
(*                                                                         *)
(* What run-all does with a plan is in TaskRunner; here a task is executed *)
(* in one step once its dependencies are DONE.                             *)
(***************************************************************************)
EXTENDS Naturals, Sequences, FiniteSets
CONSTANTS MaxId, MaxAnswer,      \* bounds: task numbers, and tasks in one answer
          MaxCycles, MaxRedrafts,   \* bounds: extensions, and plans sent back
          Kinds                  \* the kinds of tasks the model may answer with
MaxRetries == 3                  \* OrchestratorAgent.MAX_RETRIES

ASSUME PlanAssumption == /\ MaxId \in Nat /\ MaxAnswer \in Nat
                         /\ MaxCycles \in Nat /\ MaxRedrafts \in Nat
                         /\ Kinds \subseteq {"core", "added", "stray", "secret"}

\* T-001 is 1; 0 stands for an id with no number behind the prefix, which TaskSpec accepts
TaskId == 0..MaxId
HasNumber(i) == i > 0

(* The module_scope of a "core" or a "secret" task is declared in section 7 of the RFC, that
   of an "added" one in an extension only, that of a "stray" one nowhere; the text of a
   "secret" task is about authentication, personal data or payments. *)
Task == [id : TaskId, deps : SUBSET TaskId, kind : Kinds]
Answer == {{}} \union {{list[k] : k \in 1..MaxAnswer} : list \in [1..MaxAnswer -> Task]}

VARIABLES phase,     \* the state of the project
          claims,    \* RFC.md has a module breakdown that parses
          attempt,   \* which answer generate_dag is waiting for
          tasks,     \* task_dag.json: tasks
          exts,      \* task_dag.json: the ids of each extension's new tasks
          gated,     \* the tasks whose sensitive_categories are filled in
          executed,  \* the tasks behind the DONE records of task_status.json
          extending, \* `ortim extend` has been approved up to its RFC
          redrafts
plan == <<tasks, exts, gated>>
vars == <<phase, claims, attempt, plan, executed, extending, redrafts>>

IdsOf(a) == {t.id : t \in a}
DepsOf(a) == [i \in IdsOf(a) |-> (CHOOSE t \in a : t.id = i).deps]
DoneIds == IdsOf(executed)

(***************************************************************************)
(* TaskDAG and the validators                                              *)
(***************************************************************************)
\* max_task_id: ids without a number are passed over
MaxTaskId(a) == CHOOSE m \in TaskId : /\ \A i \in IdsOf(a) : i <= m
                                      /\ m \in IdsOf(a) \union {0}

UniqueIds(a) == Cardinality(IdsOf(a)) = Cardinality(a)

\* Mutant of KahnFinishes: the check of the count of visited tasks is left out.
KahnAlwaysFinishes(ids, deps) == TRUE

(* Kahn's algorithm: a task whose in-degree has dropped to 0 is visited and lowers the
   in-degree of its dependents; the DAG has no cycle if all are visited. *)
KahnFinishes(ids, deps) ==
    LET InDegree(i, visited) == Cardinality(deps[i] \intersect ids) - Cardinality(deps[i] \intersect visited)
        Visited[n \in 0..Cardinality(ids)] ==
            IF n = 0 THEN {}
            ELSE Visited[n - 1] \union {i \in ids : InDegree(i, Visited[n - 1]) = 0}
    IN Visited[Cardinality(ids)] = ids

\* Mutant of DepsPresent: a dependency may name any task.
DepsPresentAnyway(a, ids) == \A t \in a : t.id \notin t.deps

DepsPresent(a, ids) == \A t \in a : t.deps \subseteq ids /\ t.id \notin t.deps

\* TaskDAG.validate_dag
ValidDag(a) ==
    /\ UniqueIds(a)
    /\ DepsPresent(a, IdsOf(a))
    /\ KahnFinishes(IdsOf(a), DepsOf(a))

Collisions(a, prior) == IdsOf(a) \intersect IdsOf(prior)

\* _find_below_min_ids: an id without a number is reported too
BelowMin(a, min) == {i \in IdsOf(a) : ~HasNumber(i) \/ i < min}

\* Mutant of NewNumbers: the delta is numbered for itself.
NewNumbersOwn(a, prior) == TRUE

NewNumbers(a, prior) == Collisions(a, prior) = {} /\ BelowMin(a, MaxTaskId(prior) + 1) = {}

\* _validate_extend_dag: dependencies on tasks of the plan so far count as met
ValidDelta(a, prior) ==
    /\ NewNumbers(a, prior)
    /\ UniqueIds(a)
    /\ DepsPresent(a, IdsOf(a) \union IdsOf(prior))
    /\ KahnFinishes(IdsOf(a), DepsOf(a))

\* _find_unscoped_tasks, against what the RFC declares; without section 7 nothing is checked
Declared == IF extending THEN {"core", "secret", "added"} ELSE {"core", "secret"}
Scoped(a) == claims => \A t \in a : t.kind \in Declared

Valid(a) == /\ IF extending THEN ValidDelta(a, tasks) ELSE ValidDag(a)
            /\ Scoped(a)

(***************************************************************************)
(* ortim run: the Orchestrator                                             *)
(***************************************************************************)
\* RFC_APPROVED or EXTEND_RFC_APPROVED -> TASKS_GENERATING, saved before the model is asked
Generate ==
    /\ phase = "approved"
    /\ phase' = "generating" /\ attempt' = 1
    /\ UNCHANGED <<claims, plan, executed, extending, redrafts>>

\* What is wrong with a refused answer only goes into the next attempt's prompt
SomeInvalid == ~\A a \in Answer : Valid(a)

\* Mutant of Reject: the loop does not count its attempts.
RejectUncounted ==
    /\ phase = "generating" /\ SomeInvalid
    /\ attempt' = attempt + 1
    /\ UNCHANGED <<phase, claims, plan, executed, extending, redrafts>>

Reject ==
    /\ phase = "generating" /\ attempt < MaxRetries /\ SomeInvalid
    /\ attempt' = attempt + 1
    /\ UNCHANGED <<phase, claims, plan, executed, extending, redrafts>>

GiveUp ==
    /\ phase = "generating" /\ attempt = MaxRetries /\ SomeInvalid
    /\ phase' = "failed"
    /\ UNCHANGED <<claims, attempt, plan, executed, extending, redrafts>>

\* The first plan: sensitive tasks are tagged, and the file is written over
AcceptPlan(a) ==
    /\ phase = "generating" /\ ~extending /\ Valid(a)
    /\ tasks' = a /\ exts' = <<>>
    /\ gated' = {t.id : t \in {t \in a : t.kind = "secret"}}
    /\ phase' = "ready"
    /\ UNCHANGED <<claims, attempt, executed, extending, redrafts>>

\* tasks = [*prior_dag.tasks, *delta_dag.tasks]
AcceptDelta(a) ==
    /\ phase = "generating" /\ extending /\ Valid(a) /\ a # {}
    /\ tasks' = tasks \union a /\ exts' = Append(exts, IdsOf(a))
    /\ phase' = "ready"
    /\ UNCHANGED <<claims, attempt, gated, executed, extending, redrafts>>

\* An empty delta is valid, and delta_dag.tasks[0] of it raises: the state stays behind
AcceptNothing ==
    /\ phase = "generating" /\ extending /\ Valid({})
    /\ phase' = "stuck"
    /\ UNCHANGED <<claims, attempt, plan, executed, extending, redrafts>>

(***************************************************************************)
(* ortim run-all, extend and advance                                       *)
(***************************************************************************)
Execute(t) ==
    /\ phase = "ready" /\ t \in tasks
    /\ t.id \notin DoneIds /\ t.deps \subseteq DoneIds
    /\ executed' = executed \union {t}
    /\ UNCHANGED <<phase, claims, attempt, plan, extending, redrafts>>

\* All tasks of the plan have a DONE record: the project is DONE
Ship ==
    /\ phase = "ready" /\ IdsOf(tasks) \subseteq DoneIds
    /\ phase' = "done"
    /\ UNCHANGED <<claims, attempt, plan, executed, extending, redrafts>>

\* extend, with its PRD and RFC written and approved (PlanningPipeline)
Extend ==
    /\ phase = "done" /\ Len(exts) < MaxCycles
    /\ phase' = "approved" /\ extending' = TRUE
    /\ UNCHANGED <<claims, attempt, plan, executed, redrafts>>

\* advance paused, rfc_drafting, rfc_awaiting_approval, rfc_approved: a new plan is generated
Redraft ==
    /\ phase = "ready" /\ redrafts < MaxRedrafts
    /\ phase' = "approved" /\ extending' = FALSE /\ redrafts' = redrafts + 1
    /\ UNCHANGED <<claims, attempt, plan, executed>>

Init ==
    /\ phase = "approved" /\ claims \in BOOLEAN /\ attempt = 0
    /\ tasks = {} /\ exts = <<>> /\ gated = {} /\ executed = {}
    /\ extending = FALSE /\ redrafts = 0

Answering == (\E a \in Answer : AcceptPlan(a) \/ AcceptDelta(a)) \/ AcceptNothing \/ Reject \/ GiveUp
Executing == (\E t \in tasks : Execute(t)) \/ Ship
Stop == phase \in {"failed", "stuck", "done"} /\ UNCHANGED vars

Next == Generate \/ Answering \/ Executing \/ Extend \/ Stop
Spec == Init /\ [][Next]_vars

\* The same, with plans that are sent back
RedraftSpec == Init /\ [][Next \/ Redraft]_vars

\* An operator who repeats the command the state proposes, and tasks that succeed in the end
FairSpec == Spec /\ WF_vars(Generate) /\ WF_vars(Answering) /\ WF_vars(Executing)
==============================================================================
