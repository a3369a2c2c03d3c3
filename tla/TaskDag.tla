------------------------------- MODULE TaskDag -------------------------------
(***************************************************************************)
(* The shape of a task DAG and its execution batches, as                   *)
(* TaskDAG.topological_batches computes them: batch i holds every task     *)
(* that is not yet placed and whose dependencies are all placed before it. *)
(* The in-degrees that the code counts down are in TaskPlan!KahnFinishes;  *)
(* here only the result is needed.                                         *)
(***************************************************************************)
EXTENDS Naturals, FiniteSets

CONSTANTS Task,     \* the task identifiers of task_dag.json
          Deps      \* Deps[t]: the tasks that TaskSpec.dependencies of t names

ASSUME DagAssumption == /\ IsFiniteSet(Task)
                        /\ Deps \in [Task -> SUBSET Task]

\* Placed[n]: the tasks in the first n batches.
Placed[n \in Nat] ==
    IF n = 0 THEN {} ELSE {t \in Task : Deps[t] \subseteq Placed[n - 1]}

Batch(i) == Placed[i] \ Placed[i - 1]

\* validate_dag accepts the DAG: every task is placed sooner or later.
Acyclic == Placed[Cardinality(Task)] = Task

\* A batch number past the last batch of every DAG on Task.
LastBatch == Cardinality(Task)
==============================================================================
