---------------------------- MODULE TaskPlanProps ----------------------------
(***************************************************************************)
(* What the executor and the operator rely on in task_dag.json, whatever   *)
(* the model answers.                                                      *)
(***************************************************************************)
EXTENDS TaskPlan

\* Each variable has the shape it should have
TypeOK ==
    /\ phase \in {"approved", "generating", "ready", "done", "failed", "stuck"}
    /\ claims \in BOOLEAN /\ attempt \in 0..MaxRetries
    /\ tasks \subseteq Task /\ exts \in Seq(SUBSET TaskId) /\ gated \subseteq TaskId
    /\ executed \subseteq Task
    /\ extending \in BOOLEAN /\ redrafts \in 0..MaxRedrafts

Batches == INSTANCE TaskDag WITH Task <- IdsOf(tasks), Deps <- DepsOf(tasks)
(* The plan on disk can be executed: ids are unique, and the batches that run-all takes it in
   (topological_batches) are a partition of it in which no batch is empty before the last and
   every task comes after all its dependencies.  Two validators that look at parts of the
   plan, validate_dag at the first and _validate_extend_dag at a delta, must together give
   this for the whole. *)
PlanIsSound ==
    LET ids == IdsOf(tasks)
        batches == 1..Cardinality(ids)
        In(k) == Batches!Batch(k)
    IN /\ \A s, t \in tasks : s.id = t.id => s = t
       /\ \A i \in ids : Cardinality({k \in batches : i \in In(k)}) = 1
       /\ \A k \in batches \ {1} : In(k) # {} => In(k - 1) # {}
       /\ \A t \in tasks, k \in batches : t.id \in In(k) =>
             \A d \in t.deps : \E j \in 1..(k - 1) : d \in In(j)

(* The DONE records of task_status.json, which are kept by id across all cycles, are records
   of the tasks of the plan: no task counts as done that was not executed, and no executed
   task leaves the plan or changes.  Under RedraftSpec this does not hold. *)
RecordsMatchPlan == \A e \in executed : e \in tasks /\ \A t \in tasks : t.id = e.id => t = e

\* Every plan that is accepted gets executed to its end: no task waits for ever
PlansFinish == phase = "ready" ~> phase = "done"

(***************************************************************************)
(* What a document or a comment says, and the code does not keep           *)
(***************************************************************************)
Largest(ids) == CHOOSE m \in ids \union {0} : \A i \in ids : i <= m

\* _check_extend_continuity: every task of the DAG that is not of the cycle counts as prior
ContinuityErrors ==
    UNION {{i \in exts[c] : ~HasNumber(i) \/ i <= Largest(IdsOf(tasks) \ exts[c])} : c \in 1..Len(exts)}

(* drift.py:229-230 "For cycle N, the prior max is the max ID across (baseline tasks and new
   tasks from cycles 1..N-1)": `ortim drift-check` reports no broken continuity in a plan
   that only the Orchestrator wrote. *)
NoFalseDrift == ContinuityErrors = {}

(* planning.py:606-608 "tag tasks with sensitive categories.  The runner ... gates the merge
   on human sign-off when any category fires": every sensitive task of the plan is tagged. *)
SensitiveTagged == \A t \in tasks : t.kind = "secret" => t.id \in gated

\* A shipped project can be extended again, however the model answered
StaysExtendable == executed # {} => phase \notin {"failed", "stuck"}

(***************************************************************************)
(* The inductive invariant                                                 *)
(***************************************************************************)
Distinct(a) == \A s, t \in a : s.id = t.id => s = t

\* Whatever is taken out of the plan, some task of it waits for none of the others
Rooted(ids, deps) == \A X \in SUBSET ids : X # {} => \E i \in X : deps[i] \intersect X = {}

\* What the two validators together make sure of
Sound(a) ==
    /\ Distinct(a)
    /\ \A t \in a : t.deps \subseteq IdsOf(a)
    /\ Rooted(IdsOf(a), DepsOf(a))

PlanInv == TypeOK /\ Sound(tasks)

\* Before the first plan there is nothing that a record could be of
NothingBefore == phase \in {"approved", "generating"} /\ ~extending => tasks = {} /\ executed = {}
RecordsInv == PlanInv /\ executed \subseteq tasks /\ NothingBefore
==============================================================================
