--------------------------- MODULE TaskAttemptProps --------------------------
(***************************************************************************)
(* What the records of task_status.json are worth.                         *)
(***************************************************************************)
EXTENDS TaskAttempt

Record == [status : {"PENDING", "IN_PROGRESS", "DONE", "AWAITING_HITL"}, attempts : 0..MaxAttempts,
           reasons : SUBSET Tags]

Outcome == {"open", "passed", "failed", "skipped", "approved", "rejected", "unverifiable", "vetoed"}

\* Each variable has the shape it should have
TypeOK ==
    /\ pc \in Agents \union {"idle", "tests", "gates", "retry"}
    /\ tries \in 0..2 /\ retries \in 0..MaxRetries /\ raises \in 0..MaxRaises
    /\ unlogged \in Nat
    /\ rec \in Record /\ disk \in Record /\ disk.status # "IN_PROGRESS"
    /\ told \subseteq Tags /\ judged \subseteq Criteria
    /\ found \in [Gates -> Outcome]
    /\ signed \in BOOLEAN /\ resets \in 0..MaxResets /\ vetoed \in BOOLEAN
    /\ why \in Tags \union {"none", "veto"}

(* A task whose record says DONE has earned it in one and the same attempt: the rubric was
   approved with a verdict on some criterion, no test had failed, every reviewer of the chain
   with a veto was asked and had none, the hook passed, and a sensitive task was signed. *)
DoneIsEarned ==
    disk.status = "DONE" =>
        /\ found["rubric"] = "approved" /\ judged # {}
        /\ found["tests"] # "failed"
        /\ \A g \in Chain \ {"perf"} : found[g] = "approved"
        /\ found["hook"] = "passed"
        /\ Sensitive => signed

(* A worker that is asked again is told which gate sent its last attempt back, also after
   commands that ended in between (runner.py:264-270). *)
ToldWhy == pc = "worker" /\ rec.attempts > 1 => why \in told

\* Whatever the provider, the agents, the tests and the hooks do, every command ends
AttemptEnds == pc # "idle" ~> pc = "idle"

(***************************************************************************)
(* What a document or a comment says, and the code does not keep           *)
(***************************************************************************)
\* README.md:94 "Every LLM call, state transition, gate decision, and hook output lands in a
\* hash-chained JSONL"
EveryAnswerLogged == unlogged = 0

\* runner.py:136 "Hard veto from Security/Test -> task -> AWAITING_HITL immediately (no retry"
VetoSticks == [][vetoed => pc' # "worker"]_vars

\* reviewer.py:243 "Every criterion needs its own verdict - none can be omitted."
EveryCriterionJudged == disk.status = "DONE" => judged = Criteria
(***************************************************************************)
(* The inductive invariant                                                 *)
(***************************************************************************)
Stage == {"worker", "tests", "reviewer", "security", "test", "perf", "gates"}

\* A question counts for the agent that is asked, and for no other
CallOK ==
    /\ pc \in Agents \union {"idle", "tests", "gates", "retry"}
    /\ tries \in Nat /\ retries \in Nat /\ unlogged \in Nat
    /\ raises \in 0..MaxRaises
    /\ IF pc \in Agents
       THEN tries < Agent[pc].tries /\ retries <= MaxRetries
       ELSE tries = 0 /\ retries = 0

GateOutcomes ==
    /\ found["rubric"] \in {"open", "approved", "rejected", "unverifiable"}
    /\ found["tests"] \in {"open", "passed", "failed", "skipped"}
    /\ \A g \in {"security", "test"} : found[g] \in {"open", "approved", "vetoed"}
    /\ found["hook"] \in {"open", "passed"}

TaskTypes ==
    /\ rec \in Record /\ disk \in Record /\ disk.status # "IN_PROGRESS"
    /\ told \subseteq Tags /\ judged \subseteq Criteria
    /\ found \in [Gates -> Outcome] /\ GateOutcomes
    /\ signed \in BOOLEAN /\ resets \in 0..MaxResets /\ vetoed \in BOOLEAN
    /\ why \in Tags \union {"none", "veto"}

\* What is in hand is on disk as it was before the attempt, and a waiting task has one left
InHand ==
    /\ pc \in Stage => disk.status = "PENDING" /\ rec.attempts \in 1..MaxAttempts
    /\ pc = "retry" => disk.status = "PENDING"
    /\ disk.status = "PENDING" => disk.attempts < MaxAttempts
    /\ disk.status = "DONE" => pc \in {"idle", "documenter"}

\* The gates speak in their order, and each of the ones that were to speak has
InOrder ==
    /\ found["rubric"] = "approved" => judged # {}
    /\ pc \in {"security", "test", "perf"} => CodeOk(found["rubric"], found["tests"])
    /\ pc = "test" => ("security" \in Chain => found["security"] = "approved")
    /\ pc \in {"perf", "gates"} /\ ChainOk => \A g \in Chain \ {"perf"} : found[g] = "approved"
    /\ pc = "gates" => found["rubric"] # "open"
    /\ found["hook"] = "passed" => ChainOk /\ (pc = "gates" \/ disk.status = "DONE")

\* The gate that sent a task back is among the reasons, wherever they are
Because ==
    /\ pc = "gates" /\ found["rubric"] = "rejected" => "rubric" \in rec.reasons
    /\ disk.status = "PENDING" /\ disk.attempts > 0 => why \in disk.reasons

Inv == CallOK /\ TaskTypes /\ InHand /\ InOrder /\ DoneIsEarned
InvWhy == Because /\ ToldWhy
==============================================================================
