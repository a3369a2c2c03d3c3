------------------------------ MODULE AgentCalls -----------------------------
(***************************************************************************)
(* What all agents of the program share: LLMClient.call with its retries,  *)
(* the check of the answer, the repeated question, and the row of          *)
(* audit.jsonl with the tokens of the answer, from which BudgetTracker     *)
(* derives what has been spent.  A request here is one round of the loop   *)
(* of call: the SDK of Anthropic repeats it by itself, a bounded number of *)
(* times that nothing counts.                                              *)
(***************************************************************************)
EXTENDS Naturals, FiniteSets
CONSTANTS MaxRetries,   \* ORTIM_LLM_MAX_RETRIES
          MaxRaises     \* bound: exceptions and kills

ASSUME CallAssumption == MaxRetries \in Nat /\ MaxRaises \in Nat

(* What an agent does with an answer: how many it may refuse before its caller gets an
   exception, whether an answer is checked at all, and whether one that is refused has its row
   in the log before the exception or the next question. *)
Text == [tries |-> 1, checked |-> FALSE, logsRefused |-> FALSE]
Json(n, logged) == [tries |-> n, checked |-> TRUE, logsRefused |-> logged]

AnalystAgent == Text
IntentAnalyst == Text
PRDAnalyst == Text
DocumenterAgent == Text
ExtenderAgent == Text
BabelRoundTrip == Text
BabelExtract == Json(1, TRUE)
StackAnalyst == Json(1, FALSE)
ArchitectInputs == Json(1, FALSE)
ArchitectRfc == Json(3, TRUE)
OrchestratorAgent == Json(3, TRUE)
WorkerAgent == Json(1, TRUE)
CodeReviewerAgent == Json(3, TRUE)
SecurityReviewerAgent == Json(1, FALSE)
TestReviewerAgent == Json(1, FALSE)
PerfReviewerAgent == Json(1, FALSE)

Planner == [analyst |-> AnalystAgent, intent_analyst |-> IntentAnalyst, prd_analyst |-> PRDAnalyst,
            extender |-> ExtenderAgent, babel |-> BabelExtract, babel_round_trip |-> BabelRoundTrip,
            stack_analyst |-> StackAnalyst, architect |-> ArchitectInputs,
            architect_rfc |-> ArchitectRfc, orchestrator |-> OrchestratorAgent]
Executor == [worker |-> WorkerAgent, reviewer |-> CodeReviewerAgent, security |-> SecurityReviewerAgent,
             test |-> TestReviewerAgent, perf |-> PerfReviewerAgent, documenter |-> DocumenterAgent]
Planners == DOMAIN Planner
Agents == Planners \union DOMAIN Executor
Agent == [a \in Agents |-> IF a \in Planners THEN Planner[a] ELSE Executor[a]]

VARIABLES pc,        \* the agent that is asked, or where the command is
          tries,     \* its answers that were refused
          retries,   \* retries_used of the call
          unlogged,  \* answers of the provider without a row
          raises     \* exceptions and kills
calls == <<pc, tries, retries, unlogged, raises>>

CallInit == /\ pc = "idle" /\ tries = 0 /\ retries = 0
            /\ unlogged = 0 /\ raises = 0

GoTo(place) == pc' = place /\ tries' = 0 /\ retries' = 0

\* audit.log(event, **response.audit_fields()): what one answer has cost
Row == unlogged' = unlogged
NoRow == unlogged' = unlogged + 1

\* An exception that nobody below the command catches
Raised == raises < MaxRaises /\ raises' = raises + 1 /\ GoTo("idle")

\* Mutant of Retry: the loop does not end.
RetryForEver ==
    /\ pc \in Agents
    /\ retries' = retries + 1
    /\ UNCHANGED <<pc, tries, unlogged, raises>>

\* An overloaded provider, a lost connection or an answer that came too late: asked again
Retry ==
    /\ pc \in Agents /\ retries < MaxRetries
    /\ retries' = retries + 1
    /\ UNCHANGED <<pc, tries, unlogged, raises>>

\* No retry is left, the error is of another kind, or an answer has a body that nothing reads:
\* that is a ValueError, which the Worker's caller takes for a refused answer (see TaskAttempt)
CallFails == pc \in Agents /\ Raised /\ unlogged' \in {unlogged, unlogged + 1}

Answered == Row /\ raises' = raises

\* Mutant of Ask: the loop over the attempts starts again.
AskUncounted == pc' = pc /\ tries' = tries /\ retries' = 0

Ask == pc' = pc /\ tries' = tries + 1 /\ retries' = 0

\* The loops of the reviewer, the orchestrator and the architect put the error in the prompt
AskAgain ==
    /\ pc \in Agents /\ Agent[pc].checked /\ tries + 1 < Agent[pc].tries
    /\ Ask /\ Answered

\* The last answer is refused: of most agents with a row, of some without
GiveUpAsking ==
    /\ pc \in Agents \ {"worker"} /\ Agent[pc].checked /\ tries + 1 = Agent[pc].tries
    /\ Raised
    /\ IF Agent[pc].logsRefused THEN Row ELSE NoRow

\* A command asks one agent and goes on (PlanningPipeline has the order of the planners)
Consult(a) == /\ pc = "idle" /\ GoTo(a)
              /\ UNCHANGED <<unlogged, raises>>
Consulted == pc \in Planners \union {"documenter"} /\ GoTo("idle") /\ Answered
==============================================================================
