-------------------------- MODULE TaskAttemptProofs --------------------------
(***************************************************************************)
(* Proofs about TaskAttempt, for every set of criteria, chain of           *)
(* reviewers, number of attempts, retries and exceptions.                  *)
(***************************************************************************)
EXTENDS TaskAttemptProps, FiniteSetTheorems, TLAPS

(***************************************************************************)
(* Calls                                                                   *)
(***************************************************************************)
LEMMA AgentNames ==
    /\ Planners = {"analyst", "intent_analyst", "prd_analyst", "extender", "babel", "babel_round_trip",
                   "stack_analyst", "architect", "architect_rfc", "orchestrator"}
    /\ Agents = Planners \union {"worker", "reviewer", "security", "test", "perf", "documenter"}
BY DEF Planners, Agents, Planner, Executor

\* An agent is asked at least once.
LEMMA AgentTries == \A a \in Agents : Agent[a].tries \in 1..3
<1>. USE DEF Text, Json
<1>1. \A a \in DOMAIN Planner : Planner[a].tries \in 1..3
  BY DEF Planner, AnalystAgent, IntentAnalyst, PRDAnalyst, ExtenderAgent, BabelExtract, BabelRoundTrip,
         StackAnalyst, ArchitectInputs, ArchitectRfc, OrchestratorAgent
<1>2. \A a \in DOMAIN Executor : Executor[a].tries \in 1..3
  BY DEF Executor, WorkerAgent, CodeReviewerAgent, SecurityReviewerAgent, TestReviewerAgent,
         PerfReviewerAgent, DocumenterAgent
<1>3. \A a \in Agents : Agent[a] = IF a \in DOMAIN Planner THEN Planner[a] ELSE Executor[a]
  BY DEF Agents, Planners, Agent
<1>. QED BY <1>1, <1>2, <1>3 DEF Agents, Planners
Places == Agents \union {"idle", "tests", "gates", "retry"}

\* A place that is gone to has no question yet.
LEMMA FreshCall ==
    ASSUME NEW place \in Places, GoTo(place), unlogged' \in Nat, raises' \in 0..MaxRaises
    PROVE  CallOK'
BY AgentTries, CallAssumption DEF GoTo, CallOK, Places

\* An answer is used or refused, with a row or without.
LEMMA AnswerSteps ==
    ASSUME CallOK, Row \/ NoRow, raises' = raises
    PROVE  /\ \A place \in Places : GoTo(place) => CallOK'
           /\ AskAgain => CallOK'
<1>1. unlogged' \in Nat /\ raises' \in 0..MaxRaises
  BY DEF Row, NoRow, CallOK
<1>2. AskAgain => CallOK'
  BY <1>1, CallAssumption, AgentTries DEF CallOK, AskAgain, Ask
<1>. QED BY <1>1, <1>2, FreshCall

LEMMA RaisedSteps ==
    ASSUME CallOK, Raised, unlogged' \in {unlogged, unlogged + 1}
    PROVE  CallOK'
<1>1. unlogged' \in Nat /\ raises' \in 0..MaxRaises
  BY CallAssumption DEF CallOK, Raised
<1>. QED BY <1>1, FreshCall DEF Raised, Places

LEMMA RetryStep ==
    ASSUME CallOK, Retry PROVE CallOK'
BY CallAssumption, AgentTries DEF CallOK, Retry

LEMMA NextReviewerIs ==
    \A blocked : \A after \in {"reviewer", "security", "test", "perf"} :
        NextReviewer(blocked, after) \in {"security", "test", "perf", "gates"}
BY AttemptAssumption DEF NextReviewer

\* The steps of the command between two questions, and the end of a question
Quiet == UNCHANGED <<unlogged, raises>> /\ \E place \in Places : GoTo(place)
Used == (Row \/ NoRow) /\ raises' = raises /\ \E place \in Places : GoTo(place)

\* What each action does to the call
LEMMA CallOfAction ==
    /\ \A s \in BOOLEAN : Execute(s) => Quiet
    /\ \A a \in Agents : Consult(a) => Quiet
    /\ Again => Quiet
    /\ RunTests => Quiet
    /\ HardVeto \/ CannotVerify \/ SendBack \/ HookFails \/ SignOffMissing \/ Land => Quiet
    /\ Worker \/ Reviewers => Used
    /\ Consulted => Used
<1>. USE AgentNames DEF Places
<1>1. \A s \in BOOLEAN : Execute(s) => Quiet
  BY DEF Execute, Begin, Quiet
<1>2. \A a \in Agents : Consult(a) => Quiet
  BY DEF Consult, Quiet
<1>3. Again => Quiet
  BY DEF Again, Begin, Quiet
<1>4. RunTests => Quiet
  BY DEF RunTests, Quiet
<1>5. HardVeto \/ CannotVerify \/ SendBack \/ HookFails \/ SignOffMissing \/ Land => Quiet
  BY DEF HardVeto, CannotVerify, SendBack, HookFails, SignOffMissing, Land, EndWith, Close, Quiet
<1>6. Worker => Used
  BY DEF Worker, WorkerRefused, WorkerUnreadable, WorkerAnswers, Answered, Close, Used
<1>7. Reviewers => Used
  <2>1. \A v : ReviewerAnswers(v) => Used
    BY NextReviewerIs DEF ReviewerAnswers, Answered, Used
  <2>2. \A ok : Veto(ok) => Used
    <3>. SUFFICES ASSUME NEW ok, Veto(ok) PROVE Used
      OBVIOUS
    <3>. DEFINE blocked == "vetoed" \in {found'[g] : g \in Gates}
    <3>1. Answered /\ GoTo(NextReviewer(blocked, pc)) /\ pc \in {"security", "test"}
      BY DEF Veto
    <3>. HIDE DEF blocked
    <3>. QED BY <3>1, NextReviewerIs DEF Answered, Used
  <2>3. PerfAnswers => Used
    BY DEF PerfAnswers, Answered, Used
  <2>. QED BY <2>1, <2>2, <2>3 DEF Reviewers
<1>8. Consulted => Used
  BY DEF Consulted, Answered, Used
<1>. QED BY <1>1, <1>2, <1>3, <1>4, <1>5, <1>6, <1>7, <1>8

LEMMA CallStep ==
    ASSUME CallOK, Next PROVE CallOK'
<1>1. Quiet => CallOK'
  BY AnswerSteps DEF Quiet, Row
<1>2. Used => CallOK'
  BY AnswerSteps DEF Used
<1>3. UNCHANGED calls => CallOK'
  BY DEF calls, CallOK
<1>4. Command => CallOK'
  BY <1>1, CallOfAction DEF Command
<1>5. Ending => CallOK'
  BY <1>1, <1>3, CallOfAction DEF Ending, HookPasses
<1>6. Answer => CallOK'
  <2>1. AskAgain => CallOK'
    BY AnswerSteps DEF AskAgain, Answered
  <2>. QED BY <1>2, <2>1, CallOfAction DEF Answer
<1>7. Asking => CallOK'
  <2>1. Retry => CallOK'
    BY RetryStep
  <2>2. CallFails => CallOK'
    BY RaisedSteps DEF CallFails
  <2>3. GiveUpAsking => CallOK'
    BY RaisedSteps DEF GiveUpAsking, Row, NoRow
  <2>. QED BY <2>1, <2>2, <2>3 DEF Asking
<1>8. Break => CallOK'
  BY RaisedSteps DEF Break
<1>9. Reset => CallOK'
  BY <1>3 DEF Reset
<1>10. Rest => CallOK'
  BY <1>3 DEF Rest, vars
<1>11. Going => CallOK'
  BY <1>1, <1>5, <1>6, <1>7, CallOfAction DEF Going
<1>. QED BY <1>4, <1>8, <1>9, <1>10, <1>11 DEF Next

(***************************************************************************)
(* The task: DoneIsEarned with the invariant it needs                      *)
(***************************************************************************)
TaskInv == TaskTypes /\ InHand /\ InOrder /\ DoneIsEarned

LEMMA FreshTypes == /\ Fresh \in Record /\ Fresh.status = "PENDING" /\ Fresh.attempts = 0
                    /\ Nothing \in [Gates -> Outcome] /\ \A g \in Gates : Nothing[g] = "open"
BY AttemptAssumption DEF Fresh, Record, Nothing, Outcome

LEMMA RecordParts ==
    \A r \in Record : /\ r.status \in {"PENDING", "IN_PROGRESS", "DONE", "AWAITING_HITL"}
                      /\ r.attempts \in 0..MaxAttempts /\ r.reasons \subseteq Tags
BY DEF Record

\* A new attempt knows nothing of the one before but the reasons.
LEMMA BeginStep ==
    ASSUME TaskInv, Begin(disk), disk.status = "PENDING", signed' \in BOOLEAN
    PROVE  TaskInv'
<1>1. rec' \in Record /\ rec'.attempts \in 1..MaxAttempts /\ pc' = "worker"
  <2>1. disk.attempts \in Nat /\ disk.attempts < MaxAttempts /\ disk.reasons \subseteq Tags
    BY RecordParts, AttemptAssumption DEF TaskInv, TaskTypes, InHand
  <2>2. rec' = [disk EXCEPT !.status = "IN_PROGRESS", !.attempts = disk.attempts + 1]
    BY DEF Begin
  <2>3. disk.attempts + 1 \in 1..MaxAttempts
    BY <2>1, AttemptAssumption
  <2>4. disk \in Record
    BY DEF TaskInv, TaskTypes
  <2>5. rec' \in Record /\ rec'.attempts = disk.attempts + 1
    <3>. DEFINE n == disk.attempts + 1
    <3>1. n \in 0..MaxAttempts /\ rec' = [disk EXCEPT !.status = "IN_PROGRESS", !.attempts = n]
      BY <2>2, <2>3
    <3>. HIDE DEF n
    <3>2. rec' \in Record /\ rec'.attempts = n
      BY <3>1, <2>4 DEF Record
    <3>. QED BY <3>2 DEF n
  <2>. QED BY <2>3, <2>5 DEF Begin, GoTo
<1>2. UNCHANGED <<disk, resets, vetoed, why>> /\ found' = Nothing /\ judged' = {} /\ told' \subseteq Tags
  BY RecordParts DEF Begin, TaskInv, TaskTypes
<1>3. TaskTypes'
  BY <1>1, <1>2, FreshTypes DEF TaskInv, TaskTypes, GateOutcomes, Gates
<1>4. InHand'
  BY <1>1, <1>2 DEF TaskInv, InHand
<1>5. InOrder'
  BY <1>1, <1>2, FreshTypes DEF InOrder, Gates, ChainOk, CodeOk
<1>6. DoneIsEarned'
  BY <1>2 DEF DoneIsEarned
<1>. QED BY <1>3, <1>4, <1>5, <1>6 DEF TaskInv

\* An attempt that ends without DONE is forgotten but for its record.
LEMMA CloseStep ==
    ASSUME TaskInv, pc \in Stage, NEW status \in {"PENDING", "AWAITING_HITL"},
           status = "PENDING" => rec.attempts < MaxAttempts,
           NEW reasons \in SUBSET Tags, Close(status, reasons),
           UNCHANGED <<resets, vetoed>>, why' \in Tags \union {"none", "veto"}
    PROVE  TaskInv'
<1>1. /\ disk' \in Record /\ disk'.status = status /\ disk'.attempts = rec.attempts
      /\ disk'.reasons = reasons
  BY DEF Close, TaskInv, TaskTypes, Record
<1>2. /\ rec' = Fresh /\ found' = Nothing /\ judged' = {} /\ told' = {} /\ signed' \in BOOLEAN
      /\ pc' = IF status = "PENDING" THEN "retry" ELSE "idle"
  BY DEF Close, GoTo, TaskInv, TaskTypes
<1>3. TaskTypes'
  BY <1>1, <1>2, FreshTypes DEF TaskInv, TaskTypes, GateOutcomes, Gates
<1>4. InHand'
  BY <1>1, <1>2 DEF InHand, Stage
<1>5. InOrder'
  BY <1>2, FreshTypes DEF InOrder, Gates, ChainOk, CodeOk
<1>6. DoneIsEarned'
  BY <1>1 DEF DoneIsEarned
<1>. QED BY <1>3, <1>4, <1>5, <1>6 DEF TaskInv

LEMMA ExhaustedFits ==
    /\ Exhausted \in {"PENDING", "AWAITING_HITL"}
    /\ TaskTypes => (Exhausted = "PENDING" => rec.attempts < MaxAttempts)
BY RecordParts, AttemptAssumption DEF Exhausted, TaskTypes

\* The gates that end an attempt without DONE
LEMMA NotDoneStep ==
    ASSUME TaskInv, HardVeto \/ CannotVerify \/ SendBack \/ HookFails \/ SignOffMissing
    PROVE  TaskInv'
<1>1. \E status \in {"PENDING", "AWAITING_HITL"}, gate \in Tags \union {"none", "veto"}, tags \in SUBSET Tags :
          EndWith(status, gate, tags) /\ (status = "PENDING" => rec.attempts < MaxAttempts)
  <2>1. TestTag \in SUBSET Tags /\ {} \in SUBSET Tags /\ {"hook"} \in SUBSET Tags /\ {"sensitive"} \in SUBSET Tags
        /\ {"rubric", "tests", "hook", "sensitive"} \subseteq Tags
    BY DEF TestTag, Tags, Gates
  <2>. QED BY <2>1, ExhaustedFits DEF TaskInv, HardVeto, CannotVerify, SendBack, HookFails, SignOffMissing
<1>2. pc \in Stage
  BY DEF Stage, HardVeto, CannotVerify, SendBack, HookFails, SignOffMissing
<1>3. rec.reasons \in SUBSET Tags
  BY RecordParts DEF TaskInv, TaskTypes
<1>. QED BY <1>1, <1>2, <1>3, CloseStep DEF EndWith

LEMMA HookPassesStep ==
    ASSUME TaskInv, HookPasses PROVE TaskInv'
<1>1. /\ pc = "gates" /\ ChainOk /\ UNCHANGED <<calls, rec, disk, told, judged, signed, resets, vetoed, why>>
      /\ found' = [found EXCEPT !["hook"] = "passed"]
  BY DEF HookPasses
<1>2. /\ found' \in [Gates -> Outcome] /\ found'["hook"] = "passed"
      /\ \A g \in Gates \ {"hook"} : found'[g] = found[g]
  BY <1>1 DEF TaskInv, TaskTypes, Gates, Outcome
<1>3. TaskTypes'
  BY <1>1, <1>2 DEF TaskInv, TaskTypes, GateOutcomes, Gates
<1>4. InHand'
  BY <1>1 DEF TaskInv, InHand, calls
<1>5. ChainOk' /\ pc' = "gates" /\ disk.status # "DONE"
  BY <1>1, <1>2 DEF ChainOk, CodeOk, Blocked, Gates, calls, TaskInv, InHand
<1>6. InOrder'
  BY <1>1, <1>2, <1>5, AttemptAssumption DEF TaskInv, InOrder, Gates
<1>7. DoneIsEarned'
  BY <1>1, <1>5 DEF DoneIsEarned
<1>. QED BY <1>3, <1>4, <1>6, <1>7 DEF TaskInv

\* The gates that are left when it comes to the commit
LEMMA LandStep ==
    ASSUME TaskInv, Land PROVE TaskInv'
<1>1. /\ pc = "gates" /\ found["hook"] = "passed" /\ MaySign
      /\ Close("DONE", rec.reasons \union {}) /\ why' = "none" /\ UNCHANGED <<resets, vetoed>>
  BY DEF Land, EndWith
<1>2. /\ disk' \in Record /\ disk'.status = "DONE"
      /\ rec' = Fresh /\ found' = found /\ judged' = judged /\ told' = {} /\ signed' = signed /\ pc' = "idle"
  <2>1. rec.reasons \union {} \in SUBSET Tags
    BY RecordParts DEF TaskInv, TaskTypes
  <2>. QED BY <1>1, <2>1 DEF Close, GoTo, TaskInv, TaskTypes, Record
<1>3. TaskTypes'
  BY <1>1, <1>2, FreshTypes DEF TaskInv, TaskTypes, GateOutcomes, Gates
<1>4. InHand'
  BY <1>2 DEF InHand, Stage
<1>5. ChainOk
  BY <1>1 DEF TaskInv, InOrder
<1>6. DoneIsEarned'
  BY <1>1, <1>2, <1>5 DEF TaskInv, InOrder, DoneIsEarned, ChainOk, CodeOk, MaySign
<1>7. InOrder'
  BY <1>2, <1>5 DEF TaskInv, InOrder, ChainOk, Blocked, CodeOk
<1>. QED BY <1>3, <1>4, <1>6, <1>7 DEF TaskInv

LEMMA WorkerStep ==
    ASSUME TaskInv, Worker PROVE TaskInv'
<1>1. ASSUME NEW tag \in {"sandbox", "skill"}, WorkerRefused(tag) PROVE TaskInv'
  <2>1. pc \in Stage /\ Close(Exhausted, {tag}) /\ why' = tag /\ UNCHANGED <<resets, vetoed>> /\ tag \in Tags
    BY <1>1 DEF WorkerRefused, Stage, Tags
  <2>. QED BY <2>1, ExhaustedFits, CloseStep DEF TaskInv
<1>2. ASSUME WorkerUnreadable PROVE TaskInv'
  <2>1. /\ pc \in Stage /\ Close(Exhausted, {"sandbox"}) /\ why' = "sandbox" /\ UNCHANGED <<resets, vetoed>>
        /\ "sandbox" \in Tags
    BY <1>2 DEF WorkerUnreadable, Stage, Tags
  <2>. QED BY <2>1, ExhaustedFits, CloseStep DEF TaskInv
<1>3. ASSUME NEW files \in BOOLEAN, WorkerAnswers(files) PROVE TaskInv'
  <2>1. pc = "worker" /\ pc' \in {"tests", "reviewer"} /\ UNCHANGED task
    BY <1>3 DEF WorkerAnswers, GoTo
  <2>. QED BY <2>1 DEF task, memory, TaskInv, TaskTypes, GateOutcomes, InHand, InOrder, DoneIsEarned,
                       ChainOk, Blocked, Stage
<1>. QED BY <1>1, <1>2, <1>3 DEF Worker

LEMMA RunTestsStep ==
    ASSUME TaskInv, RunTests PROVE TaskInv'
<1>1. PICK result \in {"skipped", "passed", "failed"} : found' = [found EXCEPT !["tests"] = result]
  BY DEF RunTests, TestOutcome
<1>2. /\ pc = "tests" /\ pc' = "reviewer"
      /\ UNCHANGED <<rec, disk, told, judged, signed, resets, vetoed, why>>
  BY DEF RunTests, GoTo
<1>3. /\ found' \in [Gates -> Outcome] /\ found'["tests"] = result
      /\ \A g \in Gates \ {"tests"} : found'[g] = found[g]
  BY <1>1 DEF TaskInv, TaskTypes, Gates, Outcome
<1>4. disk.status = "PENDING" /\ found["hook"] = "open"
  BY <1>2 DEF TaskInv, TaskTypes, GateOutcomes, InHand, InOrder, Stage
<1>5. TaskTypes'
  BY <1>2, <1>3 DEF TaskInv, TaskTypes, GateOutcomes, Gates
<1>6. InHand'
  BY <1>2 DEF TaskInv, InHand, Stage
<1>7. InOrder'
  BY <1>2, <1>3, <1>4 DEF TaskInv, InOrder, Gates
<1>8. DoneIsEarned'
  BY <1>2, <1>4 DEF DoneIsEarned
<1>. QED BY <1>5, <1>6, <1>7, <1>8 DEF TaskInv

\* A verdict that approves has judged a criterion, whatever the criteria are.
LEMMA VerdictLemma ==
    ASSUME NEW v \in ReviewVerdict
    PROVE  /\ {v.verdicts[k].criterion : k \in DOMAIN v.verdicts} \subseteq Criteria
           /\ Approved(v) => {v.verdicts[k].criterion : k \in DOMAIN v.verdicts} # {}
           /\ Reasons(v) \subseteq Tags
<1>1. v.verdicts \in [1..Cardinality(Criteria) -> CriterionVerdict]
  BY DEF ReviewVerdict
<1>2. \A k \in DOMAIN v.verdicts : v.verdicts[k].criterion \in Criteria
  BY <1>1 DEF CriterionVerdict
<1>3. Approved(v) => \E k \in DOMAIN v.verdicts : TRUE
  BY DEF Approved, Statuses
<1>4. Reasons(v) \subseteq Tags
  BY DEF Reasons, Tags, Gates
<1>. QED BY <1>2, <1>3, <1>4

LEMMA ReviewerStep ==
    ASSUME TaskInv, NEW v \in ReviewVerdict, ReviewerAnswers(v) PROVE TaskInv'
<1>. DEFINE rubric == IF Approved(v) THEN "approved" ELSE IF Unverifiable(v) THEN "unverifiable" ELSE "rejected"
            there == IF CodeOk(rubric, found["tests"]) THEN NextReviewer(FALSE, "reviewer") ELSE "gates"
<1>1. /\ pc = "reviewer" /\ pc' = there
      /\ judged' = {v.verdicts[k].criterion : k \in DOMAIN v.verdicts}
      /\ found' = [found EXCEPT !["rubric"] = rubric]
      /\ rec' = [rec EXCEPT !.reasons = Reasons(v)]
      /\ UNCHANGED <<disk, told, signed, resets, vetoed, why>>
  BY DEF ReviewerAnswers, GoTo
<1>2. rubric \in {"approved", "unverifiable", "rejected"}
  OBVIOUS
<1>3. there \in {"security", "test", "perf", "gates"}
  BY NextReviewerIs
<1>4. /\ there = "test" => "security" \notin Chain
      /\ there \in {"perf", "gates"} /\ CodeOk(rubric, found["tests"]) => Chain \subseteq {"perf"}
      /\ there # "gates" => CodeOk(rubric, found["tests"])
  BY AttemptAssumption DEF NextReviewer
<1>5. /\ found' \in [Gates -> Outcome] /\ found'["rubric"] = rubric
      /\ \A g \in Gates \ {"rubric"} : found'[g] = found[g]
  BY <1>1, <1>2 DEF TaskInv, TaskTypes, Gates, Outcome
<1>6. disk.status = "PENDING" /\ found["hook"] = "open" /\ rec.attempts \in 1..MaxAttempts
  BY <1>1 DEF TaskInv, TaskTypes, GateOutcomes, InHand, InOrder, Stage
<1>7. rubric = "approved" => judged' # {}
  BY <1>1, VerdictLemma
<1>8. rec' \in Record /\ rec'.attempts = rec.attempts
  BY <1>1, VerdictLemma DEF TaskInv, TaskTypes, Record
<1>. HIDE DEF rubric, there
<1>9. TaskTypes'
  BY <1>1, <1>2, <1>5, <1>8, VerdictLemma DEF TaskInv, TaskTypes, GateOutcomes, Gates
<1>10. InHand'
  BY <1>1, <1>3, <1>6, <1>8 DEF TaskInv, InHand, Stage
<1>11. InOrder'
  BY <1>1, <1>2, <1>3, <1>4, <1>5, <1>6, <1>7 DEF InOrder, ChainOk, CodeOk, Gates
<1>12. DoneIsEarned'
  BY <1>1, <1>6 DEF DoneIsEarned
<1>. QED BY <1>9, <1>10, <1>11, <1>12 DEF TaskInv

LEMMA VetoStep ==
    ASSUME TaskInv, NEW ok \in BOOLEAN, Veto(ok) PROVE TaskInv'
<1>. DEFINE said == IF ok THEN "approved" ELSE "vetoed"
            blocked == "vetoed" \in {found'[g] : g \in Gates}
            there == NextReviewer(blocked, pc)
<1>1. /\ pc \in {"security", "test"} /\ pc' = there
      /\ found' = [found EXCEPT ![pc] = said]
      /\ rec' = [rec EXCEPT !.reasons = IF ok THEN rec.reasons ELSE rec.reasons \union {pc}]
      /\ vetoed' = (vetoed \/ ~ok)
      /\ UNCHANGED <<disk, told, judged, signed, resets, why>>
  BY DEF Veto, GoTo
<1>2. said \in {"approved", "vetoed"} /\ there \in {"security", "test", "perf", "gates"}
  BY <1>1, NextReviewerIs
<1>3. /\ found' \in [Gates -> Outcome] /\ found'[pc] = said
      /\ \A g \in Gates \ {pc} : found'[g] = found[g]
  BY <1>1, <1>2 DEF TaskInv, TaskTypes, Gates, Outcome
<1>4. disk.status = "PENDING" /\ found["hook"] = "open" /\ rec.attempts \in 1..MaxAttempts
  BY <1>1 DEF TaskInv, TaskTypes, GateOutcomes, InHand, InOrder, Stage
<1>5. rec' \in Record /\ rec'.attempts = rec.attempts
  <2>1. rec \in Record /\ {"security", "test"} \subseteq Tags
    BY DEF TaskInv, TaskTypes, Tags, Gates
  <2>. DEFINE reasons == IF ok THEN rec.reasons ELSE rec.reasons \union {pc}
  <2>2. reasons \in SUBSET Tags /\ rec' = [rec EXCEPT !.reasons = reasons]
    BY <1>1, <2>1, RecordParts
  <2>. HIDE DEF reasons
  <2>. QED BY <2>1, <2>2 DEF Record
<1>6. GateOutcomes'
  BY <1>1, <1>2, <1>3 DEF TaskInv, TaskTypes, GateOutcomes, Gates
<1>7. blocked <=> "vetoed" \in {found'["security"], found'["test"]}
  BY <1>6 DEF GateOutcomes, Gates
<1>8. /\ there \in {"test", "perf", "gates"}
      /\ there = "test" => pc = "security" /\ ~blocked
      /\ there \in {"perf", "gates"} /\ pc = "security" /\ ~blocked => "test" \notin Chain
  BY <1>1, AttemptAssumption DEF NextReviewer
<1>9. CodeOk(found["rubric"], found["tests"])
  BY <1>1 DEF TaskInv, InOrder
<1>. HIDE DEF blocked, there
<1>10. TaskTypes'
  BY <1>1, <1>3, <1>5, <1>6 DEF TaskInv, TaskTypes
<1>11. InHand'
  BY <1>1, <1>2, <1>4, <1>5 DEF TaskInv, InHand, Stage
<1>12. found'["rubric"] = found["rubric"] /\ found'["tests"] = found["tests"] /\ found'["hook"] = "open"
  BY <1>1, <1>3, <1>4 DEF Gates
<1>13. pc' \in {"perf", "gates"} /\ ChainOk' => \A g \in Chain \ {"perf"} : found'[g] = "approved"
  <2>. SUFFICES ASSUME pc' \in {"perf", "gates"}, ChainOk', NEW g \in Chain \ {"perf"}
                PROVE  found'[g] = "approved"
    OBVIOUS
  <2>1. ~blocked /\ said = "approved"
    BY <1>1, <1>3, <1>7 DEF ChainOk, Blocked
  <2>2. g \in {"security", "test"}
    BY AttemptAssumption
  <2>3. CASE g = pc
    BY <2>1, <2>3, <1>3
  <2>4. CASE g # pc
    BY <2>1, <2>2, <2>4, <1>1, <1>3, <1>8 DEF TaskInv, InOrder, Gates
  <2>. QED BY <2>3, <2>4
<1>14. InOrder'
  BY <1>1, <1>2, <1>3, <1>8, <1>9, <1>12, <1>13, <1>7 DEF TaskInv, InOrder, CodeOk, Gates
<1>15. DoneIsEarned'
  BY <1>1, <1>4 DEF DoneIsEarned
<1>. QED BY <1>10, <1>11, <1>14, <1>15 DEF TaskInv

\* The task stays while a command asks, or its last reviewer has only suggestions.
LEMMA SameTask ==
    ASSUME TaskInv, UNCHANGED task,
           \/ pc' = pc
           \/ pc = "perf" /\ pc' = "gates"
           \/ pc = "idle" /\ pc' \in Planners /\ disk.status # "DONE"
           \/ pc' = "documenter" /\ disk.status = "DONE"
           \/ pc \in Planners \union {"documenter"} /\ pc' = "idle"
    PROVE  TaskInv'
<1>1. TaskTypes' /\ DoneIsEarned'
  BY DEF task, memory, TaskInv, TaskTypes, GateOutcomes, DoneIsEarned
<1>2. CASE pc' = pc
  BY <1>1, <1>2 DEF task, memory, TaskInv, InHand, InOrder, ChainOk, Blocked
<1>3. CASE pc = "perf" /\ pc' = "gates"
  <2>1. found["rubric"] # "open"
    BY <1>3 DEF TaskInv, InOrder, CodeOk
  <2>. QED BY <1>1, <1>3, <2>1 DEF task, memory, TaskInv, InHand, InOrder, ChainOk, Blocked, Stage
<1>4. ASSUME pc' \in Planners \union {"idle", "documenter"}, pc # "gates",
             disk.status = "DONE" => pc' \in {"idle", "documenter"}
      PROVE  TaskInv'
  <2>1. pc' \notin Stage \union {"retry"}
    BY <1>4, AgentNames DEF Stage
  <2>. QED BY <1>1, <1>4, <2>1 DEF task, memory, TaskInv, InHand, InOrder, ChainOk, Blocked, Stage
<1>. QED BY <1>2, <1>3, <1>4, AgentNames DEF TaskInv, InHand

\* Whatever ends a command by force leaves the record on disk.
LEMMA ForgottenStep ==
    ASSUME TaskInv, Forgotten, pc' = "idle" PROVE TaskInv'
<1>1. CASE disk.status = "DONE"
  <2>1. UNCHANGED task /\ pc \in {"idle", "documenter"}
    BY <1>1 DEF Forgotten, task, TaskInv, InHand
  <2>. QED BY <2>1, SameTask
<1>2. CASE disk.status # "DONE"
  <2>1. /\ rec' = Fresh /\ told' = {} /\ found' = Nothing /\ judged' = {} /\ signed' = FALSE
        /\ UNCHANGED <<disk, resets, vetoed, why>>
    BY <1>2 DEF Forgotten
  <2>2. TaskTypes'
    BY <2>1, FreshTypes DEF TaskInv, TaskTypes, GateOutcomes, Gates
  <2>3. InHand'
    BY <2>1 DEF TaskInv, InHand, Stage
  <2>4. InOrder'
    BY <2>1, FreshTypes DEF InOrder, Gates, ChainOk, CodeOk
  <2>5. DoneIsEarned'
    BY <1>2, <2>1 DEF DoneIsEarned
  <2>. QED BY <2>2, <2>3, <2>4, <2>5 DEF TaskInv
<1>. QED BY <1>1, <1>2

LEMMA ResetStep ==
    ASSUME TaskInv, Reset PROVE TaskInv'
<1>1. /\ pc = "idle" /\ disk.status = "AWAITING_HITL" /\ disk' = Fresh /\ resets < MaxResets
      /\ resets' = resets + 1 /\ vetoed' = FALSE /\ why' = "none"
      /\ pc' = "idle" /\ UNCHANGED memory
  BY DEF Reset, calls
<1>2. TaskTypes'
  <2>1. resets' \in 0..MaxResets
    BY <1>1, AttemptAssumption DEF TaskInv, TaskTypes
  <2>. QED BY <1>1, <2>1, FreshTypes DEF TaskInv, TaskTypes, GateOutcomes, memory
<1>3. InHand'
  BY <1>1, FreshTypes, AttemptAssumption DEF InHand, Stage
<1>4. InOrder'
  BY <1>1 DEF TaskInv, InOrder, ChainOk, Blocked, memory
<1>5. DoneIsEarned'
  BY <1>1, FreshTypes DEF DoneIsEarned
<1>. QED BY <1>2, <1>3, <1>4, <1>5 DEF TaskInv

LEMMA TaskStep ==
    ASSUME TaskInv, Next PROVE TaskInv'
<1>1. ASSUME Command PROVE TaskInv'
  <2>1. ASSUME NEW s \in BOOLEAN, Execute(s) PROVE TaskInv'
    BY <2>1, BeginStep DEF Execute
  <2>2. ASSUME UNCHANGED task, NEW a \in Agents, Planning(a) \/ Documenting(a), Consult(a) PROVE TaskInv'
    BY <2>2, SameTask, FreshTypes DEF Planning, Documenting, Consult, GoTo
  <2>. QED BY <1>1, <2>1, <2>2 DEF Command
<1>2. ASSUME Again PROVE TaskInv'
  BY <1>2, BeginStep DEF Again, TaskInv, TaskTypes, InHand
<1>3. ASSUME Ending PROVE TaskInv'
  BY <1>3, NotDoneStep, HookPassesStep, LandStep DEF Ending
<1>4. ASSUME Answer PROVE TaskInv'
  <2>1. ASSUME Reviewers PROVE TaskInv'
    BY <2>1, ReviewerStep, VetoStep, SameTask DEF Reviewers, PerfAnswers, GoTo
  <2>2. ASSUME UNCHANGED task, Consulted \/ AskAgain PROVE TaskInv'
    BY <2>2, SameTask DEF Consulted, AskAgain, Ask, GoTo
  <2>. QED BY <1>4, <2>1, <2>2, WorkerStep DEF Answer
<1>5. ASSUME Asking PROVE TaskInv'
  BY <1>5, SameTask, ForgottenStep DEF Asking, Retry, CallFails, GiveUpAsking, Raised, GoTo
<1>6. ASSUME Break PROVE TaskInv'
  BY <1>6, ForgottenStep DEF Break, Raised, GoTo
<1>7. ASSUME Rest PROVE TaskInv'
  BY <1>7, SameTask DEF Rest, vars, calls
<1>. QED BY <1>1, <1>2, <1>3, <1>4, <1>5, <1>6, <1>7, RunTestsStep, ResetStep DEF Next, Going

LEMMA InitInv == Init => Inv
<1>. SUFFICES ASSUME Init PROVE Inv
  OBVIOUS
<1>1. CallOK
  BY CallAssumption, AgentNames DEF Init, CallInit, CallOK
<1>2. TaskTypes
  <2>1. 0 \in 0..MaxResets
    BY AttemptAssumption
  <2>2. rec = Fresh /\ disk = Fresh /\ found = Nothing /\ told = {} /\ judged = {}
        /\ signed = FALSE /\ resets = 0 /\ vetoed = FALSE /\ why = "none"
    BY DEF Init
  <2>3. GateOutcomes
    BY <2>2, FreshTypes DEF GateOutcomes, Gates
  <2>. QED BY <2>1, <2>2, <2>3, FreshTypes DEF TaskTypes
<1>3. InHand /\ InOrder /\ DoneIsEarned
  BY FreshTypes, AttemptAssumption DEF Init, CallInit, InHand, InOrder, DoneIsEarned, Stage, ChainOk, CodeOk, Gates
<1>. QED BY <1>1, <1>2, <1>3 DEF Inv

LEMMA InvHolds == Spec => []Inv
<1>1. Inv <=> CallOK /\ TaskInv
  BY DEF Inv, TaskInv
<1>2. Inv /\ Next => Inv'
  BY <1>1, CallStep, TaskStep DEF Inv, TaskInv
<1>3. Inv /\ UNCHANGED vars => Inv'
  <2>. SUFFICES ASSUME Inv, UNCHANGED vars PROVE Inv'
    OBVIOUS
  <2>1. CallOK'
    BY DEF vars, calls, Inv, CallOK
  <2>2. TaskInv'
    BY SameTask DEF vars, calls, Inv, TaskInv
  <2>. QED BY <2>1, <2>2 DEF Inv, TaskInv
<1>. QED BY InitInv, <1>2, <1>3, PTL DEF Spec

(***************************************************************************)
(* What follows                                                            *)
(***************************************************************************)
\* The records, the answers of the gates and the counters of calls keep their types
\* (status.py:26, runner.py:139, client.py:162).
THEOREM TypeCorrect == Spec => []TypeOK
<1>1. Inv => TypeOK
  <2>. SUFFICES ASSUME Inv PROVE TypeOK
    OBVIOUS
  <2>1. tries \in 0..2 /\ retries \in 0..MaxRetries
    BY AgentTries, CallAssumption DEF Inv, CallOK
  <2>. QED BY <2>1 DEF Inv, CallOK, TaskTypes, TypeOK
<1>. QED BY <1>1, InvHolds, PTL

\* A record says DONE only after every gate of one and the same attempt (runner.py:384-476).
THEOREM NothingUnearned == Spec => []DoneIsEarned
<1>1. Inv => DoneIsEarned
  BY DEF Inv
<1>. QED BY <1>1, InvHolds, PTL

(***************************************************************************)
(* Feedback                                                                *)
(***************************************************************************)
\* A rejection of the rubric gives a reason, when there is a criterion to judge.
LEMMA RejectionHasReason ==
    ASSUME Criteria # {}, NEW v \in ReviewVerdict, ~Approved(v), ~Unverifiable(v)
    PROVE  "rubric" \in Reasons(v)
<1>1. Cardinality(Criteria) \in Nat /\ Cardinality(Criteria) # 0
  BY AttemptAssumption, FS_CardinalityType, FS_EmptySet
<1>2. v.verdicts \in [1..Cardinality(Criteria) -> CriterionVerdict] /\ 1 \in 1..Cardinality(Criteria)
  BY <1>1 DEF ReviewVerdict
<1>3. Statuses(v) # {}
  BY <1>2 DEF Statuses
<1>. QED BY <1>3 DEF Approved, Reasons

LEMMA WhyOfEnding ==
    ASSUME Inv, Because, pc \in Stage, NEW status \in {"PENDING", "AWAITING_HITL"}, NEW reasons,
           Close(status, reasons), status = "PENDING" => why' \in reasons
    PROVE  Because' /\ ToldWhy'
<1>1. /\ disk' = [rec EXCEPT !.status = status, !.reasons = reasons] /\ rec \in Record
      /\ pc' \in {"retry", "idle"}
  BY DEF Close, GoTo, Inv, TaskTypes
<1>2. disk'.status = status /\ disk'.reasons = reasons
  BY <1>1 DEF Record
<1>. QED BY <1>1, <1>2 DEF Because, ToldWhy

LEMMA WhyOfBegin ==
    ASSUME Inv, Because, disk.status = "PENDING", Begin(disk)
    PROVE  Because' /\ ToldWhy'
<1>1. /\ disk \in Record /\ disk.attempts \in Nat
      /\ rec' = [disk EXCEPT !.status = "IN_PROGRESS", !.attempts = disk.attempts + 1]
      /\ told' = IF rec'.attempts > 1 THEN disk.reasons ELSE {}
      /\ pc' = "worker" /\ UNCHANGED <<disk, why>>
  BY RecordParts DEF Begin, GoTo, Inv, TaskTypes
<1>2. rec'.attempts = disk.attempts + 1
  <2>. DEFINE n == disk.attempts + 1
  <2>1. rec' = [disk EXCEPT !.status = "IN_PROGRESS", !.attempts = n] /\ disk \in Record
    BY <1>1
  <2>. HIDE DEF n
  <2>2. rec'.attempts = n
    BY <2>1 DEF Record
  <2>. QED BY <2>2 DEF n
<1>3. rec'.attempts > 1 => why' \in told'
  BY <1>1, <1>2 DEF Because
<1>. QED BY <1>1, <1>3 DEF Because, ToldWhy

\* Where neither the records nor the reasons change, and no Worker is called
LEMMA WhyStays ==
    ASSUME InvWhy, UNCHANGED <<disk, why>>,
           pc' = "worker" => pc = "worker" /\ UNCHANGED <<rec, told>>,
           pc' = "gates" => /\ "rubric" \in rec.reasons => "rubric" \in rec'.reasons
                            /\ found'["rubric"] = "rejected" =>
                                    \/ pc = "gates" /\ found["rubric"] = "rejected"
                                    \/ "rubric" \in rec'.reasons
    PROVE  InvWhy'
BY DEF InvWhy, Because, ToldWhy

LEMMA WhyStep ==
    ASSUME Criteria # {}, Inv, InvWhy, Next PROVE InvWhy'
<1>1. ASSUME Ending PROVE InvWhy'
  <2>1. Because
    BY DEF InvWhy
  <2>2. ASSUME NEW status \in {"PENDING", "AWAITING_HITL"}, NEW gate, NEW tags, pc = "gates",
               EndWith(status, gate, tags), status = "PENDING" => gate \in rec.reasons \union tags
        PROVE  InvWhy'
    BY <2>1, <2>2, WhyOfEnding DEF EndWith, InvWhy, Stage
  <2>3. HardVeto \/ CannotVerify \/ SignOffMissing => InvWhy'
    BY <2>2 DEF HardVeto, CannotVerify, SignOffMissing
  <2>4. ASSUME SendBack PROVE InvWhy'
    <3>. DEFINE gate == IF found["tests"] = "failed" THEN "tests" ELSE "rubric"
    <3>1. gate \in rec.reasons \union TestTag
      BY <2>4 DEF SendBack, ChainOk, CodeOk, TestTag, Inv, TaskTypes, GateOutcomes, InOrder, InvWhy, Because
    <3>2. pc = "gates" /\ EndWith(Exhausted, gate, TestTag)
      BY <2>4 DEF SendBack
    <3>. HIDE DEF gate
    <3>. QED BY <3>1, <3>2, <2>2, ExhaustedFits
  <2>5. HookFails => InvWhy'
    BY <2>2, ExhaustedFits DEF HookFails
  <2>6. HookPasses => InvWhy'
    BY DEF HookPasses, calls, InvWhy, Because, ToldWhy, Inv, TaskTypes, Gates
  <2>7. ASSUME Land PROVE InvWhy'
    <3>1. disk' = [rec EXCEPT !.status = "DONE", !.reasons = rec.reasons \union {}] /\ rec \in Record
          /\ pc' = "idle"
      BY <2>7 DEF Land, EndWith, Close, GoTo, Inv, TaskTypes
    <3>2. disk'.status = "DONE"
      BY <3>1 DEF Record
    <3>. QED BY <3>1, <3>2 DEF InvWhy, Because, ToldWhy
  <2>. QED BY <1>1, <2>3, <2>4, <2>5, <2>6, <2>7 DEF Ending
<1>2. ASSUME Command \/ Again PROVE InvWhy'
  <2>1. Execute(TRUE) \/ Execute(FALSE) \/ Again => InvWhy'
    BY WhyOfBegin DEF Execute, Again, Inv, InHand, InvWhy
  <2>2. ASSUME UNCHANGED task, NEW a \in Agents, Planning(a) \/ Documenting(a), Consult(a) PROVE InvWhy'
    BY <2>2, WhyStays, AgentNames DEF Planning, Documenting, Consult, GoTo, task, memory
  <2>. QED BY <1>2, <2>1, <2>2 DEF Command
<1>3. ASSUME Reviewers PROVE InvWhy'
  <2>1. ASSUME NEW v \in ReviewVerdict, ReviewerAnswers(v) PROVE InvWhy'
    <3>1. /\ pc = "reviewer" /\ UNCHANGED <<disk, why>> /\ rec \in Record /\ found \in [Gates -> Outcome]
          /\ rec' = [rec EXCEPT !.reasons = Reasons(v)]
          /\ found'["rubric"] = IF Approved(v) THEN "approved" ELSE IF Unverifiable(v) THEN "unverifiable" ELSE "rejected"
      BY <2>1 DEF ReviewerAnswers, Inv, TaskTypes, Gates
    <3>2. pc' # "worker"
      BY <2>1, NextReviewerIs DEF ReviewerAnswers, GoTo
    <3>3. rec'.reasons = Reasons(v)
      BY <3>1 DEF Record
    <3>4. found'["rubric"] = "rejected" => "rubric" \in rec'.reasons
      BY <3>1, <3>3, RejectionHasReason
    <3>. QED BY <3>1, <3>2, <3>4 DEF InvWhy, Because, ToldWhy
  <2>2. ASSUME NEW ok \in BOOLEAN, Veto(ok) PROVE InvWhy'
    <3>1. found["rubric"] = "approved" /\ found'["rubric"] = "approved" /\ UNCHANGED <<disk, why>>
      BY <2>2 DEF Veto, Inv, TaskTypes, InOrder, CodeOk, Gates
    <3>2. pc' # "worker"
      <4>. DEFINE blocked == "vetoed" \in {found'[g] : g \in Gates}
      <4>1. pc' = NextReviewer(blocked, pc) /\ pc \in {"security", "test"}
        BY <2>2 DEF Veto, GoTo
      <4>. HIDE DEF blocked
      <4>. QED BY <4>1, NextReviewerIs
    <3>. QED BY <3>1, <3>2 DEF InvWhy, Because, ToldWhy
  <2>3. ASSUME PerfAnswers PROVE InvWhy'
    <3>1. pc = "perf" /\ pc' = "gates" /\ UNCHANGED task /\ found["rubric"] = "approved"
      BY <2>3 DEF PerfAnswers, GoTo, Inv, InOrder, CodeOk
    <3>. QED BY <3>1 DEF task, memory, InvWhy, Because, ToldWhy
  <2>. QED BY <1>3, <2>1, <2>2, <2>3 DEF Reviewers
<1>4. ASSUME Worker PROVE InvWhy'
  <2>1. ASSUME NEW tag \in {"sandbox", "skill"}, WorkerRefused(tag) PROVE InvWhy'
    BY <2>1, WhyOfEnding, ExhaustedFits DEF WorkerRefused, InvWhy, Stage
  <2>2. WorkerUnreadable => InvWhy'
    BY WhyOfEnding, ExhaustedFits DEF WorkerUnreadable, InvWhy, Stage
  <2>3. ASSUME NEW files \in BOOLEAN, WorkerAnswers(files) PROVE InvWhy'
    BY <2>3, WhyStays DEF WorkerAnswers, GoTo, task, memory
  <2>. QED BY <1>4, <2>1, <2>2, <2>3 DEF Worker
<1>5. ASSUME UNCHANGED task, Consulted \/ AskAgain \/ Retry PROVE InvWhy'
  BY <1>5 DEF Consulted, AskAgain, Ask, Retry, GoTo, task, memory, InvWhy, Because, ToldWhy
<1>6. ASSUME Forgotten, Raised PROVE InvWhy'
  BY <1>6 DEF Forgotten, Raised, GoTo, InvWhy, Because, ToldWhy
<1>7. ASSUME Reset PROVE InvWhy'
  BY <1>7, FreshTypes DEF Reset, calls, InvWhy, Because, ToldWhy
<1>8. ASSUME RunTests PROVE InvWhy'
  BY <1>8 DEF RunTests, GoTo, InvWhy, Because, ToldWhy
<1>9. ASSUME Rest PROVE InvWhy'
  BY <1>9 DEF Rest, vars, calls, task, memory, InvWhy, Because, ToldWhy
<1>. QED BY <1>1, <1>2, <1>3, <1>4, <1>5, <1>6, <1>7, <1>8, <1>9
     DEF Next, Going, Answer, Asking, CallFails, GiveUpAsking, Break

\* A Worker that is asked again for a task with criteria is told which gate sent its last
\* attempt back (runner.py:264-270).
THEOREM WorkerIsTold ==
    ASSUME Criteria # {} PROVE Spec => []ToldWhy
<1>1. Init => InvWhy
  BY FreshTypes DEF Init, CallInit, InvWhy, Because, ToldWhy
<1>2. Inv /\ InvWhy /\ [Next]_vars => InvWhy'
  BY WhyStep DEF vars, calls, task, memory, InvWhy, Because, ToldWhy
<1>3. InvWhy => ToldWhy
  BY DEF InvWhy
<1>. QED BY <1>1, <1>2, <1>3, InvHolds, PTL DEF Spec

==============================================================================
