----------------------------- MODULE TaskAttempt -----------------------------
(***************************************************************************)
(* One task under `ortim execute` or a sequential run-all: the attempts    *)
(* of execute_task with every agent, test and hook behind them, and the    *)
(* record that task_status.json gets after each.  TaskRunner has the same  *)
(* attempt as one of its verdicts, and the files and branches around it.   *)
(***************************************************************************)
EXTENDS AgentCalls, Sequences
CONSTANTS Criteria,     \* TaskSpec.acceptance_criteria
          Chain,        \* the reviewers of the ReviewerChain that are set
          MaxAttempts,  \* --max-attempts
          Sensitive,    \* the task has sensitive_categories
          MaxResets     \* bound: records that the operator resets

ASSUME AttemptAssumption ==
    /\ IsFiniteSet(Criteria) /\ Chain \subseteq {"security", "test", "perf"}
    /\ MaxAttempts \in Nat \ {0} /\ Sensitive \in BOOLEAN /\ MaxResets \in Nat

(* "partial" counts as "fail" wherever it is looked at.  An answer with another number of
   verdicts than there are criteria is refused (AskAgain), but not one that judges a criterion
   twice and another one never. *)
CriterionVerdict == [criterion : Criteria, status : {"pass", "fail", "unverifiable"}]
ReviewVerdict == [verdicts : [1..Cardinality(Criteria) -> CriterionVerdict], l1 : {"clean", "violated"}]
Gates == {"rubric", "tests", "security", "test", "hook"}
Tags == Gates \union {"sandbox", "skill", "sensitive"}

VARIABLES rec,      \* the TaskRunRecord in memory
          disk,     \* the one in task_status.json
          told,     \* prior_review_reasons of the worker's prompt
          found,    \* what the gates of this attempt have said
          judged,   \* the criteria with a verdict of this attempt
          signed,   \* --human-reviewed
          resets,
          vetoed,   \* a hard veto, until the operator resets the record
          why       \* the gate that sent the last attempt back
memory == <<rec, told, found, judged, signed>>
task == <<memory, disk, resets, vetoed, why>>
vars == <<calls, task>>

Fresh == [status |-> "PENDING", attempts |-> 0, reasons |-> {}]
Nothing == [g \in Gates |-> "open"]

Init ==
    /\ CallInit
    /\ rec = Fresh /\ told = {} /\ found = Nothing /\ judged = {} /\ signed = FALSE
    /\ disk = Fresh /\ resets = 0 /\ vetoed = FALSE /\ why = "none"

(***************************************************************************)
(* execute_task up to the worker's answer                                  *)
(***************************************************************************)
Begin(r) ==
    /\ rec' = [r EXCEPT !.status = "IN_PROGRESS", !.attempts = @ + 1]
    /\ told' = IF rec'.attempts > 1 THEN r.reasons ELSE {}
    /\ found' = Nothing /\ judged' = {}
    /\ GoTo("worker")
    /\ UNCHANGED <<unlogged, raises, disk, resets, vetoed, why>>

\* A task that is DONE or AWAITING_HITL is refused
Execute(s) == /\ pc = "idle" /\ disk.status = "PENDING"
              /\ signed' = s
              /\ Begin(disk)

\* The loop around execute_task, while the task is PENDING
Again == pc = "retry" /\ signed' = signed /\ Begin(disk)

Exhausted == IF rec.attempts >= MaxAttempts THEN "AWAITING_HITL" ELSE "PENDING"

(* The end of execute_task, and status_file.save: what the attempt knew is gone.  After DONE
   it is kept here for the properties. *)
Close(status, reasons) ==
    /\ disk' = [rec EXCEPT !.status = status, !.reasons = reasons]
    /\ GoTo(IF status = "PENDING" THEN "retry" ELSE "idle")
    /\ rec' = Fresh /\ told' = {}
    /\ found' = IF status = "DONE" THEN found ELSE Nothing
    /\ judged' = IF status = "DONE" THEN judged ELSE {}
    /\ signed' = (signed /\ status \in {"DONE", "PENDING"})

\* Not JSON, a skill that was not read, or a path or extension that the sandbox refuses
WorkerRefused(tag) ==
    /\ pc = "worker"
    /\ Answered
    /\ Close(Exhausted, {tag}) /\ why' = tag
    /\ UNCHANGED <<resets, vetoed>>

\* An answer whose body is no JSON: the ValueError of response.json() is caught with those of
\* the Worker, and the attempt is over without a row
WorkerUnreadable ==
    /\ pc = "worker"
    /\ NoRow /\ raises' = raises
    /\ Close(Exhausted, {"sandbox"}) /\ why' = "sandbox"
    /\ UNCHANGED <<resets, vetoed>>

\* The files are written; without files no tests are run
WorkerAnswers(files) ==
    /\ pc = "worker"
    /\ Answered
    /\ GoTo(IF files THEN "tests" ELSE "reviewer")
    /\ UNCHANGED task

(***************************************************************************)
(* Tests and the rubric                                                    *)
(***************************************************************************)
(* run_tests: nothing configured or a missing binary is a skip, a timeout a failure; pytest
   that finds no test under the scope of the task has passed. *)
TestOutcome(runner, exit) ==
    CASE runner = "none" \/ exit = "no_binary" -> "skipped"
      [] exit = "zero" \/ (runner = "pytest_scoped" /\ exit = "none_collected") -> "passed"
      [] OTHER -> "failed"

RunTests ==
    /\ pc = "tests"
    /\ \E runner \in {"none", "plain", "pytest_scoped"},
          exit \in {"zero", "nonzero", "none_collected", "timeout", "no_binary"} :
              found' = [found EXCEPT !["tests"] = TestOutcome(runner, exit)]
    /\ GoTo("reviewer")
    /\ UNCHANGED <<unlogged, raises, rec, disk, told, judged, signed, resets, vetoed, why>>

Statuses(v) == {v.verdicts[k].status : k \in DOMAIN v.verdicts}
Unverifiable(v) == "unverifiable" \in Statuses(v)
Approved(v) == v.l1 = "clean" /\ Statuses(v) = {"pass"}
\* ReviewVerdict.reasons: one for each verdict but "pass", one for each violation
Reasons(v) == IF Statuses(v) \subseteq {"pass"} /\ v.l1 = "clean" THEN {} ELSE {"rubric"}

\* Mutant of CodeOk: the tests are left to the reviewer.
CodeOkUntested(rubric, tests) == rubric = "approved"

CodeOk(rubric, tests) == rubric = "approved" /\ tests # "failed"

\* The reviewers of the chain, in order; a veto passes over the test reviewer, not over perf
NextReviewer(blocked, after) ==
    LET Open == Chain \intersect (CASE after = "reviewer" -> {"security", "test", "perf"}
                                    [] after = "security" -> {"test", "perf"}
                                    [] after = "test" -> {"perf"}
                                    [] after = "perf" -> {})
        Left == IF blocked THEN Open \ {"test"} ELSE Open
    IN CASE "security" \in Left -> "security"
         [] "security" \notin Left /\ "test" \in Left -> "test"
         [] Left = {"perf"} -> "perf"
         [] Left = {} -> "gates"

ReviewerAnswers(v) ==
    /\ pc = "reviewer"
    /\ Answered
    /\ judged' = {v.verdicts[k].criterion : k \in DOMAIN v.verdicts}
    /\ LET rubric == IF Approved(v) THEN "approved" ELSE IF Unverifiable(v) THEN "unverifiable" ELSE "rejected"
       IN /\ found' = [found EXCEPT !["rubric"] = rubric]
          /\ GoTo(IF CodeOk(rubric, found["tests"]) THEN NextReviewer(FALSE, "reviewer") ELSE "gates")
    /\ rec' = [rec EXCEPT !.reasons = Reasons(v)]
    /\ UNCHANGED <<disk, told, signed, resets, vetoed, why>>

(***************************************************************************)
(* The reviewer chain                                                      *)
(***************************************************************************)
\* A hard reject is approved = false; its severity is not looked at
Veto(ok) ==
    /\ pc \in {"security", "test"}
    /\ Answered
    /\ found' = [found EXCEPT ![pc] = IF ok THEN "approved" ELSE "vetoed"]
    /\ rec' = [rec EXCEPT !.reasons = IF ok THEN @ ELSE @ \union {pc}]
    /\ vetoed' = (vetoed \/ ~ok)
    /\ GoTo(NextReviewer("vetoed" \in {found'[g] : g \in Gates}, pc))
    /\ UNCHANGED <<disk, told, judged, signed, resets, why>>

\* The performance reviewer only adds suggestions
PerfAnswers == pc = "perf" /\ Answered /\ GoTo("gates") /\ UNCHANGED task

(***************************************************************************)
(* The end of the attempt                                                  *)
(***************************************************************************)
Blocked == "vetoed" \in {found["security"], found["test"]}
ChainOk == CodeOk(found["rubric"], found["tests"]) /\ ~Blocked

\* reasons.append("tests failed")
TestTag == IF found["tests"] = "failed" THEN {"tests"} ELSE {}

\* Mutant of EndWith: the reasons of the verdict are all that is kept.
EndWithVerdict(status, gate, tags) ==
    /\ Close(status, rec.reasons) /\ why' = gate
    /\ UNCHANGED <<unlogged, raises, resets, vetoed>>

EndWith(status, gate, tags) ==
    /\ Close(status, rec.reasons \union tags) /\ why' = gate
    /\ UNCHANGED <<unlogged, raises, resets, vetoed>>

HardVeto == /\ pc = "gates" /\ Blocked
            /\ EndWith("AWAITING_HITL", "veto", {})

\* The criteria themselves are broken: another attempt would not help
CannotVerify == /\ pc = "gates" /\ found["rubric"] = "unverifiable"
                /\ EndWith("AWAITING_HITL", "rubric", TestTag)

SendBack == /\ pc = "gates" /\ ~ChainOk /\ ~Blocked /\ found["rubric"] # "unverifiable"
            /\ EndWith(Exhausted, IF found["tests"] = "failed" THEN "tests" ELSE "rubric", TestTag)

\* run_hook("pre_commit"): nothing configured is a pass; the first command that fails or runs
\* out of time is a failure
HookFails == /\ pc = "gates" /\ ChainOk /\ found["hook"] = "open"
             /\ EndWith(Exhausted, "hook", {"hook"})
HookPasses == /\ pc = "gates" /\ ChainOk /\ found["hook"] = "open"
              /\ found' = [found EXCEPT !["hook"] = "passed"]
              /\ UNCHANGED <<calls, rec, disk, told, judged, signed, resets, vetoed, why>>

MaySign == ~Sensitive \/ signed

SignOffMissing == /\ pc = "gates" /\ found["hook"] = "passed" /\ ~MaySign
                  /\ EndWith("AWAITING_HITL", "sensitive", {"sensitive"})

\* Commit and merge; what they do is in TaskRunner
Land == /\ pc = "gates" /\ found["hook"] = "passed" /\ MaySign
        /\ EndWith("DONE", "none", {})

(***************************************************************************)
(* Around it                                                               *)
(***************************************************************************)
\* The operator edits task_status.json
Reset == /\ pc = "idle" /\ disk.status = "AWAITING_HITL" /\ resets < MaxResets
         /\ disk' = Fresh /\ resets' = resets + 1 /\ vetoed' = FALSE
         /\ why' = "none"
         /\ UNCHANGED <<calls, memory>>

\* The process is gone, and nothing of an attempt has been saved
Forgotten == /\ IF disk.status = "DONE"
                THEN UNCHANGED memory
                ELSE rec' = Fresh /\ told' = {} /\ found' = Nothing /\ judged' = {} /\ signed' = FALSE
             /\ UNCHANGED <<disk, resets, vetoed, why>>

\* A kill, or an exception of git, a file or a test runner
Break == pc # "idle" /\ Raised /\ UNCHANGED unlogged /\ Forgotten

\* The commands that plan refuse a project that is executing; `extend` is left out here
Planning(a) == disk = Fresh /\ a \in Planners

\* run-all drafts a README.md when all tasks are DONE, and ends without one when that fails
Documenting(a) == disk.status = "DONE" /\ a = "documenter"

Worker == \/ \E tag \in {"sandbox", "skill"} : WorkerRefused(tag)
          \/ WorkerUnreadable
          \/ \E files \in BOOLEAN : WorkerAnswers(files)
Reviewers == \/ \E v \in ReviewVerdict : ReviewerAnswers(v)
             \/ \E ok \in BOOLEAN : Veto(ok)
             \/ PerfAnswers
Ending == HardVeto \/ CannotVerify \/ SendBack \/ HookFails \/ HookPasses \/ SignOffMissing \/ Land
Answer == Worker \/ Reviewers \/ (UNCHANGED task /\ (Consulted \/ AskAgain))
Asking == (UNCHANGED task /\ Retry) \/ (Forgotten /\ (CallFails \/ GiveUpAsking))
Going == Again \/ RunTests \/ Ending \/ Answer \/ Asking
Command == \/ \E s \in BOOLEAN : Execute(s)
           \/ UNCHANGED task /\ \E a \in Agents : (Planning(a) \/ Documenting(a)) /\ Consult(a)
Rest == pc = "idle" /\ UNCHANGED vars

Next == Command \/ Going \/ Reset \/ Break \/ Rest
Spec == Init /\ [][Next]_vars

\* Every call has a timeout, and a command that runs goes on
FairSpec == Spec /\ WF_vars(Going)
==============================================================================
