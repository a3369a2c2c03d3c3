-------------------------- MODULE PlanningPipeline ---------------------------
(***************************************************************************)
(* The commands of ortim/cli/planning.py that take a project from a brief  *)
(* to a task DAG, and round the cycles of `ortim extend`.  A command loads *)
(* state.json, decides what to do, and then writes one file after another, *)
(* with a call of a language model between most of them: it may be killed, *)
(* or a call may raise, between any two.  What a command still has to      *)
(* write is kept as a sequence of effects.                                 *)
(***************************************************************************)
EXTENDS Naturals, Sequences, FiniteSets, Lifecycle

CONSTANTS
  Process,     \* the processes that run commands
  Overlap,     \* whether a command may start while another one runs
  MaxCycle,    \* bound: cycles of `ortim extend`
  TurnCap,     \* ORTIM_DIALOG_TURN_CAP
  DialogModes, \* the values ORTIM_DIALOG_MODE takes, TRUE for on
  Brownfield,  \* whether `ortim init` may find an existing code base
  MayBlock,    \* whether the Extender may answer [BLOCKED-STACK]
  Moves,       \* the <<from, to>> pairs `ortim advance` is used for
  MaxMoves,    \* bound: moves that are no approvals
  MaxKills     \* bound: kills and exceptions

ASSUME PlanningAssumption ==
    /\ Overlap \in BOOLEAN /\ Brownfield \in BOOLEAN /\ MayBlock \in BOOLEAN
    /\ DialogModes \subseteq BOOLEAN
    /\ Moves \subseteq ProjectState \X ProjectState
    /\ MaxCycle \in Nat /\ TurnCap \in Nat \ {0} /\ MaxMoves \in Nat /\ MaxKills \in Nat

VARIABLES
  disk,    \* state.json: the state of the project, and whether it is archived
  files,   \* which of the plain artifacts exist
  locked,  \* whether scope.json carries locked_at
  prd,     \* prd[c]: the section of cycle c in PRD.md; cycle 0 is the document
  rfc,     \* the same for RFC.md
  dag,     \* the cycles whose tasks are in task_dag.json
  turns,   \* the turns recorded in .dialog/, up to TurnCap
  cmd,     \* cmd[p]: the command that process p runs
  moves,   \* counts the moves that are no approvals
  kills    \* counts the kills

vars == <<disk, files, locked, prd, rfc, dag, turns, cmd, moves, kills>>

Cycle   == 0 .. MaxCycle
File    == {"intent.json", "intent.md", "golden_path_inputs.json", "stack.json",
            "stack.md", "scope.json"}
Dialog  == {"intake_dialog", "stack_dialog", "prd_dialog"}

\* A section that a human has approved, as it stands, is "approved".
Section == {"none", "draft", "approved"}

Project == [state : ProjectState, archived : BOOLEAN]

Stage == {"babel", "analyst", "architect", "orchestrator", "extend_rfc",
          "extend_dag", "end", "off"}

\* What a command does next: save the project in a new state, or only remember
\* it; write an artifact; write PRD.md or RFC.md anew, or append a section; write
\* task_dag.json or scope.json; record a turn.
Effect ==
    [op : {"save", "enter"}, to : ProjectState]
        \union [op : {"write"}, file : File]
        \union [op : {"prd", "rfc"}, cycle : Cycle]
        \union [op : {"dag"}, cycles : SUBSET Cycle]
        \union [op : {"seed"}]
        \union [op : {"scope"}, lock : BOOLEAN]
        \union [op : {"turn"}, dialog : Dialog]

Save(s)      == [op |-> "save", to |-> s]
Enter(s)     == [op |-> "enter", to |-> s]
Write(f)     == [op |-> "write", file |-> f]
WritePrd(c)  == [op |-> "prd", cycle |-> c]
WriteRfc(c)  == [op |-> "rfc", cycle |-> c]
WriteDag(cs) == [op |-> "dag", cycles |-> cs]
SeedScope    == [op |-> "seed"]
WriteScope(b) == [op |-> "scope", lock |-> b]
Turn(d)      == [op |-> "turn", dialog |-> d]

\* stage: the part of `ortim run` that comes next; todo: the effects before it.
Cmd == [stage : Stage, proj : Project, todo : Seq(Effect)]

NewProject == [state |-> "intake", archived |-> FALSE]
Off        == [stage |-> "off", proj |-> NewProject, todo |-> <<>>]

TypeOK ==
    /\ disk \in Project
    /\ files \subseteq File
    /\ locked \in BOOLEAN
    /\ prd \in [Cycle -> Section]
    /\ rfc \in [Cycle -> Section]
    /\ dag \subseteq Cycle
    /\ turns \in [Dialog -> 0 .. TurnCap]
    /\ cmd \in [Process -> Cmd]
    /\ moves \in 0 .. MaxMoves
    /\ kills \in 0 .. MaxKills

\* `ortim init`; on an existing code base it skips Babel.
Init ==
    /\ \/ disk = NewProject /\ files = {}
       \/ /\ Brownfield
          /\ disk = [NewProject EXCEPT !.state = "prd_drafting"]
          /\ files = {"intent.json"}
    /\ locked = FALSE
    /\ prd = [c \in Cycle |-> "none"]
    /\ rfc = [c \in Cycle |-> "none"]
    /\ dag = {}
    /\ turns = [d \in Dialog |-> 0]
    /\ cmd = [p \in Process |-> Off]
    /\ moves = 0
    /\ kills = 0

------------------------------------------------------------------------------
(* What the commands write                                                 *)

OneOf(b, e) == IF b THEN <<e>> ELSE <<>>

\* Babel, up to the dialog or to PRD_DRAFTING.
BabelScript(s, dialog) ==
    OneOf(s = "intake", Save("babel_processing")) \o <<Write("intent.json")>> \o
    IF dialog THEN <<Save("intake_dialog"), Write("intent.md"), Turn("intake_dialog")>>
              ELSE <<Save("prd_drafting")>>

AnalystScript == <<WritePrd(0), SeedScope, Save("mvp_scope_locking")>>

\* The Architect saves the project once more when it changes app_class.
ArchitectScript(s, cached, reclassed) ==
    OneOf(s = "prd_approved", Save("rfc_drafting")) \o
    (IF cached THEN <<>> ELSE OneOf(reclassed, Save("rfc_drafting"))
                              \o <<Write("golden_path_inputs.json")>>) \o
    <<WriteRfc(0), Save("rfc_awaiting_approval")>>

\* The Orchestrator; no valid DAG after three answers fails the project.
OrchestratorScript(s, valid) ==
    OneOf(s = "rfc_approved", Save("tasks_generating")) \o
    IF valid THEN <<WriteDag({0}), Save("tasks_ready")>> ELSE <<Save("failed")>>

\* Mutant of ExtendRfcScript: the state after the draft is not saved.
ExtendRfcScriptUnsaved(c, blocked) ==
    <<Save("extend_rfc_drafting")>> \o
    IF blocked THEN <<>> ELSE <<WriteRfc(c), Enter("extend_rfc_awaiting_approval")>>

ExtendRfcScript(c, blocked) ==
    <<Save("extend_rfc_drafting")>> \o
    IF blocked THEN <<>> ELSE <<WriteRfc(c), Save("extend_rfc_awaiting_approval")>>

\* Mutant of ExtendDagScript: the state is saved before the tasks are.
ExtendDagScriptEarlySave(c, valid) ==
    <<Save("tasks_generating")>> \o
    IF valid THEN <<Save("tasks_ready"), WriteDag(dag \union {c})>> ELSE <<Save("failed")>>

ExtendDagScript(c, valid) ==
    <<Save("tasks_generating")>> \o
    IF valid THEN <<WriteDag(dag \union {c}), Save("tasks_ready")>> ELSE <<Save("failed")>>

ExtendScript(c, blocked) ==
    <<Enter("extend_dialog"), Save("extend_prd_dialog")>> \o
    IF blocked THEN <<>> ELSE <<WritePrd(c), Save("extend_prd_awaiting_approval")>>

RefineScript(d) ==
    CASE d = "intake_dialog" -> <<Write("intent.md"), Turn(d)>>
      [] d = "stack_dialog"  -> <<Write("stack.json"), Write("stack.md"), Turn(d)>>
      [] d = "prd_dialog"    -> <<WritePrd(0), Turn(d)>>

\* Mutant of LockIntake: a file name that Architect and refine do not look for.
LockIntakeWrongFile ==
    <<Save("stack_dialog"), Write("golden_path.json"), Write("stack.json"),
      Write("stack.md"), Turn("stack_dialog")>>

LockIntake ==
    <<Save("stack_dialog"), Write("golden_path_inputs.json"), Write("stack.json"),
      Write("stack.md"), Turn("stack_dialog")>>

\* Mutant of LockStack: the stack dialog is not left.
LockStackStays == <<WritePrd(0), Turn("prd_dialog")>>

LockStack == <<Save("prd_dialog"), WritePrd(0), Turn("prd_dialog")>>

LockPrd == <<SeedScope, Save("mvp_scope_locking")>>

LockScript(d) ==
    CASE d = "intake_dialog" -> LockIntake
      [] d = "stack_dialog"  -> LockStack
      [] d = "prd_dialog"    -> LockPrd

\* Mutants of ScopeScript: the gate is opened before the scope is locked; the
\* gate is passed over.
ScopeScriptEarlyGate(reset, edit, lock) ==
    OneOf(reset, WriteScope(FALSE)) \o
    OneOf(edit, WriteScope(~reset /\ locked)) \o
    IF lock THEN <<Save("prd_awaiting_approval"), WriteScope(TRUE)>> ELSE <<>>

ScopeScriptNoGate(reset, edit, lock) ==
    OneOf(reset, WriteScope(FALSE)) \o
    OneOf(edit, WriteScope(~reset /\ locked)) \o
    IF lock THEN <<WriteScope(TRUE), Save("prd_approved")>> ELSE <<>>

\* `ortim scope`: --reset, --set or the prompts, --lock.
ScopeScript(reset, edit, lock) ==
    OneOf(reset, WriteScope(FALSE)) \o
    OneOf(edit, WriteScope(~reset /\ locked)) \o
    IF lock THEN <<WriteScope(TRUE), Save("prd_awaiting_approval")>> ELSE <<>>

------------------------------------------------------------------------------
(* The stages of `ortim run`                                               *)

Has(doc) == doc[0] # "none"

\* The highest extension section of a document, 0 if it has none.
LastCycle(doc) == CHOOSE c \in Cycle :
    /\ c > 0 => doc[c] # "none"
    /\ \A d \in Cycle : d > c => doc[d] = "none"

Running(p) == cmd[p].stage # "off"

\* Process p is about to enter a stage, in state s of the project it loaded.
AtStage(p, stage) == cmd[p].stage = stage /\ cmd[p].todo = <<>>

Do(p, script, next) == cmd' = [cmd EXCEPT ![p].todo = script, ![p].stage = next]

OnlyCommand == UNCHANGED <<disk, files, locked, prd, rfc, dag, turns, moves, kills>>

\* Mutant of TasksDue: the Orchestrator does not wait for G2.
TasksDueBeforeG2(s) ==
    s \in {"rfc_awaiting_approval", "rfc_approved"} \/ (s = "tasks_generating" /\ dag = {})

\* A stage is due in its own state, and in the state that it leaves behind when
\* its artifact is not there.
BabelDue(s)     == s = "intake" \/ (s = "babel_processing" /\ "intent.json" \notin files)
ArchitectDue(s) == s = "prd_approved" \/ (s = "rfc_drafting" /\ ~Has(rfc))
TasksDue(s)     == s = "rfc_approved" \/ (s = "tasks_generating" /\ dag = {})

Due(p, stage) ==
    LET s == cmd[p].proj.state
    IN  CASE stage = "babel"        -> BabelDue(s)
          [] stage = "analyst"      -> s = "prd_drafting"
          [] stage = "architect"    -> ArchitectDue(s)
          [] stage = "orchestrator" -> TasksDue(s)
          [] stage = "extend_rfc"   -> s = "extend_prd_approved"
          [] stage = "extend_dag"   -> s = "extend_rfc_approved"

\* The files without which a stage ends the command.
Ready(p, stage) ==
    CASE stage = "babel"        -> TRUE
      [] stage = "analyst"      -> "intent.json" \in files
      [] stage = "architect"    -> Has(prd)
      [] stage = "orchestrator" -> Has(rfc)
      [] stage = "extend_rfc"   -> /\ Has(prd) /\ Has(rfc) /\ "stack.json" \in files
                                   /\ LastCycle(prd) > 0
      [] stage = "extend_dag"   -> Has(rfc) /\ dag # {} /\ LastCycle(rfc) > 0

NextStage == [babel |-> "analyst", analyst |-> "architect", architect |-> "orchestrator",
              orchestrator |-> "extend_rfc", extend_rfc |-> "extend_dag", extend_dag |-> "end"]

PassStage(p, stage) ==
    /\ AtStage(p, stage)
    /\ ~Due(p, stage)
    /\ Do(p, <<>>, NextStage[stage])
    /\ OnlyCommand

StopAtStage(p, stage) ==
    /\ AtStage(p, stage)
    /\ Due(p, stage)
    /\ ~Ready(p, stage)
    /\ Do(p, <<>>, "end")
    /\ OnlyCommand

EnterStage(p, stage) == AtStage(p, stage) /\ Due(p, stage) /\ Ready(p, stage) /\ OnlyCommand

RunBabel(p) ==
    /\ EnterStage(p, "babel")
    /\ \E dialog \in DialogModes :
          Do(p, BabelScript(cmd[p].proj.state, dialog), IF dialog THEN "end" ELSE "analyst")

RunAnalyst(p) == EnterStage(p, "analyst") /\ Do(p, AnalystScript, "architect")

RunArchitect(p) ==
    /\ EnterStage(p, "architect")
    /\ \E reclassed \in BOOLEAN :
          Do(p, ArchitectScript(cmd[p].proj.state,
                                {"stack.json", "golden_path_inputs.json"} \subseteq files,
                                reclassed),
             "orchestrator")

RunOrchestrator(p) ==
    /\ EnterStage(p, "orchestrator")
    /\ \E valid \in BOOLEAN :
          Do(p, OrchestratorScript(cmd[p].proj.state, valid),
             IF valid THEN "extend_rfc" ELSE "end")

RunExtendRfc(p) ==
    /\ EnterStage(p, "extend_rfc")
    /\ \E blocked \in {FALSE, MayBlock} :
          Do(p, ExtendRfcScript(LastCycle(prd), blocked), "extend_dag")

RunExtendDag(p) ==
    /\ EnterStage(p, "extend_dag")
    /\ \E valid \in BOOLEAN : Do(p, ExtendDagScript(LastCycle(rfc), valid), "end")

------------------------------------------------------------------------------
(* How a command starts, and its effects                                   *)

MayStart(p) == ~Running(p) /\ (Overlap \/ \A q \in Process : ~Running(q))

Start(p, stage, script) ==
    /\ MayStart(p)
    /\ cmd' = [cmd EXCEPT ![p] = [stage |-> stage, proj |-> disk, todo |-> script]]
    /\ OnlyCommand

StartRun(p) == ~disk.archived /\ Start(p, "babel", <<>>)

\* What refine needs besides a dialog state and a turn under the cap.
RefineReady(d) ==
    CASE d = "intake_dialog" -> "intent.json" \in files
      [] d = "stack_dialog"  -> {"intent.md", "golden_path_inputs.json"} \subseteq files
      [] d = "prd_dialog"    -> {"intent.md", "stack.json"} \subseteq files

StartRefine(p) ==
    /\ disk.state \in Dialog
    /\ turns[disk.state] < TurnCap
    /\ RefineReady(disk.state)
    /\ Start(p, "end", RefineScript(disk.state))

\* What lock needs: the artifact of the dialog, and the files of the next draft.
LockReady(d) ==
    CASE d = "intake_dialog" -> "intent.md" \in files
      [] d = "stack_dialog"  -> {"stack.md", "stack.json", "intent.md"} \subseteq files
      [] d = "prd_dialog"    -> Has(prd) /\ "intent.json" \in files
      [] OTHER               -> FALSE

StartLock(p) == LockReady(disk.state) /\ Start(p, "end", LockScript(disk.state))

StartScope(p, reset, edit, lock) ==
    /\ disk.state = "mvp_scope_locking"
    /\ IF reset THEN "intent.json" \in files ELSE "scope.json" \in files
    /\ Start(p, "end", ScopeScript(reset, edit, lock))

StartExtend(p) ==
    /\ disk.state = "done" /\ ~disk.archived
    /\ {"intent.md", "stack.json"} \subseteq files /\ Has(prd)
    /\ LastCycle(prd) < MaxCycle
    /\ \E blocked \in {FALSE, MayBlock} :
          Start(p, "end", ExtendScript(LastCycle(prd) + 1, blocked))

\* The next effect of process p, and what remains.
NextIs(p, op) == cmd[p].todo # <<>> /\ Head(cmd[p].todo).op = op
Rest(p) == cmd' = [cmd EXCEPT ![p].todo = Tail(@)]

\* Project.transition in memory, and Project.save of the whole project.
DoSave(p) ==
    /\ NextIs(p, "save")
    /\ LET now == [cmd[p].proj EXCEPT !.state = Head(cmd[p].todo).to]
       IN  /\ disk' = now
           /\ cmd' = [cmd EXCEPT ![p].todo = Tail(@), ![p].proj = now]
    /\ UNCHANGED <<files, locked, prd, rfc, dag, turns, moves, kills>>

DoEnter(p) ==
    /\ NextIs(p, "enter")
    /\ cmd' = [cmd EXCEPT ![p].todo = Tail(@), ![p].proj.state = Head(cmd[p].todo).to]
    /\ OnlyCommand

DoWrite(p) ==
    /\ NextIs(p, "write")
    /\ files' = files \union {Head(cmd[p].todo).file}
    /\ Rest(p)
    /\ UNCHANGED <<disk, locked, prd, rfc, dag, turns, moves, kills>>

\* A new document has no extensions; append_delta_section appends a cycle once.
Written(doc, c) ==
    IF c = 0 THEN [d \in Cycle |-> IF d = 0 THEN "draft" ELSE "none"]
    ELSE [doc EXCEPT ![c] = IF @ = "none" THEN "draft" ELSE @]

DoPrd(p) ==
    /\ NextIs(p, "prd")
    /\ prd' = Written(prd, Head(cmd[p].todo).cycle)
    /\ Rest(p)
    /\ UNCHANGED <<disk, files, locked, rfc, dag, turns, moves, kills>>

DoRfc(p) ==
    /\ NextIs(p, "rfc")
    /\ rfc' = Written(rfc, Head(cmd[p].todo).cycle)
    /\ Rest(p)
    /\ UNCHANGED <<disk, files, locked, prd, dag, turns, moves, kills>>

DoDag(p) ==
    /\ NextIs(p, "dag")
    /\ dag' = Head(cmd[p].todo).cycles
    /\ Rest(p)
    /\ UNCHANGED <<disk, files, locked, prd, rfc, turns, moves, kills>>

\* scope.json is seeded only where there is none.
DoSeed(p) ==
    /\ NextIs(p, "seed")
    /\ files' = files \union {"scope.json"}
    /\ locked' = (locked /\ "scope.json" \in files)
    /\ Rest(p)
    /\ UNCHANGED <<disk, prd, rfc, dag, turns, moves, kills>>

DoScope(p) ==
    /\ NextIs(p, "scope")
    /\ files' = files \union {"scope.json"}
    /\ locked' = Head(cmd[p].todo).lock
    /\ Rest(p)
    /\ UNCHANGED <<disk, prd, rfc, dag, turns, moves, kills>>

DoTurn(p) ==
    /\ NextIs(p, "turn")
    /\ turns' = [turns EXCEPT ![Head(cmd[p].todo).dialog] = IF @ < TurnCap THEN @ + 1 ELSE @]
    /\ Rest(p)
    /\ UNCHANGED <<disk, files, locked, prd, rfc, dag, moves, kills>>

End(p) ==
    /\ AtStage(p, "end")
    /\ cmd' = [cmd EXCEPT ![p] = Off]
    /\ OnlyCommand

\* The process is killed, or a language model or a file raises.
Kill(p) ==
    /\ Running(p)
    /\ kills < MaxKills
    /\ kills' = kills + 1
    /\ cmd' = [cmd EXCEPT ![p] = Off]
    /\ UNCHANGED <<disk, files, locked, prd, rfc, dag, turns, moves>>

------------------------------------------------------------------------------
(* The operator and the executor                                           *)

Quiet == Overlap \/ \A p \in Process : ~Running(p)

\* The human approves what the document says now.
Approved(doc) == IF Has(doc) THEN [doc EXCEPT ![LastCycle(doc)] = "approved"] ELSE doc

\* `ortim advance`: load, check the transition, save.
Advance(m) ==
    /\ Quiet
    /\ disk.state = m[1] /\ ~disk.archived
    /\ Allowed(m[1], m[2])
    /\ disk' = [disk EXCEPT !.state = m[2]]
    /\ prd' = IF m \in Approvals /\ m[2] \in {"prd_approved", "extend_prd_approved"}
              THEN Approved(prd) ELSE prd
    /\ rfc' = IF m \in Approvals /\ m[2] \in {"rfc_approved", "extend_rfc_approved"}
              THEN Approved(rfc) ELSE rfc
    /\ moves < MaxMoves \/ m \in Approvals
    /\ moves' = IF m \in Approvals THEN moves ELSE moves + 1
    /\ UNCHANGED <<files, locked, dag, turns, cmd, kills>>

\* `ortim workspace archive`.
Archive ==
    /\ Quiet
    /\ ~disk.archived
    /\ moves < MaxMoves
    /\ moves' = moves + 1
    /\ disk' = [disk EXCEPT !.archived = TRUE]
    /\ UNCHANGED <<files, locked, prd, rfc, dag, turns, cmd, kills>>

Unarchive ==
    /\ Quiet
    /\ disk.archived
    /\ disk' = [disk EXCEPT !.archived = FALSE]
    /\ UNCHANGED <<files, locked, prd, rfc, dag, turns, cmd, moves, kills>>

\* `ortim run-all`, as far as planning sees it.
ExecuteTasks ==
    /\ Quiet
    /\ disk.state \in {"tasks_ready", "executing"} /\ ~disk.archived
    /\ dag # {} /\ Has(rfc)
    /\ disk' = [disk EXCEPT !.state = IF @ = "tasks_ready" THEN "executing" ELSE "done"]
    /\ UNCHANGED <<files, locked, prd, rfc, dag, turns, cmd, moves, kills>>

------------------------------------------------------------------------------
Effects(p) ==
    \/ DoSave(p) \/ DoEnter(p) \/ DoWrite(p) \/ DoPrd(p) \/ DoRfc(p)
    \/ DoDag(p) \/ DoSeed(p) \/ DoScope(p) \/ DoTurn(p)

Stages(p) ==
    \/ \E stage \in DOMAIN NextStage : PassStage(p, stage) \/ StopAtStage(p, stage)
    \/ RunBabel(p) \/ RunAnalyst(p) \/ RunArchitect(p) \/ RunOrchestrator(p)
    \/ RunExtendRfc(p) \/ RunExtendDag(p)

Command(p) == Effects(p) \/ Stages(p) \/ End(p)

Starts(p) ==
    \/ StartRun(p) \/ StartRefine(p) \/ StartLock(p) \/ StartExtend(p)
    \/ \E reset, edit, lock \in BOOLEAN : StartScope(p, reset, edit, lock)

Next ==
    \/ \E p \in Process : Command(p) \/ Starts(p) \/ Kill(p)
    \/ \E m \in Moves : Advance(m)
    \/ Archive \/ Unarchive
    \/ ExecuteTasks

Spec == Init /\ [][Next]_vars

\* Commands go on: every call has a timeout.  The operator does, again and again,
\* what _print_next_action proposes.
DiligentSpec ==
    /\ Spec
    /\ \A p \in Process :
          /\ WF_vars(Command(p))
          /\ SF_vars(StartRun(p)) /\ SF_vars(StartLock(p)) /\ SF_vars(StartExtend(p))
          /\ SF_vars(StartScope(p, FALSE, FALSE, TRUE))
    /\ SF_vars(\E m \in Moves \intersect Approvals : Advance(m))
    /\ SF_vars(ExecuteTasks)

==============================================================================
