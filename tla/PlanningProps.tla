---------------------------- MODULE PlanningProps ----------------------------
(***************************************************************************)
(* What PlanningPipeline is checked for.                                   *)
(***************************************************************************)
EXTENDS PlanningPipeline

\* The gates are structural: a section of RFC.md rests on a section of PRD.md that
\* a human approved and nobody rewrote, and tasks rest on an approved RFC section.
GateOrder ==
    \A c \in Cycle :
        /\ rfc[c] # "none" => prd[c] = "approved"
        /\ c \in dag => rfc[c] = "approved"

\* The states of the first pass from the given one on, and those of the cycles.
FromG1 == {"prd_awaiting_approval", "prd_approved", "rfc_drafting",
           "rfc_awaiting_approval", "rfc_approved", "tasks_generating"}
FromG2 == {"rfc_awaiting_approval", "rfc_approved", "tasks_generating"}
Planned == {"tasks_ready", "executing", "done"}
Extending == {"extend_dialog", "extend_prd_dialog", "extend_prd_awaiting_approval",
              "extend_prd_approved", "extend_rfc_drafting", "extend_rfc_awaiting_approval",
              "extend_rfc_approved"}

\* The state on disk never promises an artifact that is not there, whatever crash
\* came between the artifact and the state: PRD.md and a locked scope.json from G1
\* on, RFC.md from G2 on, tasks from TASKS_READY on.
ArtifactsBehindState ==
    /\ disk.state \in FromG1 \union Planned \union Extending =>
          Has(prd) /\ "scope.json" \in files /\ locked
    /\ disk.state \in FromG2 \union Planned \union Extending => Has(rfc)
    /\ disk.state \in Planned \union Extending => dag # {}

\* What a human approved in RFC.md has its tasks before anybody executes.
ApprovedIsPlanned ==
    disk.state \in Planned => \A c \in Cycle : rfc[c] = "approved" => c \in dag

\* Two moves of `extend` are saved at once.
Saved(from, to) ==
    Allowed(from, to) \/ (from = "done" /\ to = "extend_prd_dialog")

\* state.json moves along TRANSITIONS only.
StateFollowsTable ==
    [][disk'.state # disk.state => Saved(disk.state, disk'.state)]_vars

\* An operator who follows the proposals of _print_next_action gets tasks, or a
\* failed project, out of every project.
PlanningCompletes ==
    (disk.state \in {"intake", "prd_drafting"}) ~> (disk.state \in Planned \union {"failed"})

\* ... and out of every cycle of `ortim extend`.
ExtensionCompletes ==
    (disk.state \in Extending) ~> (disk.state \in Planned \union {"failed"})

------------------------------------------------------------------------------
(* What the documentation says and the code does not do                    *)

AtRest == \A p \in Process : ~Running(p)

\* The states for which _NEXT_ACTIONS proposes `ortim run`.
RunStates == {"intake", "babel_processing", "prd_drafting", "prd_approved", "rfc_drafting",
              "rfc_approved", "tasks_generating", "extend_prd_approved",
              "extend_rfc_drafting", "extend_rfc_approved"}

\* "Transient states map to `run` because re-running resumes them"
\* (ortim/cli/_globals.py): whoever keeps running gets the project out of them.
RunResumes == \A s \in RunStates : (disk.state = s) ~> (disk.state # s)

\* `ortim lock` is what _NEXT_ACTIONS proposes in EXTEND_PRD_DIALOG, "so no command
\* output leaves the operator at a dead end" (ortim/cli/_globals.py).
ProposedLockIsAccepted ==
    AtRest /\ disk.state \in {"extend_dialog", "extend_prd_dialog"} => LockReady(disk.state)

\* `ortim extend` is what _NEXT_ACTIONS proposes for a project that is DONE.
DoneCanBeExtended ==
    disk.state = "done" => {"intent.md", "stack.json"} \subseteq files

\* An archived workspace "blocks mutating commands" (docs/tutorial/getting-started.md).
ArchivedIsFrozen ==
    [][disk.archived /\ disk'.archived =>
          UNCHANGED <<disk, files, locked, prd, rfc, dag>>]_vars
------------------------------------------------------------------------------
(* The inductive invariant                                                 *)

(* Moves of the table with which an operator vouches for an artifact that no command wrote:
   out of PAUSED, which has forgotten what was paused, and forward past a draft, the lock of
   the scope, or the tasks. *)
Skips == ({"paused"} \X ProjectState)
    \union ({"prd_drafting", "prd_dialog"} \X {"mvp_scope_locking"})
    \union {<<"mvp_scope_locking", "prd_awaiting_approval">>,
            <<"rfc_drafting", "rfc_awaiting_approval">>,
            <<"tasks_generating", "tasks_ready">>}

\* What is left of a script, from its end
First(t, e) == t # <<>> /\ Head(t) = e
Plain(t)     == \A i \in DOMAIN t : t[i].op \in {"write", "turn"}
BabelEnd(t)  == \/ First(t, Save("intake_dialog")) /\ Plain(Tail(t))
                \/ t = <<Save("prd_drafting")>>
BabelLeft(t) == First(t, Write("intent.json")) /\ BabelEnd(Tail(t))
PrdLeft(t)   == First(t, WritePrd(0)) /\ Plain(Tail(t))
SeedLeft(t)  == First(t, SeedScope) /\ Tail(t) = <<Save("mvp_scope_locking")>>
LockLeft(t)  == First(t, WriteScope(TRUE)) /\ Tail(t) = <<Save("prd_awaiting_approval")>>
EditLeft(t)  == \/ t = <<>> \/ LockLeft(t)
                \/ /\ \E b \in BOOLEAN : First(t, WriteScope(b))
                   /\ Tail(t) = <<>> \/ LockLeft(Tail(t))
ScopeLeft(t) == EditLeft(t) \/ (First(t, WriteScope(FALSE)) /\ EditLeft(Tail(t)))
RfcLeft(t)   == First(t, WriteRfc(0)) /\ Tail(t) = <<Save("rfc_awaiting_approval")>>
InputsLeft(t) == RfcLeft(t) \/ (First(t, Write("golden_path_inputs.json")) /\ RfcLeft(Tail(t)))
DraftLeft(t) == InputsLeft(t) \/ (First(t, Save("rfc_drafting")) /\ InputsLeft(Tail(t)))
DagLeft(t)   == \/ t = <<Save("failed")>>
                \/ \E cs \in SUBSET Cycle : First(t, WriteDag(cs)) /\ Tail(t) = <<Save("tasks_ready")>>
ExtendPrdLeft(t) ==
    \/ t = <<>>
    \/ \E c \in Cycle \ {0} : First(t, WritePrd(c)) /\ Tail(t) = <<Save("extend_prd_awaiting_approval")>>
ExtendLeft(t) == First(t, Save("extend_prd_dialog")) /\ ExtendPrdLeft(Tail(t))
ExtendRfcLeft(t) ==
    \/ t = <<>>
    \/ \E c \in Cycle \ {0} : First(t, WriteRfc(c)) /\ Tail(t) = <<Save("extend_rfc_awaiting_approval")>>

\* What a command may have left to do in a state of the project it loaded
InOrder(s, t) ==
    \/ Plain(t)
    \/ s = "intake" /\ First(t, Save("babel_processing")) /\ BabelLeft(Tail(t))
    \/ s = "babel_processing" /\ (BabelLeft(t) \/ BabelEnd(t))
    \/ s = "intake_dialog" /\ First(t, Save("stack_dialog")) /\ Plain(Tail(t))
    \/ s = "stack_dialog" /\ First(t, Save("prd_dialog")) /\ PrdLeft(Tail(t))
    \/ s = "prd_dialog" /\ PrdLeft(t)
    \/ s = "prd_drafting" /\ First(t, WritePrd(0)) /\ SeedLeft(Tail(t))
    \/ s \in {"prd_dialog", "prd_drafting"} /\ (SeedLeft(t) \/ t = <<Save("mvp_scope_locking")>>)
    \/ s = "mvp_scope_locking" /\ (ScopeLeft(t) \/ t = <<Save("prd_awaiting_approval")>>)
    \/ s = "prd_approved" /\ First(t, Save("rfc_drafting")) /\ DraftLeft(Tail(t))
    \/ s = "rfc_drafting" /\ (DraftLeft(t) \/ t = <<Save("rfc_awaiting_approval")>>)
    \/ s \in {"rfc_approved", "extend_rfc_approved"} /\ First(t, Save("tasks_generating")) /\ DagLeft(Tail(t))
    \/ s = "tasks_generating" /\ (DagLeft(t) \/ t = <<Save("tasks_ready")>>)
    \/ s = "done" /\ First(t, Enter("extend_dialog")) /\ ExtendLeft(Tail(t))
    \/ s = "extend_dialog" /\ ExtendLeft(t)
    \/ s = "extend_prd_dialog" /\ (ExtendPrdLeft(t) \/ t = <<Save("extend_prd_awaiting_approval")>>)
    \/ s = "extend_prd_approved" /\ First(t, Save("extend_rfc_drafting")) /\ ExtendRfcLeft(Tail(t))
    \/ s = "extend_rfc_drafting" /\ (ExtendRfcLeft(t) \/ t = <<Save("extend_rfc_awaiting_approval")>>)

\* The project of a command is the one on disk, but for a move that is saved with the next
Loaded(proj, t) ==
    \/ proj = disk
    \/ /\ proj = [disk EXCEPT !.state = "extend_dialog"] /\ disk.state = "done"
       /\ First(t, Save("extend_prd_dialog"))

OneRunning == \A p, q \in Process : Running(p) /\ Running(q) => p = q
Idle == \A p \in Process : ~Running(p) => cmd[p].todo = <<>>
Pending == \A p \in Process : Running(p) =>
    Loaded(cmd[p].proj, cmd[p].todo) /\ InOrder(cmd[p].proj.state, cmd[p].todo)
CommandInv == TypeOK /\ OneRunning /\ Idle /\ Pending

Signed == {c \in Cycle : rfc[c] = "approved"}

\* A section of RFC.md follows one of PRD.md, and tasks the whole of RFC.md, that are approved
Justified == {e \in Effect : /\ e.op = "rfc" => prd[e.cycle] = "approved"
                             /\ e.op = "dag" => e.cycles = Signed}

\* What the rest of a script rests on
Grounded(t) ==
    /\ t \in Seq(Justified)
    /\ SeedLeft(t) \/ t = <<Save("mvp_scope_locking")>> => Has(prd)
    /\ t = <<Save("mvp_scope_locking")>> => "scope.json" \in files
    /\ t = <<Save("prd_awaiting_approval")>> => locked
    /\ t = <<Save("rfc_awaiting_approval")>> => Has(rfc)
    /\ t = <<Save("tasks_ready")>> => dag = Signed /\ dag # {}

BeforeG1 == {"intake", "babel_processing", "intake_dialog", "stack_dialog", "prd_dialog",
             "prd_drafting", "mvp_scope_locking", "prd_awaiting_approval"}
FirstPass == {"prd_approved", "rfc_drafting", "rfc_awaiting_approval", "rfc_approved"}
Waiting == {"schema_awaiting_approval", "budget_awaiting_approval", "deploy_awaiting_approval"}
Extended(c) == c > 0 /\ (prd[c] # "none" \/ rfc[c] # "none")

\* What the state on disk stands for
Backed ==
    LET s == disk.state
    IN  /\ s \in BeforeG1 => \A c \in Cycle : rfc[c] = "none" /\ ~Extended(c)
        /\ s = "mvp_scope_locking" => Has(prd) /\ "scope.json" \in files
        /\ s \in FirstPass => prd[0] = "approved" /\ dag = {} /\ \A c \in Cycle : ~Extended(c)
        /\ s = "rfc_approved" => rfc[0] = "approved"
        /\ s = "tasks_generating" /\ dag = {} => Signed = {0}
        /\ s \in Planned \union Waiting \union (Extending \ {"extend_rfc_approved"}) => dag = Signed
        /\ s \in Waiting => dag # {} /\ Has(prd) /\ Has(rfc) /\ "scope.json" \in files /\ locked
        /\ s = "extend_prd_approved" => prd[LastCycle(prd)] = "approved"
        /\ s = "extend_rfc_approved" => Signed = dag \union {LastCycle(rfc)}

PlanningInv ==
    /\ CommandInv /\ GateOrder /\ ArtifactsBehindState /\ Backed
    /\ \A p \in Process : Running(p) => Grounded(cmd[p].todo)
==============================================================================
