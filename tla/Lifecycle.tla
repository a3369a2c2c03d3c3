----------------------------- MODULE Lifecycle -------------------------------
(***************************************************************************)
(* The life of a project: ProjectState, TRANSITIONS and HITL_GATES of      *)
(* ortim/orchestrator/state_machine.py.                                    *)
(***************************************************************************)

Resumable == {"intake_dialog", "stack_dialog", "prd_dialog", "prd_drafting",
              "mvp_scope_locking", "rfc_drafting", "tasks_ready", "executing",
              "schema_awaiting_approval", "budget_awaiting_approval",
              "deploy_awaiting_approval", "extend_dialog", "extend_prd_dialog",
              "extend_rfc_drafting"}

Transitions == [
  intake                       |-> {"babel_processing", "prd_drafting", "failed"},
  babel_processing             |-> {"prd_drafting", "intake_dialog", "failed"},
  intake_dialog                |-> {"stack_dialog", "paused", "failed"},
  stack_dialog                 |-> {"prd_dialog", "intake_dialog", "paused", "failed"},
  prd_dialog                   |-> {"mvp_scope_locking", "stack_dialog", "paused", "failed"},
  prd_drafting                 |-> {"mvp_scope_locking", "failed"},
  mvp_scope_locking            |-> {"prd_awaiting_approval", "prd_dialog", "prd_drafting",
                                    "paused", "failed"},
  prd_awaiting_approval        |-> {"prd_approved", "prd_drafting", "mvp_scope_locking",
                                    "paused", "failed"},
  prd_approved                 |-> {"rfc_drafting"},
  rfc_drafting                 |-> {"rfc_awaiting_approval", "failed"},
  rfc_awaiting_approval        |-> {"rfc_approved", "rfc_drafting", "paused", "failed"},
  rfc_approved                 |-> {"tasks_generating"},
  tasks_generating             |-> {"tasks_ready", "failed"},
  tasks_ready                  |-> {"executing", "schema_awaiting_approval", "paused"},
  schema_awaiting_approval     |-> {"executing", "tasks_ready", "paused", "failed"},
  executing                    |-> {"done", "deploy_awaiting_approval",
                                    "budget_awaiting_approval", "failed", "paused"},
  budget_awaiting_approval     |-> {"executing", "paused", "failed"},
  deploy_awaiting_approval     |-> {"done", "executing", "paused", "failed"},
  paused                       |-> Resumable \union {"failed"},
  done                         |-> {"extend_dialog"},
  failed                       |-> {},
  extend_dialog                |-> {"extend_prd_dialog", "paused", "failed"},
  extend_prd_dialog            |-> {"extend_prd_awaiting_approval", "extend_dialog",
                                    "paused", "failed"},
  extend_prd_awaiting_approval |-> {"extend_prd_approved", "extend_prd_dialog",
                                    "paused", "failed"},
  extend_prd_approved          |-> {"extend_rfc_drafting"},
  extend_rfc_drafting          |-> {"extend_rfc_awaiting_approval", "failed"},
  extend_rfc_awaiting_approval |-> {"extend_rfc_approved", "extend_rfc_drafting",
                                    "paused", "failed"},
  extend_rfc_approved          |-> {"tasks_generating"}]

ProjectState == DOMAIN Transitions

\* validate_transition does not raise.
Allowed(from, to) == to \in Transitions[from]

\* The approvals of HITL_GATES that `ortim advance <alias>` gives.
Approvals == {<<"prd_awaiting_approval", "prd_approved">>,
              <<"rfc_awaiting_approval", "rfc_approved">>,
              <<"schema_awaiting_approval", "executing">>,
              <<"budget_awaiting_approval", "executing">>,
              <<"deploy_awaiting_approval", "done">>,
              <<"extend_prd_awaiting_approval", "extend_prd_approved">>,
              <<"extend_rfc_awaiting_approval", "extend_rfc_approved">>}
==============================================================================
