----------------------------- MODULE MCPlanning ------------------------------
(***************************************************************************)
(* Small instances of PlanningPipeline.                                    *)
(***************************************************************************)
EXTENDS PlanningProps, TLC

CONSTANTS p1, p2

\* The back-steps that docs/runbook/failure-recovery.md and the comments of
\* TRANSITIONS name.
BackSteps ==
    {<<"stack_dialog", "intake_dialog">>, <<"prd_dialog", "stack_dialog">>,
     <<"mvp_scope_locking", "prd_dialog">>, <<"mvp_scope_locking", "prd_drafting">>,
     <<"prd_awaiting_approval", "prd_drafting">>,
     <<"prd_awaiting_approval", "mvp_scope_locking">>,
     <<"rfc_awaiting_approval", "rfc_drafting">>,
     <<"extend_prd_awaiting_approval", "extend_prd_dialog">>,
     <<"extend_rfc_awaiting_approval", "extend_rfc_drafting">>}

Reviews == Approvals \union BackSteps

\* "Manually setting a state is fine" (the same page): into a cycle without `extend`.
ByHand == {<<"done", "extend_dialog">>, <<"extend_dialog", "extend_prd_dialog">>,
           <<"extend_prd_dialog", "extend_prd_awaiting_approval">>}

ReviewsByHand == Reviews \union ByHand

\* Pausing at a gate and resuming behind it.
Pauses == Approvals \union {<<"prd_awaiting_approval", "paused">>, <<"paused", "rfc_drafting">>}

GivesUp == Approvals \union {<<s, "failed">> : s \in {"prd_drafting", "prd_dialog"}}

EitherMode == {TRUE, FALSE}
DialogOn   == {TRUE}
==============================================================================
