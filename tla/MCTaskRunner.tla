---------------------------- MODULE MCTaskRunner -----------------------------
(***************************************************************************)
(* Small instances of TaskRunner.                                          *)
(***************************************************************************)
EXTENDS TaskRunnerProps, TLC

CONSTANTS t1, t2, t3

Apart   == [t \in {t1, t2} |-> {}]
Fork    == (t1 :> {}) @@ (t2 :> {}) @@ (t3 :> {t1, t2})

OnePhase == [t \in Task |-> 1]

Sequential == {[parallel |-> FALSE, stopOnFail |-> TRUE, phase |-> 1]}
AnyOrder   == {[parallel |-> FALSE, stopOnFail |-> b, phase |-> 1] : b \in BOOLEAN}
Parallel   == {[parallel |-> TRUE, stopOnFail |-> TRUE, phase |-> 1]}

AnyMode    == AnyOrder \union Parallel

NoMoves    == {}
Approvals  == {<<"budget_awaiting_approval", "executing">>,
               <<"schema_awaiting_approval", "executing">>}
==============================================================================
