----------------------------- MODULE TaskLedger ------------------------------
(***************************************************************************)
(* What the executor promises about the tasks of a DAG, whatever branches, *)
(* retries and commands are behind it: a task lands on main once, after    *)
(* the tasks that it depends on; a task held for a human does not land     *)
(* before somebody releases it; the project is finished when every task    *)
(* has landed.                                                             *)
(***************************************************************************)
EXTENDS TaskDag

VARIABLES landed,    \* the tasks whose accepted output is on main
          held,      \* the tasks that wait for a human
          finished   \* whether the project is done

ledger == <<landed, held, finished>>

LedgerTypeOK ==
    /\ landed \subseteq Task
    /\ held \subseteq Task
    /\ finished \in BOOLEAN

LedgerInit ==
    /\ landed = {}
    /\ held = {}
    /\ finished = FALSE

Land(t) ==
    /\ t \notin landed \union held
    /\ Deps[t] \subseteq landed
    /\ landed' = landed \union {t}
    /\ UNCHANGED <<held, finished>>

Hold(t) ==
    /\ t \notin landed
    /\ held' = held \union {t}
    /\ UNCHANGED <<landed, finished>>

Release(t) ==
    /\ held' = held \ {t}
    /\ UNCHANGED <<landed, finished>>

FinishProject ==
    /\ landed = Task
    /\ finished' = TRUE
    /\ UNCHANGED <<landed, held>>

LedgerNext ==
    \/ FinishProject
    \/ \E t \in Task : Land(t) \/ Hold(t) \/ Release(t)

LedgerSpec == LedgerInit /\ [][LedgerNext]_ledger
==============================================================================
