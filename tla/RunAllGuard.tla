----------------------------- MODULE RunAllGuard -----------------------------
(***************************************************************************)
(* Several `ortim run-all` commands on one workspace, with the file lock   *)
(* as their only coordination.  Each reads task_status.json into memory    *)
(* when it starts, waits for the lock, and inside it executes the tasks    *)
(* that its copy does not show as done, one after the other, writing the   *)
(* whole copy back after each.  What one execution does is the subject of  *)
(* TaskRunner; here it is only what touches the lock: the lock directory   *)
(* is in the repository that a sequential run-all switches, and `git add   *)
(* -A` commits the pid file with the first task.                           *)
(***************************************************************************)
EXTENDS FileLock

CONSTANTS Task,       \* numbered in the order of the plan
          NoTask,
          Parallel    \* --parallel: the work is done in worktrees

ASSUME TaskAssumption ==
    /\ Task \subseteq Nat /\ NoTask \notin Task
    /\ Parallel \in BOOLEAN

VARIABLES disk,      \* the tasks that task_status.json shows as DONE
          mem,       \* the same in the memory of each process
          todo,      \* the tasks that this run of each has still to execute
          task,      \* the task that each process is executing
          step,      \* how far it is with it
          onBranch,  \* whether the commit of its task has a pid file of the lock
          onMain,    \* whether main has one
          astray,    \* whether HEAD was left on a branch with another pid file than main
          lost       \* history: a living holder's directory was stolen, or taken by git

repo == <<step, onBranch, onMain, astray>>
work == <<disk, mem, todo, task>>
vars == <<lock, work, repo, lost>>

Step == {"none", "work", "committed", "main", "merged"}

Init ==
    /\ LockInit
    /\ disk = {}
    /\ mem = [p \in Procs |-> {}]
    /\ todo = [p \in Procs |-> {}]
    /\ task = [p \in Procs |-> NoTask]
    /\ step = [p \in Procs |-> "none"]
    /\ onBranch = [p \in Procs |-> FALSE]
    /\ onMain = FALSE
    /\ astray = FALSE
    /\ lost = FALSE

\* _load_for_execute, then the lock
Start(p) ==
    /\ Wait(p)
    /\ mem' = [mem EXCEPT ![p] = disk]
    /\ todo' = [todo EXCEPT ![p] = Task \ disk]
    /\ UNCHANGED <<disk, task, repo, lost>>

\* A step of git leaves the lock directory as d.
Leaves(d) ==
    /\ dir' = d
    /\ age' = IF d = dir THEN age ELSE "fresh"
    /\ lost' = (lost \/ (dir # "none" /\ d = "none"))
    /\ UNCHANGED <<polls, clock>>

\* execute_task.  start_task_branch checks main out, which changes the lock directory
\* only if a killed command left HEAD on its branch; then git refuses to overwrite
\* the pid file (Refused).
Execute(p, t) ==
    /\ pc[p] = "inside" /\ task[p] = NoTask
    /\ t \in todo[p] /\ \A u \in todo[p] : t <= u
    /\ astray => dir # "pid"
    /\ todo' = [todo EXCEPT ![p] = @ \ {t}]
    /\ task' = [task EXCEPT ![p] = t]
    /\ step' = [step EXCEPT ![p] = "work"]
    /\ astray' = FALSE
    /\ Leaves(IF astray /\ onMain THEN "pid" ELSE dir)
    /\ UNCHANGED <<pc, disk, mem, onBranch, onMain>>

\* commit_changes: `git add -A` takes the pid file along.
Commit(p) ==
    /\ step[p] = "work" /\ ~Parallel
    /\ step' = [step EXCEPT ![p] = "committed"]
    /\ onBranch' = [onBranch EXCEPT ![p] = (dir = "pid")]
    /\ UNCHANGED <<lock, work, onMain, astray, lost>>

\* What is committed on the branch and not on main goes with the checkout of main,
\* and its directory with it; what main has may come back.
CheckoutMain(p) ==
    /\ step[p] = "committed"
    /\ onMain /\ ~onBranch[p] => dir # "pid"
    /\ \E d \in {"none", "empty", "pid"} :
          /\ IF onMain THEN d = "pid" \/ (onBranch[p] /\ d = dir)
             ELSE d = IF onBranch[p] /\ dir = "pid" THEN "none" ELSE dir
          /\ Leaves(d)
    /\ step' = [step EXCEPT ![p] = "main"]
    /\ UNCHANGED <<pc, work, onBranch, onMain, astray>>

\* The merge brings the pid file of the branch to main, or its deletion.
Merge(p) ==
    /\ step[p] = "main"
    /\ onBranch[p] /\ ~onMain => dir # "pid"
    /\ \E d \in {"none", "empty", "pid"} :
          /\ IF onBranch[p] THEN d = "pid" \/ (onMain /\ d = dir)
             ELSE d = IF onMain /\ dir = "pid" THEN "none" ELSE dir
          /\ Leaves(d)
    /\ onMain' = onBranch[p]
    /\ step' = [step EXCEPT ![p] = "merged"]
    /\ UNCHANGED <<pc, work, onBranch, astray>>

\* What the process knew goes with it.
Forget(p) ==
    /\ mem' = [mem EXCEPT ![p] = {}]
    /\ todo' = [todo EXCEPT ![p] = {}]
    /\ task' = [task EXCEPT ![p] = NoTask]
    /\ step' = [step EXCEPT ![p] = "none"]
    /\ onBranch' = [onBranch EXCEPT ![p] = FALSE]

\* git refuses to overwrite a pid file that is not the one it knows: at the first
\* checkout when HEAD is astray, later when another command wrote it (whose it is, is
\* not modelled).  GitOperationFailed leaves the guarded section.
Refused(p) ==
    /\ pc[p] = "inside" /\ dir = "pid"
    /\ \/ task[p] = NoTask /\ todo[p] # {} /\ astray
       \/ step[p] \in {"committed", "main"}
    /\ Goto(p, "unlink")
    /\ astray' = (astray \/ step[p] = "committed")
    /\ Forget(p)
    /\ UNCHANGED <<dir, age, polls, clock, disk, onMain, lost>>

\* Done or failed; status_file.save replaces the file by the copy in memory
Executed(p, done) ==
    /\ pc[p] = "inside" /\ task[p] # NoTask
    /\ step[p] = IF done /\ ~Parallel THEN "merged" ELSE "work"
    /\ mem' = IF done THEN [mem EXCEPT ![p] = @ \union {task[p]}] ELSE mem
    /\ disk' = mem'[p]
    /\ task' = [task EXCEPT ![p] = NoTask]
    /\ step' = [step EXCEPT ![p] = "none"]
    /\ onBranch' = [onBranch EXCEPT ![p] = FALSE]
    /\ UNCHANGED <<lock, todo, onMain, astray, lost>>

\* "timed out waiting for lock" ends the command.
GiveUp(p) ==
    /\ Timeout(p)
    /\ Forget(p)
    /\ UNCHANGED <<disk, onMain, astray, lost>>

\* Nothing is left to do, or something (a task that waits for a human, a gate, an
\* exception) stops the loop
Finish(p) ==
    /\ Leave(p)
    /\ task[p] = NoTask
    /\ Forget(p)
    /\ UNCHANGED <<disk, onMain, astray, lost>>

Kill(p) ==
    /\ Die(p)
    /\ Forget(p)
    /\ astray' = (astray \/ (step[p] = "committed" /\ (onBranch[p] \/ onMain)))
    /\ UNCHANGED <<disk, onMain, lost>>

\* Of the steps of the lock, only the removal of a stale directory can take one that
\* is held.
Locking(p) ==
    /\ Mkdir(p) \/ IsStale(p) \/ Sleep(p) \/ WritePid(p) \/ Release(p) \/ Steal(p)
    /\ lost' = (lost \/ (/\ pc[p] = "steal rmdir" /\ dir # "none" /\ dir' = "none"
                         /\ \E q \in Procs : pc[q] \in Guarded))
    /\ UNCHANGED <<work, repo>>

Work(p) ==
    \/ Locking(p)
    \/ \E t \in Task : Execute(p, t)
    \/ Commit(p) \/ CheckoutMain(p) \/ Merge(p) \/ Refused(p)
    \/ \E done \in BOOLEAN : Executed(p, done)
    \/ GiveUp(p) \/ Finish(p)

Ageing == Age /\ UNCHANGED <<work, repo, lost>>

Next ==
    \/ \E p \in Procs : Start(p) \/ Work(p) \/ Kill(p)
    \/ Ageing

Spec == Init /\ [][Next]_vars

\* A command that runs goes on, an execution ends, time passes, and somebody runs
\* the command again some day (a finished project in its next extension cycle).
Fairness ==
    /\ \A p \in Procs : WF_vars(Work(p)) /\ WF_vars(Start(p))
    /\ WF_vars(Ageing)

FairSpec == Spec /\ Fairness

------------------------------------------------------------------------------
TypeOK ==
    /\ dir \in {"none", "empty", "pid"}
    /\ age \in {"fresh", "stale"}
    /\ pc \in [Procs -> PC]
    /\ polls \in [Procs -> 0..MaxPolls]
    /\ overruns \in 0..MaxOverruns
    /\ fails \in 0..MaxFails
    /\ disk \subseteq Task
    /\ mem \in [Procs -> SUBSET Task]
    /\ todo \in [Procs -> SUBSET Task]
    /\ task \in [Procs -> Task \union {NoTask}]
    /\ step \in [Procs -> Step]
    /\ onBranch \in [Procs -> BOOLEAN]
    /\ onMain \in BOOLEAN /\ astray \in BOOLEAN /\ lost \in BOOLEAN

\* "Cross-process guard against concurrent run-all on the same workspace": two
\* commands never execute tasks at the same time.
OneRunAll ==
    \A p, q \in Procs : task[p] # NoTask /\ task[q] # NoTask => p = q

\* Two ways only lead to two commands that execute tasks at the same time: a waiter that
\* saw a stale directory removes one whose holder is alive, or git takes the directory
\* of the command it works for.  Kills, timeouts, orphans, removals that fail and
\* waiters that give up do not.
SharedOnlyIfLost == ~lost => OneRunAll

\* A command that waits for the lock gets it or gives up; one that has it ends.
CommandEnds == \A p \in Procs : pc[p] \notin AtRest ~> pc[p] \in AtRest

\* The directory that a dead command leaves does not stop the others for ever.
OrphanCleared ==
    \A p \in Procs :
        (dir # "none" /\ pc[p] = "dead" /\ \A q \in Procs \ {p} : pc[q] \notin Guarded)
            ~> (dir = "none" \/ \E q \in Procs : pc[q] \in Guarded)

\* A task that is done on disk stays done, whichever commands overlap.
DoneStays == [][disk \subseteq disk']_vars
==============================================================================
