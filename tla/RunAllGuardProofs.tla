-------------------------- MODULE RunAllGuardProofs --------------------------
(***************************************************************************)
(* Any number of commands, killed at any point, with directories that get  *)
(* stale under their holders, removals that fail and a git that switches   *)
(* the lock directory: as long as no directory of a living holder has been *)
(* taken, no two commands execute tasks at the same time.                  *)
(*                                                                         *)
(* That is not inductive: what carries it is that a process between mkdir  *)
(* and rmdir has its directory there, so that no other mkdir succeeds.     *)
(***************************************************************************)
EXTENDS RunAllGuard, TLAPS

DirBacksHolder == \A p \in Procs : pc[p] \in Guarded => dir # "none"

OneGuarded == \A p, q \in Procs : pc[p] \in Guarded /\ pc[q] \in Guarded => p = q

WorkIsInside == \A p \in Procs : task[p] # NoTask => pc[p] = "inside"

Kept ==
    /\ TypeOK
    /\ WorkIsInside
    /\ ~lost => DirBacksHolder /\ OneGuarded

------------------------------------------------------------------------------
\* What a step of the lock does to the types of its variables.
LEMMA LockTypes ==
    ASSUME TypeOK, NEW p \in Procs,
           Wait(p) \/ Timeout(p) \/ Leave(p) \/ Die(p) \/ Age \/ Locking(p)
    PROVE  /\ dir' \in {"none", "empty", "pid"} /\ age' \in {"fresh", "stale"}
           /\ pc' \in [Procs -> PC] /\ polls' \in [Procs -> 0..MaxPolls]
           /\ overruns' \in 0..MaxOverruns /\ fails' \in 0..MaxFails
<1> DEFINE Counts(m) == 0 \in 0..m /\ \A n \in 0..m : n < m => n + 1 \in 0..m
<1>0. Counts(MaxPolls) /\ Counts(MaxOverruns) /\ Counts(MaxFails)
  BY BoundsAssumption
<1> USE <1>0 DEF TypeOK, PC, AtRest, Guarded, Goto, EndWait, Touch, clock
<1>1. CASE Wait(p)
  BY <1>1 DEF Wait
<1>2. CASE Timeout(p)
  BY <1>2 DEF Timeout
<1>3. CASE Leave(p)
  BY <1>3 DEF Leave
<1>4. CASE Die(p)
  BY <1>4 DEF Die
<1>5. CASE Age
  BY <1>5 DEF Age
<1>6. CASE Locking(p)
  <2>1. CASE Mkdir(p)
    BY <2>1 DEF Mkdir
  <2>2. CASE IsStale(p)
    BY <2>2 DEF IsStale
  <2>3. CASE Sleep(p)
    BY <2>3 DEF Sleep
  <2>4. CASE WritePid(p)
    BY <2>4 DEF WritePid
  <2>5. CASE Release(p)
    BY <2>5 DEF Release, Unlink, Rmdir, RemoveFails
  <2>6. CASE Steal(p)
    BY <2>6 DEF Steal, Unlink, Rmdir, RemoveFails
  <2> QED
    BY <1>6, <2>1, <2>2, <2>3, <2>4, <2>5, <2>6 DEF Locking
<1> QED
  BY <1>1, <1>2, <1>3, <1>4, <1>5, <1>6

\* Every step of the commands keeps the types.
LEMMA TypeStep == TypeOK /\ [Next]_vars => TypeOK'
<1> SUFFICES ASSUME TypeOK, [Next]_vars PROVE TypeOK'
  OBVIOUS
<1> USE ProcsAssumption, TaskAssumption DEF TypeOK
<1>1. ASSUME NEW p \in Procs, Start(p) PROVE TypeOK'
  BY <1>1, LockTypes DEF Start, repo
<1>2. ASSUME NEW p \in Procs, Locking(p) PROVE TypeOK'
  <2>1. lost' \in BOOLEAN /\ UNCHANGED <<work, repo>>
    BY <1>2 DEF Locking
  <2> QED
    BY <1>2, <2>1, LockTypes DEF work, repo
<1> USE DEF lock, clock, work, repo, Step, Leaves
<1>3. ASSUME NEW p \in Procs, NEW t \in Task, Execute(p, t) PROVE TypeOK'
  BY <1>3 DEF Execute
<1>4. ASSUME NEW p \in Procs, Commit(p) PROVE TypeOK'
  BY <1>4 DEF Commit
<1>5. ASSUME NEW p \in Procs, CheckoutMain(p) PROVE TypeOK'
  BY <1>5 DEF CheckoutMain
<1>6. ASSUME NEW p \in Procs, Merge(p) PROVE TypeOK'
  BY <1>6 DEF Merge
<1>7. ASSUME NEW p \in Procs, Forget(p)
      PROVE  /\ mem' \in [Procs -> SUBSET Task] /\ todo' \in [Procs -> SUBSET Task]
             /\ task' \in [Procs -> Task \union {NoTask}]
             /\ step' \in [Procs -> Step] /\ onBranch' \in [Procs -> BOOLEAN]
  BY <1>7 DEF Forget
<1>8. ASSUME NEW p \in Procs, Refused(p) PROVE TypeOK'
  BY <1>7, <1>8 DEF Refused, Goto, PC, Guarded
<1>9. ASSUME NEW p \in Procs, NEW done \in BOOLEAN, Executed(p, done) PROVE TypeOK'
  <2>1. mem' \in [Procs -> SUBSET Task]
    BY <1>9 DEF Executed
  <2> QED
    BY <1>9, <2>1 DEF Executed
<1>10. ASSUME NEW p \in Procs, GiveUp(p) PROVE TypeOK'
  BY <1>7, <1>10, LockTypes DEF GiveUp
<1>11. ASSUME NEW p \in Procs, Finish(p) PROVE TypeOK'
  BY <1>7, <1>11, LockTypes DEF Finish
<1>12. ASSUME NEW p \in Procs, Kill(p) PROVE TypeOK'
  <2>1. astray' \in BOOLEAN
    BY <1>12 DEF Kill
  <2> QED
    BY <1>7, <1>12, <2>1, LockTypes DEF Kill
<1>13. CASE Ageing
  <2>1. age' \in {"fresh", "stale"} /\ overruns' \in 0..MaxOverruns
    BY <1>13, BoundsAssumption DEF Ageing, Age
  <2> QED
    BY <1>13, <2>1 DEF Ageing, Age
<1>14. CASE UNCHANGED vars
  BY <1>14 DEF vars
<1> QED
  BY <1>1, <1>2, <1>3, <1>4, <1>5, <1>6, <1>8, <1>9, <1>10, <1>11, <1>12, <1>13, <1>14
  DEF Next, Work

------------------------------------------------------------------------------
\* A step that keeps the directory, and brings nobody into the guarded section, keeps
\* the mutex.
LEMMA Quiet ==
    ASSUME TypeOK, DirBacksHolder, OneGuarded, dir # "none" => dir' # "none",
           \A p \in Procs : pc'[p] \in Guarded => pc[p] \in Guarded
    PROVE  DirBacksHolder' /\ OneGuarded'
  BY DEF DirBacksHolder, OneGuarded

\* The steps of the lock keep the mutex while no holder loses its directory.
LEMMA LockingKeeps ==
    ASSUME TypeOK, DirBacksHolder, OneGuarded, NEW p \in Procs, Locking(p), ~lost'
    PROVE  DirBacksHolder' /\ OneGuarded'
<1> USE DEF TypeOK, Goto, EndWait, Touch
<1>1. CASE Mkdir(p)
  <2>1. CASE dir = "none"
    <3>1. \A q \in Procs : pc[q] \notin Guarded
      BY <2>1 DEF DirBacksHolder
    <3>2. pc' = [pc EXCEPT ![p] = "pid"] /\ dir' = "empty"
      BY <1>1, <2>1 DEF Mkdir
    <3> QED
      BY <3>1, <3>2 DEF DirBacksHolder, OneGuarded
  <2>2. CASE dir # "none"
    BY <1>1, <2>2, Quiet DEF Mkdir, Guarded
  <2> QED
    BY <2>1, <2>2
<1>2. CASE IsStale(p) \/ Sleep(p)
  BY <1>2, Quiet DEF IsStale, Sleep, Guarded
<1>3. CASE WritePid(p)
  BY <1>3, Quiet DEF WritePid, Guarded
<1>4. CASE Release(p)
  <2>1. pc[p] \in {"unlink", "rmdir"}
    BY <1>4 DEF Release, Unlink, Rmdir, RemoveFails
  <2>2. \A q \in Procs : pc[q] \in Guarded => q = p
    BY <2>1 DEF OneGuarded, Guarded
  <2>3. \/ pc' = [pc EXCEPT ![p] = "rmdir"] /\ dir' # "none"
        \/ pc' = [pc EXCEPT ![p] = "idle"]
    BY <1>4 DEF Release, Unlink, Rmdir, RemoveFails
  <2> QED
    BY <2>2, <2>3 DEF DirBacksHolder, OneGuarded, Guarded
<1>5. CASE Steal(p)
  <2>1. PICK l \in {"steal rmdir", "mkdir"} : pc' = [pc EXCEPT ![p] = l]
    BY <1>5 DEF Steal, Unlink, Rmdir, RemoveFails
  <2>2. \A q \in Procs : pc'[q] \in Guarded => pc[q] \in Guarded
    BY <2>1 DEF Guarded
  <2>3. CASE dir # "none" => dir' # "none"
    BY <2>2, <2>3, Quiet
  <2>4. CASE dir # "none" /\ dir' = "none"
    <3>1. pc[p] = "steal rmdir"
      BY <1>5, <2>4 DEF Steal, Unlink, Rmdir, RemoveFails
    <3>2. \A q \in Procs : pc[q] \notin Guarded
      BY <2>4, <3>1 DEF Locking
    <3> QED
      BY <2>2, <3>2 DEF DirBacksHolder, OneGuarded
  <2> QED
    BY <2>3, <2>4
<1> QED
  BY <1>1, <1>2, <1>3, <1>4, <1>5 DEF Locking

\* Steps of git either keep the directory or are recorded.
LEMMA GitKeeps ==
    ASSUME TypeOK, DirBacksHolder, OneGuarded, NEW d, Leaves(d), UNCHANGED pc, ~lost'
    PROVE  DirBacksHolder' /\ OneGuarded'
<1>1. dir # "none" => dir' # "none"
  BY DEF Leaves
<1> QED
  BY <1>1, Quiet

LEMMA MutexStep ==
    ASSUME Kept, [Next]_vars, ~lost'
    PROVE  ~lost /\ DirBacksHolder' /\ OneGuarded'
<1> USE DEF Kept, TypeOK
<1>1. ASSUME NEW p \in Procs, Start(p) PROVE ~lost /\ DirBacksHolder' /\ OneGuarded'
  BY <1>1, Quiet DEF Start, Wait, Goto, Guarded, AtRest
<1>2. ASSUME NEW p \in Procs, Locking(p) PROVE ~lost /\ DirBacksHolder' /\ OneGuarded'
  <2>1. ~lost
    BY <1>2 DEF Locking
  <2> QED
    BY <1>2, <2>1, LockingKeeps
<1>3. ASSUME NEW p \in Procs,
             (\E t \in Task : Execute(p, t)) \/ CheckoutMain(p) \/ Merge(p)
      PROVE  ~lost /\ DirBacksHolder' /\ OneGuarded'
  <2>1. PICK d : Leaves(d) /\ UNCHANGED pc
    BY <1>3 DEF Execute, CheckoutMain, Merge
  <2>2. ~lost
    BY <2>1 DEF Leaves
  <2> QED
    BY <2>1, <2>2, GitKeeps
<1>4. ASSUME NEW p \in Procs, Commit(p) \/ \E done \in BOOLEAN : Executed(p, done)
      PROVE  ~lost /\ DirBacksHolder' /\ OneGuarded'
  BY <1>4, Quiet DEF Commit, Executed, lock
<1>5. ASSUME NEW p \in Procs, Refused(p) PROVE ~lost /\ DirBacksHolder' /\ OneGuarded'
  BY <1>5, Quiet DEF Refused, Goto, Guarded
<1>6. ASSUME NEW p \in Procs, GiveUp(p) PROVE ~lost /\ DirBacksHolder' /\ OneGuarded'
  BY <1>6, Quiet DEF GiveUp, Timeout, EndWait, Goto, Guarded
<1>7. ASSUME NEW p \in Procs, Finish(p) PROVE ~lost /\ DirBacksHolder' /\ OneGuarded'
  BY <1>7, Quiet DEF Finish, Leave, Goto, Guarded
<1>8. ASSUME NEW p \in Procs, Kill(p) PROVE ~lost /\ DirBacksHolder' /\ OneGuarded'
  BY <1>8, Quiet DEF Kill, Die, EndWait, Goto, Guarded
<1>9. CASE Ageing
  BY <1>9, Quiet DEF Ageing, Age
<1>10. CASE UNCHANGED vars
  BY <1>10, Quiet DEF vars, lock
<1> QED
  BY <1>1, <1>2, <1>3, <1>4, <1>5, <1>6, <1>7, <1>8, <1>9, <1>10 DEF Next, Work

\* Whoever executes a task is inside.
LEMMA WorkStep ==
    ASSUME TypeOK, WorkIsInside, [Next]_vars
    PROVE  WorkIsInside'
<1> USE TaskAssumption DEF TypeOK, WorkIsInside, Goto, EndWait, Forget
<1>1. ASSUME NEW p \in Procs, Start(p) PROVE WorkIsInside'
  BY <1>1 DEF Start, Wait, AtRest
<1>2. ASSUME NEW p \in Procs, Locking(p) PROVE WorkIsInside'
  <2>1. pc[p] # "inside" /\ (\E l : pc' = [pc EXCEPT ![p] = l]) /\ task' = task
    BY <1>2 DEF Locking, work, Mkdir, IsStale, Sleep, WritePid, Release, Steal, Unlink, Rmdir,
                RemoveFails
  <2> QED
    BY <2>1
<1>3. ASSUME NEW p \in Procs, NEW t \in Task, Execute(p, t) PROVE WorkIsInside'
  BY <1>3 DEF Execute
<1>4. ASSUME NEW p \in Procs, Commit(p) \/ CheckoutMain(p) \/ Merge(p) PROVE WorkIsInside'
  BY <1>4 DEF Commit, CheckoutMain, Merge, lock, work
<1>5. ASSUME NEW p \in Procs, Refused(p) PROVE WorkIsInside'
  BY <1>5 DEF Refused
<1>6. ASSUME NEW p \in Procs, NEW done \in BOOLEAN, Executed(p, done) PROVE WorkIsInside'
  BY <1>6 DEF Executed, lock
<1>7. ASSUME NEW p \in Procs, GiveUp(p) PROVE WorkIsInside'
  BY <1>7 DEF GiveUp, Timeout
<1>8. ASSUME NEW p \in Procs, Finish(p) PROVE WorkIsInside'
  BY <1>8 DEF Finish, Leave
<1>9. ASSUME NEW p \in Procs, Kill(p) PROVE WorkIsInside'
  BY <1>9 DEF Kill, Die
<1>10. CASE Ageing
  BY <1>10 DEF Ageing, Age, work
<1>11. CASE UNCHANGED vars
  BY <1>11 DEF vars, lock, work
<1> QED
  BY <1>1, <1>2, <1>3, <1>4, <1>5, <1>6, <1>7, <1>8, <1>9, <1>10, <1>11 DEF Next, Work

LEMMA KeptInit == Init => Kept
<1> SUFFICES ASSUME Init PROVE Kept
  OBVIOUS
<1> USE DEF Init, LockInit, Guarded
<1>1. 0 \in 0..MaxPolls /\ overruns \in 0..MaxOverruns /\ fails \in 0..MaxFails
  BY BoundsAssumption
<1>2. TypeOK
  BY <1>1 DEF TypeOK, PC, AtRest, Step
<1> QED
  BY <1>2 DEF Kept, DirBacksHolder, OneGuarded, WorkIsInside

LEMMA KeptStep == Kept /\ [Next]_vars => Kept'
  BY TypeStep, MutexStep, WorkStep DEF Kept

\* Two run-all commands execute tasks at the same time only after a directory of a living
\* holder has been taken: any number of commands, killed anywhere, and no assumption on
\* how long they run, which removals fail or what git switches.
THEOREM SharedByLossOnly == Spec => []SharedOnlyIfLost
<1>1. Kept => SharedOnlyIfLost
  BY DEF Kept, SharedOnlyIfLost, OneRunAll, OneGuarded, WorkIsInside, Guarded
<1> QED
  BY <1>1, KeptInit, KeptStep, PTL DEF Spec

\* The types of the variables.
THEOREM GuardTypeCorrect == Spec => []TypeOK
<1>1. Init => TypeOK
  BY KeptInit DEF Kept
<1> QED
  BY <1>1, TypeStep, PTL DEF Spec
==============================================================================
