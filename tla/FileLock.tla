------------------------------ MODULE FileLock -------------------------------
(***************************************************************************)
(* The mutex of ortim/concurrency/lock.py: the directory <target>.lock is  *)
(* made by mkdir, holds the pid file of its maker, and is removed by rmdir *)
(* when the guarded section ends, however it ends.  A directory that is    *)
(* older than twice the timeout counts as left by a crash: whoever waits   *)
(* removes it and tries again.  One action is one file-system call, since  *)
(* another process may run between any two of them.                        *)
(*                                                                         *)
(* The clock is abstracted to what the code compares: whether the mtime of *)
(* the directory is stale (Age makes it so, also under a process that is   *)
(* alive; making the directory, and adding or removing the pid file, make  *)
(* it fresh again), and whether the deadline has passed (at any poll, and  *)
(* at the last of MaxPolls).                                               *)
(***************************************************************************)
EXTENDS Naturals

CONSTANTS Procs,        \* the processes that take this lock
          Mortal,       \* those that may be killed
          MaxOverruns,  \* bound on the stale ages that a guarded section outlasts
          MaxFails,     \* bound on the removals that fail
          Permanent,    \* whether removals may fail without that bound
          MaxPolls      \* timeout / poll_interval

ASSUME ProcsAssumption == Mortal \subseteq Procs
ASSUME BoundsAssumption ==
    /\ MaxOverruns \in Nat /\ MaxFails \in Nat /\ MaxPolls \in Nat
    /\ Permanent \in BOOLEAN

VARIABLES dir,       \* the lock directory: "none", "empty" or with its "pid" file
          age,       \* of its mtime: "fresh" or "stale"
          pc,        \* the next call of each process
          polls,     \* how often it has slept since it began to wait
          overruns,  \* how often the directory of a living holder got stale
          fails      \* how many removals have failed

clock == <<overruns, fails>>
lock == <<dir, age, pc, polls, clock>>

\* The calls of the guarded section and of the way out of it
Guarded == {"pid", "inside", "unlink", "rmdir"}
AtRest == {"idle", "timeout", "dead"}
PC == Guarded \union AtRest \union {"mkdir", "stat", "wait", "steal unlink", "steal rmdir"}

\* A call that changes the directory renews its mtime.
Touch(d) == dir' = d /\ age' = "fresh"

LockInit ==
    /\ dir = "none"
    /\ age = "fresh"
    /\ pc = [p \in Procs |-> "idle"]
    /\ polls = [p \in Procs |-> 0]
    /\ overruns = 0
    /\ fails = 0

Goto(p, l) == pc' = [pc EXCEPT ![p] = l]

EndWait(p, l) == Goto(p, l) /\ polls' = [polls EXCEPT ![p] = 0]

\* with file_lock(...)
Wait(p) ==
    /\ pc[p] \in AtRest \ {"dead"}
    /\ Goto(p, "mkdir")
    /\ UNCHANGED <<dir, age, polls, clock>>

MkdirExistOk(p) ==
    /\ pc[p] = "mkdir"
    /\ Touch(IF dir = "none" THEN "empty" ELSE dir) /\ EndWait(p, "pid")
    /\ UNCHANGED clock

Mkdir(p) ==
    /\ pc[p] = "mkdir"
    /\ \/ dir = "none" /\ Touch("empty") /\ EndWait(p, "pid")
       \/ dir # "none" /\ Goto(p, "stat") /\ UNCHANGED <<dir, age, polls>>
    /\ UNCHANGED clock

IsStaleNever(p) ==
    /\ pc[p] = "stat"
    /\ Goto(p, "wait")
    /\ UNCHANGED <<dir, age, polls, clock>>

\* _is_stale: a directory that has just gone is not stale
IsStale(p) ==
    /\ pc[p] = "stat"
    /\ Goto(p, IF dir # "none" /\ age = "stale" THEN "steal unlink" ELSE "wait")
    /\ UNCHANGED <<dir, age, polls, clock>>

SleepUncounted(p) ==
    /\ pc[p] = "wait"
    /\ Goto(p, "mkdir")
    /\ UNCHANGED <<dir, age, polls, clock>>

Sleep(p) ==
    /\ pc[p] = "wait" /\ polls[p] < MaxPolls
    /\ polls' = [polls EXCEPT ![p] = @ + 1]
    /\ Goto(p, "mkdir")
    /\ UNCHANGED <<dir, age, clock>>

Timeout(p) ==
    /\ pc[p] = "wait"
    /\ EndWait(p, "timeout")
    /\ UNCHANGED <<dir, age, clock>>

\* The pid file, first in the try: if somebody removed the directory meanwhile,
\* the write raises and the finally clause runs without the guarded section.
WritePid(p) ==
    /\ pc[p] = "pid"
    /\ \/ dir # "none" /\ Touch("pid") /\ Goto(p, "inside")
       \/ dir = "none" /\ Goto(p, "unlink") /\ UNCHANGED <<dir, age>>
    /\ UNCHANGED <<polls, clock>>

\* The end of the guarded section, normal or by an exception
Leave(p) ==
    /\ pc[p] = "inside"
    /\ Goto(p, "unlink")
    /\ UNCHANGED <<dir, age, polls, clock>>

\* _force_remove, first half: the files of the directory, whoever made it.  With
\* no directory it returns.
Unlink(p, from, to, end) ==
    /\ pc[p] = from
    /\ \/ dir = "pid" /\ Touch("empty") /\ Goto(p, to)
       \/ dir = "empty" /\ Goto(p, to) /\ UNCHANGED <<dir, age>>
       \/ dir = "none" /\ Goto(p, end) /\ UNCHANGED <<dir, age>>
    /\ UNCHANGED <<polls, clock>>

\* Second half: rmdir fails, and that is ignored, if a file has come or the
\* directory has gone.
Rmdir(p, from, end) ==
    /\ pc[p] = from
    /\ \/ dir = "empty" /\ Touch("none")
       \/ dir # "empty" /\ UNCHANGED <<dir, age>>
    /\ Goto(p, end)
    /\ UNCHANGED <<polls, clock>>

\* An OSError of unlink or rmdir (the file is open, a scanner holds the directory)
\* ends the removal and is suppressed as well.
RemoveFails(p, from, end) ==
    /\ pc[p] \in from
    /\ Permanent \/ fails < MaxFails
    /\ fails' = IF Permanent THEN fails ELSE fails + 1
    /\ Goto(p, end)
    /\ UNCHANGED <<dir, age, polls, overruns>>

Steal(p) ==
    \/ Unlink(p, "steal unlink", "steal rmdir", "mkdir")
    \/ Rmdir(p, "steal rmdir", "mkdir")
    \/ RemoveFails(p, {"steal unlink", "steal rmdir"}, "mkdir")

Release(p) ==
    \/ Unlink(p, "unlink", "rmdir", "idle")
    \/ Rmdir(p, "rmdir", "idle")
    \/ RemoveFails(p, {"unlink", "rmdir"}, "idle")

Die(p) ==
    /\ p \in Mortal
    /\ pc[p] \notin AtRest
    /\ EndWait(p, "dead")
    /\ UNCHANGED <<dir, age, clock>>

\* Twice the timeout goes by.  Nothing renews the mtime during a guarded section, so
\* the directory of a process that is alive gets stale as any other.
Age ==
    /\ dir # "none" /\ age = "fresh"
    /\ age' = "stale"
    /\ \/ (\A p \in Procs : pc[p] \notin Guarded) /\ UNCHANGED overruns
       \/ /\ \E p \in Procs : pc[p] \in Guarded
          /\ overruns < MaxOverruns /\ overruns' = overruns + 1
    /\ UNCHANGED <<dir, pc, polls, fails>>
==============================================================================
