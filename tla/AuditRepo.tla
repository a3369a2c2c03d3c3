----------------------------- MODULE AuditRepo ------------------------------
(***************************************************************************)
(* The audit log and the link file in the repository that a sequential run *)
(* switches (ortim/executor/git_ops.py).  Both files lie in the metadata   *)
(* directory, which is the git work tree: `git add -A` commits them on the *)
(* branch of the task, `git checkout main` puts the versions of main back, *)
(* and the merge brings those of the branch.  Loggers and syncs of other   *)
(* commands run between any two of these steps.                            *)
(*                                                                         *)
(* A file is its content in the work tree; a tree has a version of both.   *)
(***************************************************************************)
EXTENDS CloudSync

ASSUME ProcessAssumption == NoProcess \notin Writers

VARIABLES main, branch,  \* the trees of main and of the task branch that is to be merged
          head,          \* "main", on the "branch" of a task with its commit, or "away":
                         \* back on main, which the branch is still to be merged into
          switcher,      \* the process between its commit and the end of its merge
          reversed       \* history: an older log has taken the place of the log for good

repo == <<main, branch, head, switcher, reversed>>
vars == <<audit, cloud, repo>>

Tree == [log |-> [lines |-> lines, open |-> open], link |-> link]

Init ==
    /\ AuditInit
    /\ CloudInit
    /\ main = Tree
    /\ branch = Tree
    /\ head = "main"
    /\ switcher = NoProcess
    /\ reversed = FALSE

\* git refuses to replace a file that is not as it was checked out.
Clean(from, to) ==
    /\ from.log # to.log => Tree.log = from.log
    /\ from.link # to.link => link = from.link

\* It replaces those that differ in the two trees; others stay as they are.
Switch(from, to) ==
    /\ Clean(from, to)
    /\ LET log == IF from.log = to.log THEN Tree.log ELSE to.log
       IN  lines' = log.lines /\ open' = log.open
    /\ link' = IF from.link = to.link THEN link ELSE to.link
    /\ UNCHANGED <<cache, count, logged, sync, server, faults, links>>

\* commit_changes.  The execution of a task has logged something.
Commit(w) ==
    /\ head = "main" /\ switcher = NoProcess
    /\ cache[w] # NoProcess
    /\ Tree.log # main.log
    /\ branch' = Tree
    /\ head' = "branch"
    /\ switcher' = w
    /\ UNCHANGED <<audit, cloud, main, reversed>>

\* merge_task_to_main, whose two steps nothing is logged between
CheckoutMain(w) ==
    /\ switcher = w /\ head = "branch"
    /\ Switch(branch, main)
    /\ head' = "away"
    /\ UNCHANGED <<main, branch, switcher, reversed>>

Merge(w) ==
    /\ switcher = w /\ head = "away"
    /\ Switch(main, branch)
    /\ main' = branch
    /\ head' = "main"
    /\ switcher' = NoProcess
    /\ UNCHANGED <<branch, reversed>>

\* The end of a command that has nothing to merge
EndRun(w) ==
    /\ switcher # w
    /\ End(w)
    /\ UNCHANGED <<cloud, repo>>

\* A run that git refuses its step to, or that is killed before it, leaves HEAD where it is.
Abandon(w) ==
    /\ switcher = w
    /\ End(w)
    /\ IF (IF head = "branch" THEN Clean(branch, main) ELSE Clean(main, branch))
       THEN faults < MaxFaults /\ faults' = faults + 1
       ELSE UNCHANGED faults
    /\ switcher' = NoProcess
    /\ IF head = "away"
       THEN head' = "main" /\ branch' = main /\ reversed' = TRUE
       ELSE UNCHANGED <<head, branch, reversed>>
    /\ UNCHANGED <<link, sync, server, links, main>>

\* start_task_branch of a later run, which has logged nothing yet
Restart(w) ==
    /\ head = "branch" /\ switcher = NoProcess
    /\ Alone(w)
    /\ Switch(branch, main)
    /\ head' = "main"
    /\ branch' = main
    /\ reversed' = TRUE
    /\ UNCHANGED <<main, switcher>>

Logging(w) ==
    /\ switcher # w
    /\ LogStep(w)
    /\ reversed' = (reversed \/ (head = "away" /\ count' # count))
    /\ UNCHANGED <<cloud, main, branch, head, switcher>>

GitStep(w) == CheckoutMain(w) \/ Merge(w) \/ Abandon(w)

Next ==
    \/ \E w \in Writers :
          Logging(w) \/ EndRun(w) \/ Commit(w) \/ GitStep(w) \/ Restart(w)
    \/ CloudStep /\ UNCHANGED repo

Spec == Init /\ [][Next]_vars

\* Runs keep coming, and each ends with a sync (_auto_sync_after_run); a sync or a merge
\* that has begun goes on.  Only the commands are fair: nothing makes the network so.
Fairness ==
    /\ \A s \in Syncers : WF_cloud(LoadLink(s)) /\ WF_cloud(SyncStep(s))
    /\ \A w \in Writers : WF_vars(GitStep(w))

FairSpec == Spec /\ Fairness

------------------------------------------------------------------------------
\* The log that counts: between the checkout of main and the merge it is on the branch.
Current == IF head = "away" THEN branch.log.lines ELSE lines
Trail == RecordsOf(Current)
Ids == [k \in 1..Len(Trail) |-> Trail[k].id]

\* As long as no line is torn, what one process after another wrote is one chain,
\* whichever version of it git has put in place.
Unbroken == (\A k \in 1..Len(lines) : IsRecord(lines[k])) => VerifyChain

\* A chain that verifies has lost no event whose call of log returned, unless a run ended
\* between the checkout of main and the merge: a record that is swallowed by a torn line
\* makes verification fail, and the merge brings back what the checkout took away.
LossShows ==
    ~reversed /\ head # "away" /\ VerifyChain
        => \A id \in logged : \E k \in 1..Len(lines) : lines[k].id = id

\* "If anyone removes, edits, or reorders an event in the JSONL, the chain breaks at that
\* point": also when git is done with the file.
LossAlwaysShows ==
    head # "away" /\ VerifyChain
        => \A id \in logged : \E k \in 1..Len(lines) : lines[k].id = id

\* Everything below the cursor is in the cloud: "the next successful sync resumes
\* exactly where it left off".
NothingSkipped ==
    link.project # NoProject /\ ~reversed =>
        /\ link.cursor <= Len(Trail)
        /\ \A k \in 1..link.cursor : [seq |-> k, id |-> Ids[k]] \in server[link.project]

\* Resent, overtaken and lost pushes leave the copy a growing prefix of the log.
Mirror == INSTANCE AuditMirror WITH
              trail     <- Ids,
              copy      <- server,
              rewritten <- reversed

ImplementsMirror == Mirror!MirrorSpec

\* Every record reaches the project that stays linked.
EventuallyCopied ==
    \A p \in Projects : \A k \in 1..MaxEvents :
        (link.project = p /\ Len(Trail) >= k)
            ~> (link.project # p \/ reversed \/ \E e \in server[p] : e.seq = k)

\* A link that was made stays until the next one.
LinkIsKept ==
    [][{link.project, link'.project} \subseteq Projects /\ link'.project # link.project
          => links' # links]_vars

(***************************************************************************)
(* The inductive invariants                                                *)
(***************************************************************************)
Line == [id : Int, prev : Int]
LinkFile == [project : Projects \union {NoProject}, cursor : Nat]

FileOK(file) ==
    file.lines \in Seq(Line) /\ file.open \in BOOLEAN /\ (file.open => file.lines # << >>)

LogOK == FileOK(Tree.log) /\ count \in Nat /\ cache \in [Writers -> Int \union {NoProcess}]

RepoOK ==
    /\ FileOK(main.log) /\ FileOK(branch.log)
    /\ switcher \in Writers \union {NoProcess}
    /\ head = "away" => switcher # NoProcess
    /\ head # "main" => branch.log # main.log
    /\ reversed \in BOOLEAN

Whole(file) == \A k \in 1..Len(file) : IsRecord(file[k])

\* As long as every line is a record, what has been logged is there
Kept(file) == Whole(file) => \A id \in logged : \E k \in 1..Len(file) : file[k].id = id

\* One process logs, and it continues where the log ends
OneWriter == \A v, w \in Writers : cache[v] # NoProcess /\ cache[w] # NoProcess => v = w
SwitcherLogs == switcher # NoProcess => cache[switcher] # NoProcess
Chained(file) == Whole(file) => ChainOf(file)
LastId(file) == IF file = << >> THEN Genesis ELSE file[Len(file)].id
Continues ==
    Whole(Current) => \A w \in Writers : cache[w] # NoProcess => cache[w] = LastId(Current)

\* A line without its newline is not a record, and so the records only grow
OpenIsTorn(file) == file.open => ~IsRecord(file.lines[Len(file.lines)])

FirstRecords(n) == {[seq |-> k, id |-> Trail[k].id] : k \in 1..n}

\* The copy of a project is a prefix of the records
Prefix == \A p \in Projects : \E n \in 0..Len(Trail) : server[p] = FirstRecords(n)

\* The cloud has what is below a cursor, also below the one that a sync has in hand and
\* below those that git may bring back
Covered(p, cursor) ==
    /\ p \in Projects /\ cursor \in 0..Len(Trail)
    /\ FirstRecords(cursor) \subseteq server[p]

Linked(l) == l \in LinkFile /\ (l.project # NoProject => Covered(l.project, l.cursor))

Span(c, t) == {[seq |-> k, id |-> Trail[k].id] : k \in (c + 1)..t}

InSync(x) ==
    \/ x.at = "idle"
    \/ x.at = "read" /\ Covered(x.project, x.cursor)
    \/ /\ x.at = "push" /\ Covered(x.project, x.cursor)
       /\ x.total \in 0..Len(Trail) /\ x.events = Span(x.cursor, x.total)
    \/ x.at = "save" /\ Covered(x.project, x.total)

SyncRecord ==
    [at : {"idle", "read", "push", "save"}, project : Projects \union {NoProject}, cursor : Nat,
     events : SUBSET [seq : Nat, id : Int], total : Nat]

CloudOK ==
    /\ server \in [Projects -> SUBSET [seq : Nat, id : Int]] /\ Prefix
    /\ sync \in [Syncers -> SyncRecord]
    /\ \A s \in Syncers : InSync(sync[s])
    /\ Linked(link) /\ Linked(main.link) /\ Linked(branch.link)

\* What git may put in place is the beginning of the log
Before(r) == Len(r) <= Len(Trail) /\ \A k \in 1..Len(r) : r[k] = Trail[k]

GitOK ==
    /\ OpenIsTorn(Tree.log) /\ OpenIsTorn(main.log) /\ OpenIsTorn(branch.log)
    /\ head = "away" => lines = main.log.lines
    /\ Before(RecordsOf(main.log.lines))

LossInv == LogOK /\ RepoOK /\ (~reversed => Kept(Current))
ChainInv ==
    /\ LogOK /\ RepoOK /\ OneWriter /\ SwitcherLogs /\ Continues
    /\ Chained(lines) /\ Chained(main.log.lines) /\ Chained(branch.log.lines)
CloudInv == LogOK /\ RepoOK /\ (~reversed => GitOK /\ CloudOK)
==============================================================================
