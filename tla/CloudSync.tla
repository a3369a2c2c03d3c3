------------------------------ MODULE CloudSync ------------------------------
(***************************************************************************)
(* The copy of the audit log in Ortim Cloud (ortim/cloud/sync.py, hooks.py *)
(* and the commands link and sync of cli/cloud.py).  The link file holds   *)
(* the cloud project and synced_seq, the number of valid records that were *)
(* pushed.  A sync loads the link, reads the log past the cursor, posts    *)
(* the events, and writes the whole link file with the new cursor: four    *)
(* steps, that other commands run between.                                 *)
(*                                                                         *)
(* The server is external: an event whose number it already has is         *)
(* skipped (the accepted and skipped of its answer).                       *)
(***************************************************************************)
EXTENDS AuditLog

CONSTANTS Syncers,        \* the commands that may sync at the same time
          Projects, NoProject,
          MaxFaults,      \* bound on the syncs that do not come to an end
          MaxLinks        \* bound on the uses of `cloud link`

VARIABLES link,      \* .ortim/cloud.json: the project and synced_seq
          sync,      \* per sync: its next step, its copy of the link, what it read
          server,    \* per project: the events that the cloud has
          faults, links

cloud == <<link, sync, server, faults, links>>

Events(after) == {[seq |-> k, id |-> Id(k)] : k \in (after + 1)..Len(Records)}

Idle == [at |-> "idle", project |-> NoProject, cursor |-> 0, events |-> {}, total |-> 0]

NoLink == [project |-> NoProject, cursor |-> 0]

CloudInit ==
    /\ link = NoLink
    /\ sync = [s \in Syncers |-> Idle]
    /\ server = [p \in Projects |-> {}]
    /\ faults = 0
    /\ links = 0

\* save_link_state: write_text empties the file first, and what a kill leaves there
\* reads as no link.
SaveLink(l) ==
    \/ link' = l /\ UNCHANGED faults
    \/ /\ faults < MaxFaults /\ faults' = faults + 1
       /\ link' = NoLink

\* `ortim cloud link`: a new link file, with the cursor at the beginning
Link(p) ==
    /\ links < MaxLinks
    /\ links' = links + 1
    /\ SaveLink([project |-> p, cursor |-> 0])
    /\ UNCHANGED <<audit, sync, server>>

LoadLink(s) ==
    /\ sync[s].at = "idle"
    /\ link.project # NoProject
    /\ sync' = [sync EXCEPT ![s] =
                    [Idle EXCEPT !.at = "read", !.project = link.project, !.cursor = link.cursor]]
    /\ UNCHANGED <<audit, link, server, faults, links>>

ReadLogPastLast(s) ==
    /\ sync[s].at = "read"
    /\ LET events == Events(sync[s].cursor + 1)
           total  == Len(Records)
       IN  sync' = [sync EXCEPT ![s] =
                        IF events = {} /\ total = @.cursor
                        THEN Idle
                        ELSE [@ EXCEPT !.at = "push", !.events = events, !.total = total]]
    /\ UNCHANGED <<audit, link, server, faults, links>>

\* build_payload, and "nothing to push"
ReadLog(s) ==
    /\ sync[s].at = "read"
    /\ LET events == Events(sync[s].cursor)
           total  == Len(Records)
       IN  sync' = [sync EXCEPT ![s] =
                        IF events = {} /\ total = @.cursor
                        THEN Idle
                        ELSE [@ EXCEPT !.at = "push", !.events = events, !.total = total]]
    /\ UNCHANGED <<audit, link, server, faults, links>>

Accept(p, events) ==
    server' = [server EXCEPT ![p] =
                  @ \union {e \in events : \A known \in server[p] : known.seq # e.seq}]

\* The request reaches the server; the next step is reached if the answer comes back
Push(s) ==
    /\ sync[s].at = "push"
    /\ Accept(sync[s].project, sync[s].events)
    /\ sync' = [sync EXCEPT ![s] =
                    [@ EXCEPT !.at = "save", !.cursor = 0, !.events = {}]]
    /\ UNCHANGED <<audit, link, faults, links>>

SaveLineCount(s) ==
    /\ sync[s].at = "save"
    /\ SaveLink([project |-> sync[s].project, cursor |-> Len(lines)])
    /\ sync' = [sync EXCEPT ![s] = Idle]
    /\ UNCHANGED <<audit, server, links>>

\* save_link_state writes the copy that the sync loaded
SaveCursor(s) ==
    /\ sync[s].at = "save"
    /\ SaveLink([project |-> sync[s].project, cursor |-> sync[s].total])
    /\ sync' = [sync EXCEPT ![s] = Idle]
    /\ UNCHANGED <<audit, server, links>>

DeferAndSave(s) ==
    /\ sync[s].at \in {"push", "save"}
    /\ faults < MaxFaults
    /\ faults' = faults + 1
    /\ link' = [project |-> sync[s].project, cursor |-> sync[s].total]
    /\ sync' = [sync EXCEPT ![s] = Idle]
    /\ UNCHANGED <<audit, server, links>>

\* Offline, no token, an error of the server, a lost answer, or a killed command:
\* the cursor is not advanced
Defer(s) ==
    /\ sync[s].at \in {"push", "save"}
    /\ faults < MaxFaults
    /\ faults' = faults + 1
    /\ sync' = [sync EXCEPT ![s] = Idle]
    /\ UNCHANGED <<audit, link, server, links>>

SyncStep(s) == ReadLog(s) \/ Push(s) \/ SaveCursor(s)

CloudStep ==
    \/ \E p \in Projects : Link(p)
    \/ \E s \in Syncers : LoadLink(s) \/ SyncStep(s) \/ Defer(s)
==============================================================================
