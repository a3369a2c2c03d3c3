----------------------------- MODULE AuditMirror -----------------------------
(***************************************************************************)
(* What the cloud promises about the audit trail: the copy of a project is *)
(* a prefix of the local log and only grows, whatever is resent, lost or   *)
(* overtaken on the way - until the local log itself is rewritten.         *)
(***************************************************************************)
EXTENDS Naturals, Sequences

CONSTANT Projects

VARIABLES trail,    \* the local records, in order
          copy,     \* per project: the entries that the cloud has
          rewritten \* whether an older log took the place of the log

First(n) == {[seq |-> k, id |-> trail[k]] : k \in 1..n}

MirrorInit ==
    /\ trail = << >>
    /\ copy = [p \in Projects |-> {}]
    /\ rewritten = FALSE

Record ==
    /\ Len(trail') = Len(trail) + 1
    /\ SubSeq(trail', 1, Len(trail)) = trail
    /\ UNCHANGED <<copy, rewritten>>

Copy(p) ==
    /\ \E n \in 1..Len(trail) :
          /\ copy[p] \subseteq First(n)
          /\ copy' = [copy EXCEPT ![p] = First(n)]
    /\ UNCHANGED <<trail, rewritten>>

\* Nothing is promised from here on.
Rewrite == rewritten'

MirrorSpec ==
    MirrorInit /\ [][Record \/ (\E p \in Projects : Copy(p)) \/ Rewrite]_<<trail, copy, rewritten>>
==============================================================================
