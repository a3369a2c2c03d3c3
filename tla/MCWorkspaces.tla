----------------------------- MODULE MCWorkspaces ----------------------------
(* Instances of WorkspaceProps for TLC. *)
EXTENDS WorkspaceProps, TLC
CONSTANTS o1, d1

\* One workspace that an earlier init left in d1
MCSettled == {<<o1, d1>>}

\* Terminals are interchangeable
Terminals == Permutations(Procs)
==============================================================================
