------------------------------- MODULE Registry ------------------------------
(***************************************************************************)
(* The user-level index of workspaces, ~/.ortim/registry.json              *)
(* (ortim/workspace/registry.py): the entry of each known workspace, by    *)
(* id, and the pointer that `ortim use` sets.  A command works on an image *)
(* that it loaded, and writes the whole image back.                        *)
(*                                                                         *)
(* Names, kinds and times of an entry are left out, and with them the      *)
(* look-up by name and the order of `ortim ls`.                            *)
(***************************************************************************)
CONSTANTS Ids, NoId,
          Locations      \* the metadata directories an entry may name: path and mode

\* One entry per id: the entries are the items of a dict
Image == [current : Ids \union {NoId}, entries : SUBSET (Ids \X Locations)]

\* What load returns for a file that is missing, or that a writer has just emptied
NoImage == [current |-> NoId, entries |-> {}]

Known(img)  == {e[1] : e \in img.entries}

Without(img, dead) == {e \in img.entries : e[1] \notin dead}

\* Mutant of Upsert: the location's own id, which init has not set, is the key.
UpsertUnkeyed(img, i, loc) ==
    [img EXCEPT !.entries = Without(img, {i}) \union {<<NoId, loc>>}]

\* Registry.upsert: the entry of that id is written over, wherever it pointed
Upsert(img, i, loc) == [img EXCEPT !.entries = Without(img, {i}) \union {<<i, loc>>}]

\* Mutant of Remove: only the pointer is looked at.
RemoveNoEntry(img, dead) == [img EXCEPT !.current = IF @ \in dead THEN NoId ELSE @]

\* Registry.remove and the loop of prune_missing: the pointer goes with its entry
Remove(img, dead) ==
    [current |-> IF img.current \in dead THEN NoId ELSE img.current,
     entries |-> Without(img, dead)]

SetCurrent(img, i) == [img EXCEPT !.current = i]
==============================================================================
