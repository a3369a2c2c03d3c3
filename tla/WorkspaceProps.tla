--------------------------- MODULE WorkspaceProps ----------------------------
(***************************************************************************)
(* What the user of several workspaces relies on.                          *)
(***************************************************************************)
EXTENDS Workspaces

Job == [op : {"none", "use", "prune", "init", "migrate", "cleanup", "flag", "work"},
        at : {"idle", "load", "empty", "write", "mkdir", "state", "place", "next", "remove", "save", "work"},
        id : Ids \union {NoId}, loc : SUBSET Places, from : SUBSET Places,
        items : SUBSET (Files \X Ids), picked : SUBSET (Ids \X Places), flag : BOOLEAN, img : Image]

\* Each variable has the shape it should have; the user's own files are in no workspace
TypeOK ==
    /\ made \subseteq Places /\ archived \subseteq Places
    /\ held \in [Places -> SUBSET (Files \X Ids)] /\ root \in [Dirs -> SUBSET Items]
    /\ reg \in Image /\ job \in [Procs -> Job]
    /\ minted \subseteq NewIds /\ copied \subseteq Ids
    /\ commands \in 0..MaxCommands /\ kills \in 0..MaxKills /\ calm \in BOOLEAN

(* The `current` pointer names a registered workspace, whichever of two racing commands
   wrote the registry last and whatever was dropped from it: `ortim status` outside a
   project never follows a dangling pointer (registry.py remove, prune_missing).  No run
   checks it: WorkspacesProofs proves it. *)
CurrentListed == reg.current \in Known(reg) \union {NoId}

(* No command takes anything away from the user's directory, or writes over it: cleanup
   removes .ortim alone, and migrate leaves behind what has a namesake there. *)
UserCodeSurvives == [][\A d \in Dirs : root[d] \subseteq root'[d]]_vars

KeptBy(x, h, r) == (\E l \in Places : x \in h[l]) \/ (\E d \in Dirs : x \in r[d])
MayRemove(p) == Step(p, "cleanup", "remove") /\ (job[p].flag \/ TheLoc(p) \in archived)

(* The last copy of a file of a workspace goes only in a cleanup, and only when the
   workspace in that place is archived at that moment, or --include-active was given:
   kills, half-done migrations, failed deletions and later commands lose nothing. *)
WorkSurvives ==
    [][\A x \in Items : KeptBy(x, held, root) /\ ~KeptBy(x, held', root')
                           => \E p \in Procs : MayRemove(p)]_vars

(* While commands run one after another and none is killed, a registered id never leads a
   command to the state of another project: a deleted workspace takes its entry along. *)
ResolvesToItself ==
    calm => \A i \in Known(reg) : \A l \in ResolveId(i) : HasState(l) => StateOwner(l) = i

AtRest == \A p \in Procs : ~Busy(p)
(* While commands run one after another and none is killed, the registry knows every
   project-mode workspace that a command has finished making, in its place. *)
ListedAtRest ==
    calm /\ AtRest =>
        \A l \in ProjectPlaces : HasState(l) /\ StateOwner(l) \notin copied
                                    => <<StateOwner(l), l>> \in reg.entries

(***************************************************************************)
(* The inductive invariants behind WorkSurvives, ResolvesToItself and      *)
(* ListedAtRest                                                            *)
(***************************************************************************)
\* Nobody steps into the places of a command that is under way.
Quiet == Overlap # "any" \/ calm

Minted(i)     == i \notin NewIds \ minted
OwnedBy(i, l) == \A x \in held[l] : x[2] = i

PlacesApart ==
    \A p, q \in Procs : p # q => PlacesOf(job[p]) \intersect PlacesOf(job[q]) = {}

\* The files in a place are those of one workspace, in the pool of the one it is named for.
OneOwner ==
    /\ \A l \in Places : \A x, y \in held[l] : x[2] = y[2]
    /\ \A i \in Ids : OwnedBy(i, Pool(i))
    /\ \A l \in Places : l \notin made => held[l] = {}
    /\ \A l \in Places : \A x \in held[l] : Minted(x[2])

\* A command finds in its places what it has started from.
InPlace(j) ==
    /\ \A i \in Ids : Pool(i) \in PlacesOf(j) => Minted(i)
    /\ j.op \in {"init", "migrate", "flag", "work"} =>
          /\ Minted(j.id)
          /\ \E l \in Places : /\ j.loc = {l} /\ OwnedBy(j.id, l)
                              /\ \A i \in Ids : l = Pool(i) => i = j.id
    /\ j.op \in {"init", "migrate"} => j.loc \subseteq ProjectPlaces
    /\ j.op \in {"init", "migrate"} /\ j.at = "mkdir" => j.loc \intersect made = {}
    /\ j.op \in {"init", "migrate"} /\ j.at # "mkdir" => j.loc \subseteq made
    /\ j.op = "init" => j.from = {}
    /\ j.op = "migrate" => j.from = {Pool(j.id)} /\ \A x \in j.items : x[2] = j.id
    /\ j.op = "cleanup" => \A c \in j.picked : j.flag \/ c[2] \in archived \/ c[2] \notin made
    /\ j.op = "cleanup" /\ j.at = "remove" => \E l \in Places : j.loc = {l} /\ (j.flag \/ l \in archived)

PlaceInv == Quiet => PlacesApart /\ OneOwner /\ \A p \in Procs : InPlace(job[p])

HoldsState(l, i) == <<"state", i>> \in held[l]

\* The state of i is in no place but these, unless it was copied.
Alone(i, places) == i \in copied \/ \A l \in Places : HoldsState(l, i) => l \in places

Keyed(img) == \A e, f \in img.entries : e[1] = f[1] => e = f

\* An image that tells nothing wrong, and one that leaves nothing out.
Correct(img) == Keyed(img) /\ \A e \in img.entries : e[2] \in ProjectPlaces /\ OwnedBy(e[1], e[2])
Complete(img, pending) ==
    \A l \in ProjectPlaces : \A i \in Ids \ copied :
        HoldsState(l, i) => <<i, l>> \in img.entries \/ l \in pending

\* The entry of that place, if there is one, is that of candidate c.
Agrees(img, c) == \A e \in img.entries : e[2] = c[2] => e[1] = c[1]

\* What the one command under way knows of the registry.
InRegistry(j) ==
    /\ j.op \in {"init", "migrate"} => /\ \A e \in reg.entries : e[2] \notin j.loc
                                       /\ Alone(j.id, j.loc \union j.from)
    /\ j.op = "migrate" => (j.flag \/ j.id \in copied) /\ j.items \subseteq held[Pool(j.id)]
    /\ j.op \in {"flag", "work"} => \A l \in j.loc : HoldsState(l, j.id)
    /\ j.op = "cleanup" /\ j.at # "next" => Minted(j.id) /\ Alone(j.id, j.loc)
    /\ j.op = "cleanup" => \A c \in j.picked : /\ Minted(c[1]) /\ Alone(c[1], {c[2]})
                                              /\ Agrees(reg, c) /\ Agrees(j.img, c)
    /\ j.op = "cleanup" /\ j.at = "remove" => \A l \in j.loc : Agrees(reg, <<j.id, l>>)
    /\ j.op = "cleanup" /\ j.at \in {"load", "empty", "write"} => \A l \in j.loc : held[l] = {}
    /\ j.at = "load" => j.op \in {"init", "migrate", "cleanup"}
    /\ j.at \in {"empty", "write"} =>
          Correct(j.img) /\ Complete(j.img, {}) /\ \A e \in j.img.entries : e[2] \in made
    /\ j.at = "write" => reg = NoImage

\* The places that a command is about to register, and those that it is about to strike.
Pending == UNION {job[p].loc : p \in {q \in Procs : job[q].op \in {"init", "migrate"}}}
Struck  == {job[p].id : p \in {q \in Procs : job[q].op = "cleanup" /\ job[q].at \in {"load", "empty"}}}

RegistryInv ==
    calm =>
        /\ \A p, q \in Procs : Busy(p) /\ Busy(q) => p = q
        /\ \A i \in Ids \ copied : \A l, k \in Places : HoldsState(l, i) /\ HoldsState(k, i) => l = k
        /\ Correct(reg) /\ \A e \in reg.entries : e[2] \in made \/ e[1] \in Struck
        /\ (\A p \in Procs : job[p].at # "write") => Complete(reg, Pending)
        /\ \A p \in Procs : InRegistry(job[p])

(***************************************************************************)
(* What a user or a document expects, and the code does not keep           *)
(* (Workspaces_code_deleted.cfg; README names the constants under which    *)
(* each of the others fails)                                               *)
(***************************************************************************)
(* docs/tutorial/getting-started.md:525 "cleanup only deletes .ortim/ -- your generated
   code is untouched": the generated code of a project-mode workspace outlives it. *)
GeneratedCodeSurvives ==
    [][\A l \in ProjectPlaces, i \in Ids : <<"code", i>> \in held[l]
          => KeptBy(<<"code", i>>, held', root')]_vars

(* The same as ListedAtRest of commands that race, which registry.py:13-17 accepts because
   "a registry collision surfaces as a duplicate entry the user can clean up". *)
NoEntryLost ==
    kills = 0 /\ AtRest =>
        \A l \in ProjectPlaces : HasState(l) /\ StateOwner(l) \in NewIds
                                    => <<StateOwner(l), l>> \in reg.entries

(* A workspace that a command works in holds the code of its finished tasks, wherever
   there is any: run-all commits to the repository of the metadata directory. *)
CodeAtHand ==
    \A p \in Procs : Step(p, "work", "work") =>
        (KeptBy(<<"code", job[p].id>>, held, root) => HasName(held[TheLoc(p)], "code"))

(* `cloud.json` and `policy.json` of a migrated workspace are where its commands look. *)
LinkAtHand ==
    \A p \in Procs : Step(p, "work", "work") =>
        (KeptBy(<<"link", job[p].id>>, held, root) => HasName(held[TheLoc(p)], "link"))

(* With migrate --copy too, the registry keeps a project-mode workspace that is there. *)
CopiesListed ==
    calm /\ AtRest =>
        \A l \in ProjectPlaces : HasState(l) => StateOwner(l) \in Known(reg)

(* Killed commands included, an id never leads to the state of another project. *)
NeverAnother ==
    \A i \in Known(reg) : \A l \in ResolveId(i) : HasState(l) => StateOwner(l) = i

(* A directory that a killed command left behind can still be initialised or migrated to. *)
NoHalfWorkspace == \A l \in ProjectPlaces : l \in made /\ AtRest => HasState(l)
==============================================================================
