------------------------------ MODULE Workspaces -----------------------------
(***************************************************************************)
(* The directories of workspaces and the commands that make, move, mark    *)
(* and delete them: init, new, workspace migrate, archive, unarchive,      *)
(* cleanup, use, ls --prune, and a command that works inside one (run,     *)
(* run-all, cloud link).  No command holds a lock: each process goes       *)
(* through its file operations one at a time, may be killed between any    *)
(* two of them, and another process may step in between.                   *)
(*                                                                         *)
(* A project-mode workspace keeps its files in <dir>/.ortim, and <dir>     *)
(* itself is the user's; a pool workspace keeps everything in one          *)
(* directory named by its id.  Only the kinds of files that the commands   *)
(* treat differently are told apart.                                       *)
(***************************************************************************)
EXTENDS Naturals, FiniteSets
CONSTANTS Procs,         \* the terminals commands are typed into
          Dirs,          \* the user's directories
          BrownDirs,     \* those that hold a code base of the user's own
          PoolIds,       \* the pool workspaces there are at the start
          Settled,       \* the registered projects at the start: <<id, directory>>
          NewIds,        \* the ids that init and new may mint
          NoId,
          Files,         \* the kinds of files told apart, see below
          Modes,         \* the modes of migrate in use: "copy", "move"
          Overlap,       \* which commands run at once: "none", "apart" (in different places), "any"
          MaxCommands, MaxKills    \* bounds on commands and kills

Ids == PoolIds \union NewIds \union {s[1] : s \in Settled}
Project(d) == <<"project", d>>
Pool(i) == <<"pool", i>>
ProjectPlaces == {Project(d) : d \in Dirs}
Places == ProjectPlaces \union {Pool(i) : i \in Ids}
INSTANCE Registry WITH Locations <- Places

ASSUME WorkspacesAssumption ==
    /\ Overlap \in {"none", "apart", "any"}
    /\ Files \subseteq {"state", "docs", "link", "code"} /\ {"state", "docs", "code"} \subseteq Files
    /\ Modes \subseteq {"copy", "move"}
    /\ \A s \in Settled : s[1] \notin NewIds \union PoolIds /\ s[2] \in Dirs
    /\ \A s, r \in Settled : s[1] = r[1] \/ s[2] = r[2] => s = r    \* one state.json in each place
    /\ PoolIds \intersect NewIds = {} /\ NoId \notin Ids
    /\ BrownDirs \subseteq Dirs
    /\ MaxCommands \in Nat /\ MaxKills \in Nat

(* "state" is state.json; "docs" the artifacts that _META_FILES names; "link" ortim's own
   files that it does not name (cloud.json, policy.json); "code" the generated code with
   its git repository *)
IsMetadata(f) == f \in {"state", "docs"}
Users == "user"                          \* the owner of the code that was there before
Items == Files \X (Ids \union {Users})

VARIABLES made,       \* the metadata directories that exist
          held,       \* the files in each, with the workspace each belongs to
          root,       \* the files in the user's directories, beside .ortim
          archived,   \* the places whose state.json has archived_at set
          reg,        \* registry.json
          job,        \* what each process is doing
          minted, commands, kills,
          calm,       \* no kill, and no two commands at once, so far
          copied      \* the ids that a migrate --copy has put in two places
disk == <<made, held, root, archived>>
vars == <<disk, reg, job, minted, commands, kills, calm, copied>>

Idle == [op |-> "none", at |-> "idle", id |-> NoId, loc |-> {}, from |-> {}, items |-> {},
         picked |-> {}, flag |-> FALSE, img |-> NoImage]
Busy(p) == job[p] # Idle

(***************************************************************************)
(* Finding a workspace                                                     *)
(***************************************************************************)
HasName(S, f) == \E x \in S : x[1] = f
Put(S, f, i) == {x \in S : x[1] # f} \union {<<f, i>>}
HasState(l) == HasName(held[l], "state")
StateOwner(l) == (CHOOSE x \in held[l] : x[1] = "state")[2]

Listed(i) == {e[2] : e \in {e \in reg.entries : e[1] = i}}

\* _resolve_project with an id: a pool workspace of that name first, then the registry
ResolveId(i) == IF HasState(Pool(i)) THEN {Pool(i)} ELSE Listed(i)

\* Without one: the .ortim at or above the directory, else the current pointer, if its state is there
ResolveCwd(d) == IF HasState(Project(d)) THEN {Project(d)}
                 ELSE {l \in Listed(reg.current) : HasState(l)}

\* The places a command can be sent to, of which store.load accepts those with a state.json
Reachable == {l \in UNION {ResolveId(i) : i \in Ids} \union UNION {ResolveCwd(d) : d \in Dirs} :
                HasState(l)}

(***************************************************************************)
(* Commands in general                                                     *)
(***************************************************************************)
PlacesOf(j) == j.loc \union j.from \union {c[2] : c \in j.picked}
MayUse(places) ==
    CASE Overlap = "any"   -> TRUE
      [] Overlap = "apart" -> \A q \in Procs : PlacesOf(job[q]) \intersect places = {}
      [] Overlap = "none"  -> \A q \in Procs : ~Busy(q)

Start(p, j) ==
    /\ ~Busy(p) /\ commands < MaxCommands
    /\ MayUse(PlacesOf(j))
    /\ job' = [job EXCEPT ![p] = j]
    /\ commands' = commands + 1
    /\ calm' = (calm /\ \A q \in Procs : ~Busy(q))
    /\ UNCHANGED kills

Step(p, op, at) == job[p].op = op /\ job[p].at = at
Go(p, at) == job' = [job EXCEPT ![p].at = at]
Finish(p) == job' = [job EXCEPT ![p] = Idle]
Running == UNCHANGED <<minted, commands, kills, calm, copied>>
TheLoc(p) == CHOOSE l \in job[p].loc : TRUE

(***************************************************************************)
(* The registry: load it, change the image, write the image back.  The     *)
(* write is write_text: the file is empty before it holds the image.       *)
(***************************************************************************)
Changed(p, img) ==
    CASE job[p].op = "init"    -> SetCurrent(Upsert(img, job[p].id, TheLoc(p)), job[p].id)
      [] job[p].op = "migrate" -> SetCurrent(Upsert(Remove(img, {job[p].id}), job[p].id, TheLoc(p)),
                                             job[p].id)
      [] job[p].op = "cleanup" -> Remove(img, {job[p].id})
      [] job[p].op \notin {"init", "migrate", "cleanup"} -> job[p].img

LoadRegistry(p) ==
    /\ job[p].at = "load"
    /\ job' = [job EXCEPT ![p].at = "empty", ![p].img = Changed(p, reg)]
    /\ UNCHANGED <<disk, reg>> /\ Running

EmptyRegistry(p) ==
    /\ job[p].at = "empty"
    /\ reg' = NoImage /\ Go(p, "write")
    /\ UNCHANGED disk /\ Running

WriteRegistry(p) ==
    /\ job[p].at = "write"
    /\ reg' = job[p].img
    /\ IF job[p].op = "cleanup" /\ job[p].picked # {}
       THEN job' = [job EXCEPT ![p].at = "next", ![p].img = NoImage]
       ELSE Finish(p)
    /\ UNCHANGED disk /\ Running

\* ortim use: reg.get finds the entry or the command ends; the pointer is set and saved
Use(p, i) ==
    /\ i \in Known(reg)
    /\ Start(p, [Idle EXCEPT !.op = "use", !.at = "empty", !.img = SetCurrent(reg, i)])
    /\ UNCHANGED <<disk, reg, minted, copied>>

\* Mutant of Missing: state.json is looked for as in the pool layout.
MissingFlat == {e[1] : e \in {e \in reg.entries : e[2] \in ProjectPlaces \/ ~HasState(e[2])}}

\* The entries prune_missing drops: those whose state.json is gone
Missing == {e[1] : e \in {e \in reg.entries : ~HasState(e[2])}}

\* ortim ls --prune: saved only if something was dropped
Prune(p) ==
    /\ Missing # {}
    /\ Start(p, [Idle EXCEPT !.op = "prune", !.at = "empty", !.img = Remove(reg, Missing)])
    /\ UNCHANGED <<disk, reg, minted, copied>>

(***************************************************************************)
(* ortim init, in a directory without .ortim: the metadata directory is    *)
(* made, a brownfield project is scanned into it, state.json comes last    *)
(***************************************************************************)
StartInit(p, d, i) ==
    /\ Project(d) \notin made
    /\ i \in NewIds \ minted /\ minted' = minted \union {i}
    /\ Start(p, [Idle EXCEPT !.op = "init", !.at = "mkdir", !.id = i, !.loc = {Project(d)}])
    /\ UNCHANGED <<disk, reg, copied>>

\* store.save makes the directory if it has to (so does the scan of a brownfield project)
MakeMetadataDir(p) ==
    /\ Step(p, "init", "mkdir")
    /\ made' = made \union job[p].loc
    /\ \E brownfield \in BOOLEAN :
         /\ TheLoc(p)[2] \notin BrownDirs => ~brownfield    \* --greenfield skips the scan
         /\ held' = IF brownfield THEN [held EXCEPT ![TheLoc(p)] = Put(@, "docs", job[p].id)]
                    ELSE held
    /\ Go(p, "state")
    /\ UNCHANGED <<root, archived, reg>> /\ Running

WriteState(p) ==
    /\ Step(p, "init", "state")
    /\ made' = made \union job[p].loc
    /\ held' = [held EXCEPT ![TheLoc(p)] = Put(@, "state", job[p].id)]
    /\ archived' = archived \ job[p].loc
    /\ Go(p, "load")
    /\ UNCHANGED <<root, reg>> /\ Running

\* ortim new: a pool workspace under a fresh id, which the registry is not told of
New(p, i) ==
    /\ i \in NewIds \ minted /\ minted' = minted \union {i}
    /\ commands < MaxCommands /\ ~Busy(p) /\ MayUse({Pool(i)})
    /\ commands' = commands + 1
    /\ made' = made \union {Pool(i)}
    /\ held' = [held EXCEPT ![Pool(i)] = {<<"state", i>>}]
    /\ UNCHANGED <<root, archived, reg, job, kills, calm, copied>>

(***************************************************************************)
(* workspace migrate: a pool workspace is split into <dir>/.ortim and      *)
(* <dir>, item by item; then its registry entry is put under the new place *)
(***************************************************************************)
StartMigrate(p, i, d, mode) ==
    /\ HasState(Pool(i)) /\ Project(d) \notin made
    /\ Start(p, [Idle EXCEPT !.op = "migrate", !.at = "mkdir", !.id = i,
                             !.loc = {Project(d)}, !.from = {Pool(i)}, !.flag = (mode = "move")])
    /\ copied' = IF mode = "copy" THEN copied \union {i} ELSE copied
    /\ UNCHANGED <<disk, reg, minted>>

\* mkdir refuses a directory that has appeared since the check; the items are listed now, and
\* a pool directory that is gone raises
MakeDestination(p) ==
    /\ Step(p, "migrate", "mkdir")
    /\ made' = made \union job[p].loc
    /\ IF job[p].loc \subseteq made \/ Pool(job[p].id) \notin made
       THEN Finish(p)
       ELSE LET items == held[Pool(job[p].id)]
            IN job' = [job EXCEPT ![p].at = IF items = {} THEN "load" ELSE "place", ![p].items = items]
    /\ UNCHANGED <<held, root, archived, reg>> /\ Running

\* Mutant of Free: an entry of the same name is written over.
FreeOver(f, l) == TRUE

\* An item whose name is taken at the destination stays behind
Free(f, l) == ~HasName(IF IsMetadata(f) THEN held[l] ELSE root[l[2]], f)

PlaceItem(p, x) ==
    LET l == TheLoc(p)  src == Pool(job[p].id) IN
    /\ Step(p, "migrate", "place") /\ x \in job[p].items
    /\ IF x \notin held[src]              \* gone in the meantime: the copy raises
       THEN Finish(p) /\ UNCHANGED disk
       ELSE /\ job' = [job EXCEPT ![p].items = @ \ {x},
                                  ![p].at = IF job[p].items = {x} THEN "load" ELSE "place"]
            /\ IF Free(x[1], l)
               THEN /\ held' = [held EXCEPT ![l] = IF IsMetadata(x[1]) THEN Put(@, x[1], x[2]) ELSE @,
                                            ![src] = IF job[p].flag THEN held[src] \ {x} ELSE held[src]]
                    /\ root' = [root EXCEPT ![l[2]] = IF IsMetadata(x[1]) THEN @
                                                      ELSE Put(@, x[1], x[2])]
                    /\ archived' = IF x[1] = "state" /\ src \in archived
                                   THEN (archived \ {s \in {src} : job[p].flag}) \union {l}
                                   ELSE archived
               ELSE UNCHANGED <<held, root, archived>>
            /\ UNCHANGED made
    /\ UNCHANGED reg /\ Running

(***************************************************************************)
(* workspace cleanup --yes.  The candidates are listed once: registered    *)
(* workspaces and pool workspaces the registry does not name, archived     *)
(* unless --include-active; how old they are is anyone's guess.            *)
(***************************************************************************)
\* Mutant of Cleanable: the archived flag is not looked at.
CleanableAll(active) == {c \in reg.entries \union {<<i, Pool(i)>> : i \in Ids} : HasState(c[2])}

Cleanable(active) ==
    {c \in reg.entries \union {<<i, Pool(i)>> : i \in Ids} :
        HasState(c[2]) /\ (c[2] \in archived \/ active)}

StartCleanup(p, active, picked) ==
    /\ picked # {} /\ picked \subseteq Cleanable(active)
    /\ Start(p, [Idle EXCEPT !.op = "cleanup", !.at = "next", !.picked = picked, !.flag = active])
    /\ UNCHANGED <<disk, reg, minted, copied>>

\* A directory that is not there any more is not an error
TakeCandidate(p, c) ==
    /\ Step(p, "cleanup", "next") /\ c \in job[p].picked
    /\ job' = [job EXCEPT ![p].picked = @ \ {c}, ![p].id = c[1], ![p].loc = {c[2]},
                          ![p].at = IF c[2] \in made THEN "remove" ELSE "load"]
    /\ UNCHANGED <<disk, reg>> /\ Running

\* rmtree of <dir>/.ortim, or of the pool directory
RemoveDir(p) ==
    /\ Step(p, "cleanup", "remove")
    /\ held' = [held EXCEPT ![TheLoc(p)] = {}]
    /\ made' = made \ job[p].loc /\ archived' = archived \ job[p].loc
    /\ Go(p, "load")
    /\ UNCHANGED <<root, reg>> /\ Running

\* An OSError leaves the rest of the directory, and the entry; the next candidate is taken
RemoveFails(p, rest) ==
    /\ Step(p, "cleanup", "remove") /\ rest \subseteq held[TheLoc(p)]
    /\ held' = [held EXCEPT ![TheLoc(p)] = rest]
    /\ IF job[p].picked = {} THEN Finish(p) ELSE Go(p, "next")
    /\ UNCHANGED <<made, root, archived, reg>> /\ Running

(***************************************************************************)
(* Commands inside a workspace: its state is loaded, and saved later       *)
(***************************************************************************)
\* archive and unarchive: refused when the flag is set that way already
StartFlag(p, l, flag) ==
    /\ l \in Reachable /\ (l \in archived) # flag
    /\ Start(p, [Idle EXCEPT !.op = "flag", !.at = "save", !.id = StateOwner(l), !.loc = {l},
                             !.flag = flag])
    /\ UNCHANGED <<disk, reg, minted, copied>>

\* run, run-all: refused on an archived workspace
StartWork(p, l) ==
    /\ l \in Reachable /\ l \notin archived
    /\ Start(p, [Idle EXCEPT !.op = "work", !.at = "work", !.id = StateOwner(l), !.loc = {l}])
    /\ UNCHANGED <<disk, reg, minted, copied>>

\* Artifacts, links and the generated code alike go to the metadata directory
Produce(p, f) ==
    /\ Step(p, "work", "work") /\ f \in Files \ {"state"}
    /\ made' = made \union job[p].loc
    /\ held' = [held EXCEPT ![TheLoc(p)] = Put(@, f, job[p].id)]
    /\ Go(p, "save")
    /\ UNCHANGED <<root, archived, reg>> /\ Running

\* store.save makes the directory if it is gone, and writes the project as it was loaded
SaveState(p) ==
    /\ job[p].at = "save"
    /\ made' = made \union job[p].loc
    /\ held' = [held EXCEPT ![TheLoc(p)] = Put(@, "state", job[p].id)]
    /\ archived' = IF job[p].flag THEN archived \union job[p].loc ELSE archived \ job[p].loc
    /\ Finish(p)
    /\ UNCHANGED <<root, reg>> /\ Running

Kill(p) ==
    /\ Busy(p) /\ kills < MaxKills
    /\ Finish(p) /\ kills' = kills + 1 /\ calm' = FALSE
    /\ UNCHANGED <<disk, reg, minted, commands, copied>>

\* A machine in use: pool workspaces with code, and projects that init registered, archived or not
Init ==
    LET old == {<<s[1], Project(s[2])>> : s \in Settled}
        all == old \union {<<i, Pool(i)>> : i \in PoolIds}
    IN /\ made = {w[2] : w \in all}
       /\ held = [l \in Places |-> (IF l \in ProjectPlaces THEN {"state"} ELSE Files \ {"link"})
                                       \X {w[1] : w \in {v \in all : v[2] = l}}]
       /\ archived \in SUBSET {w[2] : w \in old}
       /\ reg \in {[current |-> w[1], entries |-> old] : w \in old}
    /\ root = [d \in Dirs |-> IF d \in BrownDirs THEN {<<"code", Users>>} ELSE {}]
    /\ job = [p \in Procs |-> Idle]
    /\ minted = {} /\ commands = 0 /\ kills = 0 /\ calm = TRUE /\ copied = {}

Command(p) ==
    \/ \E i \in Ids : Use(p, i) \/ New(p, i)
    \/ Prune(p)
    \/ \E d \in Dirs, i \in Ids : StartInit(p, d, i) \/ \E mode \in Modes : StartMigrate(p, i, d, mode)
    \/ \E active \in BOOLEAN : \E picked \in SUBSET Cleanable(active) : StartCleanup(p, active, picked)
    \/ \E l \in Places : StartWork(p, l) \/ \E flag \in BOOLEAN : StartFlag(p, l, flag)

Continue(p) ==
    \/ LoadRegistry(p) \/ EmptyRegistry(p) \/ WriteRegistry(p)
    \/ MakeMetadataDir(p) \/ WriteState(p)
    \/ MakeDestination(p) \/ (\E x \in job[p].items : PlaceItem(p, x))
    \/ (\E c \in job[p].picked : TakeCandidate(p, c))
    \/ RemoveDir(p) \/ (\E l \in job[p].loc : \E rest \in SUBSET held[l] : RemoveFails(p, rest))
    \/ (\E f \in Files : Produce(p, f)) \/ SaveState(p)

\* Nobody has to type a command
Rest == (\A p \in Procs : ~Busy(p)) /\ UNCHANGED vars

Next == (\E p \in Procs : Command(p) \/ Continue(p) \/ Kill(p)) \/ Rest
Spec == Init /\ [][Next]_vars
==============================================================================
