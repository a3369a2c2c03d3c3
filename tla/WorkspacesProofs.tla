--------------------------- MODULE WorkspacesProofs --------------------------
(***************************************************************************)
(* The workspace commands, for any number of terminals, directories,       *)
(* workspaces, kills and commands.                                         *)
(*                                                                         *)
(* Whatever overlaps and is killed, side by side in the same place too:    *)
(* the variables keep their types, the pointer of the registry does not    *)
(* dangle, and user files stay.  When no two commands are in one place at  *)
(* once, kills included (PlaceInv): the last copy of a file goes only in   *)
(* a cleanup.  When commands run one after another and none is killed      *)
(* (RegistryInv): an id leads to itself, and what is finished is listed.   *)
(***************************************************************************)
EXTENDS WorkspaceProps, TLAPS

(* An image whose pointer does not dangle *)
Sound(img) == img \in Image /\ img.current \in Known(img) \union {NoId}

LEMMA NoImageSound == Sound(NoImage)
BY DEF Sound, NoImage, Image, Known

LEMMA WithoutKeeps ==
    ASSUME NEW img \in Image, NEW dead
    PROVE  Without(img, dead) \subseteq img.entries
BY DEF Without

LEMMA SetCurrentSound ==
    ASSUME NEW img \in Image, NEW i \in Known(img) \intersect Ids
    PROVE  Sound(SetCurrent(img, i))
BY DEF Sound, SetCurrent, Image, Known

LEMMA UpsertSound ==
    ASSUME NEW img \in Image, NEW i \in Ids, NEW l \in Places
    PROVE  Sound(SetCurrent(Upsert(img, i, l), i))
<1> DEFINE new == Without(img, {i}) \union {<<i, l>>}
<1>1. new \in SUBSET (Ids \X Places)
  BY WithoutKeeps DEF Image
<1>2. Upsert(img, i, l) \in Image /\ Upsert(img, i, l).entries = new
  <2> HIDE DEF new
  <2> QED BY <1>1 DEF Upsert, Image, new
<1>3. i \in Known(Upsert(img, i, l))
  <2>1. <<i, l>> \in new /\ <<i, l>>[1] = i
    OBVIOUS
  <2> QED BY <1>2, <2>1 DEF Known
<1> QED BY <1>2, <1>3, SetCurrentSound

LEMMA RemoveSound ==
    ASSUME NEW img, Sound(img), NEW dead
    PROVE  Sound(Remove(img, dead))
<1> DEFINE new == [current |-> IF img.current \in dead THEN NoId ELSE img.current,
                   entries |-> Without(img, dead)]
<1>1. new \in Image
  BY WithoutKeeps DEF Sound, Image
<1>2. new.current \in Known(new) \union {NoId}
  <2>1. CASE img.current \in dead \union {NoId}
    BY <2>1
  <2>2. CASE img.current \notin dead \union {NoId}
    <3>1. PICK e \in img.entries : e[1] = img.current
      BY <2>2 DEF Sound, Known
    <3>2. e \in Without(img, dead)
      BY <3>1, <2>2 DEF Without
    <3> QED BY <3>1, <3>2, <2>2 DEF Known
  <2> QED BY <2>1, <2>2
<1> QED BY <1>1, <1>2 DEF Sound, Remove

(* The commands that write to a place under an id have both in hand *)
Targeted(j) ==
    /\ j.op \in {"init", "migrate", "flag", "work"} \/ (j.op = "cleanup" /\ j.at # "next")
          => j.id \in Ids /\ j.loc # {}
    /\ j.at = "save" => j.op \in {"flag", "work"}

Jobs == job \in [Procs -> Job] /\ \A p \in Procs : Sound(job[p].img) /\ Targeted(job[p])

Disk == /\ made \subseteq Places /\ archived \subseteq Places
        /\ held \in [Places -> SUBSET (Files \X Ids)] /\ root \in [Dirs -> SUBSET Items]

Counters == /\ minted \subseteq NewIds /\ copied \subseteq Ids
            /\ commands \in 0..MaxCommands /\ kills \in 0..MaxKills /\ calm \in BOOLEAN

\* Inductive: TypeOK, and no image that is on disk or will be written has a dangling pointer
Inv == Disk /\ Counters /\ Jobs /\ Sound(reg)

(***************************************************************************)
(* Helpers                                                                 *)
(***************************************************************************)
LEMMA PutType ==
    ASSUME NEW S \in SUBSET (Files \X Ids), NEW f \in Files, NEW i \in Ids
    PROVE  Put(S, f, i) \in SUBSET (Files \X Ids)
BY DEF Put

LEMMA PutRoot ==
    ASSUME NEW S \in SUBSET Items, NEW f \in Files, NEW i \in Ids
    PROVE  Put(S, f, i) \in SUBSET Items
BY DEF Put, Items

LEMMA IdleJob == Idle \in Job /\ Sound(Idle.img) /\ Targeted(Idle)
BY NoImageSound DEF Idle, Job, Sound, Targeted

LEMMA TheLocIn ==
    ASSUME Jobs, NEW p \in Procs, job[p].loc # {}
    PROVE  TheLoc(p) \in Places /\ TheLoc(p) \in job[p].loc
BY DEF TheLoc, Jobs, Job

LEMMA OwnerType ==
    ASSUME Disk, NEW l \in Places, HasState(l)
    PROVE  StateOwner(l) \in Ids
<1>1. \E x \in held[l] : x[1] = "state"
  BY DEF HasState, HasName
<1>2. (CHOOSE x \in held[l] : x[1] = "state") \in held[l]
  BY <1>1
<1> QED BY <1>2 DEF StateOwner, Disk

LEMMA JobSet ==
    ASSUME Jobs, NEW p \in Procs, NEW j \in Job, Sound(j.img), Targeted(j),
           job' = [job EXCEPT ![p] = j]
    PROVE  Jobs'
<1>1. job' \in [Procs -> Job]
  BY DEF Jobs
<1>2. ASSUME NEW q \in Procs PROVE Sound(job'[q].img) /\ Targeted(job'[q])
  <2>1. CASE q = p
    <3>1. job'[q] = j
      BY <2>1 DEF Jobs
    <3> QED BY <3>1
  <2>2. CASE q # p
    <3>1. job'[q] = job[q]
      BY <2>2 DEF Jobs
    <3> QED BY <3>1 DEF Jobs
  <2> QED BY <2>1, <2>2
<1>3. \A q \in Procs : Sound(job'[q].img) /\ Targeted(job'[q])
  BY <1>2
<1> QED BY <1>1, <1>3 DEF Jobs, Sound, Targeted, Known

LEMMA FinishJobs == ASSUME Jobs, NEW p \in Procs, Finish(p) PROVE Jobs'
BY JobSet, IdleJob DEF Finish

LEMMA GoJobs ==
    ASSUME Jobs, NEW p \in Procs, NEW at, Go(p, at), [job[p] EXCEPT !.at = at] \in Job,
           job[p].op = "cleanup" /\ job[p].at = "next" => at = "next",
           at = "save" => job[p].op = "work"
    PROVE  Jobs'
<1> DEFINE j == [job[p] EXCEPT !.at = at]
<1>1. job' = [job EXCEPT ![p] = j]
  BY DEF Go, Jobs
<1>2. j.img = job[p].img /\ j.op = job[p].op /\ j.id = job[p].id /\ j.loc = job[p].loc /\ j.at = at
  BY DEF Jobs, Job
<1>3. Sound(j.img)
  BY <1>2 DEF Jobs
<1>4. Targeted(j)
  <2> HIDE DEF j
  <2> QED BY <1>2 DEF Jobs, Targeted
<1> HIDE DEF j
<1> QED BY <1>1, <1>3, <1>4, JobSet DEF j

LEMMA StartJobs ==
    ASSUME Jobs, Counters, NEW p \in Procs, NEW j \in Job, Sound(j.img), Targeted(j), Start(p, j),
           minted' \subseteq NewIds, copied' \subseteq Ids
    PROVE  Jobs' /\ Counters'
<1>1. Jobs'
  BY JobSet DEF Start
<1>2. commands' \in 0..MaxCommands
  BY WorkspacesAssumption DEF Start, Counters
<1>3. kills' \in 0..MaxKills /\ calm' \in BOOLEAN
  BY DEF Start, Counters
<1> QED BY <1>1, <1>2, <1>3 DEF Counters

(***************************************************************************)
(* Commands that begin                                                     *)
(***************************************************************************)
LEMMA UseSteps ==
    ASSUME Inv, NEW p \in Procs, NEW i \in Ids, Use(p, i)
    PROVE  Inv'
<1> DEFINE img == SetCurrent(reg, i)
           j == [Idle EXCEPT !.op = "use", !.at = "empty", !.img = img]
<1>1. Sound(img)
  BY SetCurrentSound DEF Inv, Sound, Use
<1>2. j \in Job /\ j.img = img /\ Targeted(j)
  <2> HIDE DEF img
  <2> QED BY <1>1 DEF Idle, Job, Sound, Targeted
<1>3. Start(p, j)
  BY DEF Use
<1> HIDE DEF j
<1>4. Jobs' /\ Counters'
  BY <1>1, <1>2, <1>3, StartJobs DEF Use, Inv, Counters
<1> QED BY <1>4 DEF Use, Inv, Disk, disk, Sound, Known

LEMMA PruneSteps ==
    ASSUME Inv, NEW p \in Procs, Prune(p)
    PROVE  Inv'
<1> DEFINE img == Remove(reg, Missing)
           j == [Idle EXCEPT !.op = "prune", !.at = "empty", !.img = img]
<1>1. Sound(img)
  BY RemoveSound DEF Inv
<1>2. j \in Job /\ j.img = img /\ Targeted(j)
  <2> HIDE DEF img
  <2> QED BY <1>1 DEF Idle, Job, Sound, Targeted
<1>3. Start(p, j)
  BY DEF Prune
<1> HIDE DEF j, img
<1>4. Jobs' /\ Counters'
  BY <1>1, <1>2, <1>3, StartJobs DEF Prune, Inv, Counters
<1> QED BY <1>4 DEF Prune, Inv, Disk, disk, Sound, Known

LEMMA InitSteps ==
    ASSUME Inv, NEW p \in Procs, NEW d \in Dirs, NEW i \in Ids, StartInit(p, d, i)
    PROVE  Inv'
<1> DEFINE j == [Idle EXCEPT !.op = "init", !.at = "mkdir", !.id = i, !.loc = {Project(d)}]
<1>1. Project(d) \in Places
  BY DEF Places, ProjectPlaces
<1>2. j \in Job /\ Sound(j.img) /\ Targeted(j)
  BY <1>1, NoImageSound DEF Idle, Job, Sound, Targeted
<1>3. Start(p, j)
  BY DEF StartInit
<1> HIDE DEF j
<1>4. Jobs' /\ Counters'
  BY <1>2, <1>3, StartJobs DEF StartInit, Inv, Counters
<1> QED BY <1>4 DEF StartInit, Inv, Disk, disk, Sound, Known

LEMMA MigrateSteps ==
    ASSUME Inv, NEW p \in Procs, NEW d \in Dirs, NEW i \in Ids, NEW mode \in Modes,
           StartMigrate(p, i, d, mode)
    PROVE  Inv'
<1> DEFINE j == [Idle EXCEPT !.op = "migrate", !.at = "mkdir", !.id = i, !.loc = {Project(d)},
                             !.from = {Pool(i)}, !.flag = (mode = "move")]
<1>1. Project(d) \in Places /\ Pool(i) \in Places
  BY DEF Places, ProjectPlaces
<1>2. j \in Job /\ Sound(j.img) /\ Targeted(j)
  BY <1>1, NoImageSound DEF Idle, Job, Sound, Targeted
<1>3. Start(p, j)
  BY DEF StartMigrate
<1>4. minted' \subseteq NewIds /\ copied' \subseteq Ids
  BY DEF StartMigrate, Inv, Counters
<1> HIDE DEF j
<1>5. Jobs' /\ Counters'
  BY <1>2, <1>3, <1>4, StartJobs DEF Inv
<1> QED BY <1>5 DEF StartMigrate, Inv, Disk, disk, Sound, Known

LEMMA CleanupSteps ==
    ASSUME Inv, NEW p \in Procs, NEW active \in BOOLEAN, NEW picked \in SUBSET Cleanable(active),
           StartCleanup(p, active, picked)
    PROVE  Inv'
<1> DEFINE j == [Idle EXCEPT !.op = "cleanup", !.at = "next", !.picked = picked, !.flag = active]
<1>1. picked \subseteq Ids \X Places
  BY DEF Cleanable, Inv, Sound, Image, Places
<1>2. j \in Job /\ Sound(j.img) /\ Targeted(j)
  BY <1>1, NoImageSound DEF Idle, Job, Sound, Targeted
<1>3. Start(p, j)
  BY DEF StartCleanup
<1> HIDE DEF j
<1>4. Jobs' /\ Counters'
  BY <1>2, <1>3, StartJobs DEF StartCleanup, Inv, Counters
<1> QED BY <1>4 DEF StartCleanup, Inv, Disk, disk, Sound, Known

LEMMA FlagSteps ==
    ASSUME Inv, NEW p \in Procs, NEW l \in Places, NEW flag \in BOOLEAN, StartFlag(p, l, flag)
    PROVE  Inv'
<1> DEFINE j == [Idle EXCEPT !.op = "flag", !.at = "save", !.id = StateOwner(l), !.loc = {l}, !.flag = flag]
<1>1. StateOwner(l) \in Ids
  BY OwnerType DEF StartFlag, Reachable, Inv
<1>2. j \in Job /\ Sound(j.img) /\ Targeted(j)
  BY <1>1, NoImageSound DEF Idle, Job, Sound, Targeted
<1>3. Start(p, j)
  BY DEF StartFlag
<1> HIDE DEF j
<1>4. Jobs' /\ Counters'
  BY <1>2, <1>3, StartJobs DEF StartFlag, Inv, Counters
<1> QED BY <1>4 DEF StartFlag, Inv, Disk, disk, Sound, Known

LEMMA WorkSteps ==
    ASSUME Inv, NEW p \in Procs, NEW l \in Places, StartWork(p, l)
    PROVE  Inv'
<1> DEFINE j == [Idle EXCEPT !.op = "work", !.at = "work", !.id = StateOwner(l), !.loc = {l}]
<1>1. StateOwner(l) \in Ids
  BY OwnerType DEF StartWork, Reachable, Inv
<1>2. j \in Job /\ Sound(j.img) /\ Targeted(j)
  BY <1>1, NoImageSound DEF Idle, Job, Sound, Targeted
<1>3. Start(p, j)
  BY DEF StartWork
<1> HIDE DEF j
<1>4. Jobs' /\ Counters'
  BY <1>2, <1>3, StartJobs DEF StartWork, Inv, Counters
<1> QED BY <1>4 DEF StartWork, Inv, Disk, disk, Sound, Known

LEMMA NewSteps ==
    ASSUME Inv, NEW p \in Procs, NEW i \in Ids, New(p, i)
    PROVE  Inv'
<1>1. {<<"state", i>>} \in SUBSET (Files \X Ids) /\ Pool(i) \in Places
  BY WorkspacesAssumption DEF Places
<1>2. Disk'
  BY <1>1 DEF New, Inv, Disk
<1>3. Counters'
  BY WorkspacesAssumption DEF New, Inv, Counters
<1> QED BY <1>2, <1>3 DEF New, Inv, Jobs, Sound, Known, Targeted

LEMMA CommandInv ==
    ASSUME Inv, NEW p \in Procs, Command(p)
    PROVE  Inv'
BY UseSteps, PruneSteps, InitSteps, MigrateSteps, CleanupSteps, FlagSteps, WorkSteps, NewSteps DEF Command

(***************************************************************************)
(* Commands that go on                                                     *)
(***************************************************************************)
LEMMA ChangedSound ==
    ASSUME Inv, NEW p \in Procs, job[p].at = "load"
    PROVE  Sound(Changed(p, reg))
<1>1. Sound(reg) /\ reg \in Image /\ Sound(job[p].img)
  BY DEF Inv, Jobs, Sound
<1>2. CASE job[p].op \in {"init", "migrate"}
  <2>1. job[p].id \in Ids /\ TheLoc(p) \in Places
    BY <1>2, TheLocIn DEF Inv, Jobs, Targeted
  <2>2. Remove(reg, {job[p].id}) \in Image
    BY <1>1, RemoveSound DEF Sound
  <2> QED BY <1>1, <1>2, <2>1, <2>2, UpsertSound DEF Changed
<1>3. CASE job[p].op = "cleanup"
  BY <1>1, <1>3, RemoveSound DEF Changed
<1>4. CASE job[p].op \notin {"init", "migrate", "cleanup"}
  BY <1>1, <1>4 DEF Changed
<1> QED BY <1>2, <1>3, <1>4

LEMMA LoadSteps ==
    ASSUME Inv, NEW p \in Procs, LoadRegistry(p)
    PROVE  Inv'
<1> DEFINE img == Changed(p, reg)
           j == [job[p] EXCEPT !.at = "empty", !.img = img]
<1>1. Sound(img)
  BY ChangedSound DEF LoadRegistry
<1> HIDE DEF img
<1>2. job[p] \in Job /\ Targeted(job[p]) /\ job[p].at = "load"
  BY DEF Inv, Jobs, LoadRegistry
<1>3. j \in Job /\ j.img = img
  BY <1>1, <1>2 DEF Job, Sound
<1>4. Targeted(j)
  BY <1>2 DEF Job, Targeted
<1>5. job' = [job EXCEPT ![p] = j]
  BY DEF LoadRegistry, Inv, Jobs, img
<1> HIDE DEF j
<1>6. Jobs'
  BY <1>1, <1>3, <1>4, <1>5, JobSet DEF Inv
<1> QED BY <1>6 DEF LoadRegistry, Running, Inv, Disk, disk, Counters, Sound, Known

LEMMA EmptySteps ==
    ASSUME Inv, NEW p \in Procs, EmptyRegistry(p)
    PROVE  Inv'
<1>1. [job[p] EXCEPT !.at = "write"] \in Job /\ Go(p, "write") /\ job[p].at # "next"
  BY DEF EmptyRegistry, Inv, Jobs, Job
<1>2. Jobs'
  BY <1>1, GoJobs DEF Inv
<1> QED BY <1>2, NoImageSound DEF EmptyRegistry, Running, Inv, Disk, disk, Counters, Sound, Known

LEMMA WriteSteps ==
    ASSUME Inv, NEW p \in Procs, WriteRegistry(p)
    PROVE  Inv'
<1>1. Jobs'
  <2>1. CASE Finish(p)
    BY <2>1, FinishJobs DEF Inv
  <2>2. CASE ~Finish(p)
    <3> DEFINE j == [job[p] EXCEPT !.at = "next", !.img = NoImage]
    <3>1. job[p] \in Job /\ job[p].op = "cleanup"
      BY <2>2 DEF WriteRegistry, Inv, Jobs
    <3>2. j \in Job /\ j.img = NoImage
      BY <3>1, NoImageSound DEF Job, Sound
    <3>3. Targeted(j)
      BY <3>1 DEF Job, Targeted
    <3>4. job' = [job EXCEPT ![p] = j]
      BY <2>2 DEF WriteRegistry, Inv, Jobs
    <3> HIDE DEF j
    <3> QED BY <3>2, <3>3, <3>4, JobSet, NoImageSound DEF Inv
  <2> QED BY <2>1, <2>2
<1>2. Sound(reg')
  BY DEF WriteRegistry, Inv, Jobs
<1> QED BY <1>1, <1>2 DEF WriteRegistry, Running, Inv, Disk, disk, Counters, Sound, Known

\* A file of the job's own workspace is written to its place
LEMMA PutHeld ==
    ASSUME Inv, NEW p \in Procs, Targeted(job[p]), NEW f \in Files,
           job[p].op \in {"init", "migrate", "flag", "work"}
    PROVE  [held EXCEPT ![TheLoc(p)] = Put(@, f, job[p].id)] \in [Places -> SUBSET (Files \X Ids)]
<1>1. job[p].id \in Ids /\ TheLoc(p) \in Places
  BY TheLocIn DEF Targeted, Inv
<1>2. held[TheLoc(p)] \in SUBSET (Files \X Ids)
  BY <1>1 DEF Inv, Disk
<1>3. Put(held[TheLoc(p)], f, job[p].id) \in SUBSET (Files \X Ids)
  BY <1>1, <1>2, PutType
<1> QED BY <1>1, <1>3 DEF Inv, Disk

LEMMA MkdirSteps ==
    ASSUME Inv, NEW p \in Procs, MakeMetadataDir(p)
    PROVE  Inv'
<1>1. Targeted(job[p]) /\ job[p] \in Job /\ job[p].op = "init" /\ job[p].at = "mkdir"
  BY DEF MakeMetadataDir, Step, Inv, Jobs
<1>2. held' \in [Places -> SUBSET (Files \X Ids)]
  BY <1>1, PutHeld, WorkspacesAssumption DEF MakeMetadataDir, Inv, Disk
<1>3. Disk'
  BY <1>1, <1>2 DEF MakeMetadataDir, Inv, Disk, Job
<1>4. [job[p] EXCEPT !.at = "state"] \in Job /\ Go(p, "state")
  BY <1>1 DEF MakeMetadataDir, Job
<1>5. Jobs'
  BY <1>1, <1>4, GoJobs DEF Inv
<1> QED BY <1>3, <1>5 DEF MakeMetadataDir, Running, Inv, Counters, Sound, Known

LEMMA WriteStateSteps ==
    ASSUME Inv, NEW p \in Procs, WriteState(p)
    PROVE  Inv'
<1>1. Targeted(job[p]) /\ job[p] \in Job /\ job[p].op = "init" /\ job[p].at = "state"
  BY DEF WriteState, Step, Inv, Jobs
<1>2. held' \in [Places -> SUBSET (Files \X Ids)]
  BY <1>1, PutHeld, WorkspacesAssumption DEF WriteState
<1>3. Disk'
  BY <1>1, <1>2 DEF WriteState, Inv, Disk, Job
<1>4. [job[p] EXCEPT !.at = "load"] \in Job /\ Go(p, "load")
  BY <1>1 DEF WriteState, Job
<1>5. Jobs'
  BY <1>1, <1>4, GoJobs DEF Inv
<1> QED BY <1>3, <1>5 DEF WriteState, Running, Inv, Counters, Sound, Known

LEMMA ProduceSteps ==
    ASSUME Inv, NEW p \in Procs, NEW f \in Files, Produce(p, f)
    PROVE  Inv'
<1>1. Targeted(job[p]) /\ job[p] \in Job /\ job[p].op = "work" /\ job[p].at = "work"
  BY DEF Produce, Step, Inv, Jobs
<1>2. held' \in [Places -> SUBSET (Files \X Ids)]
  BY <1>1, PutHeld DEF Produce
<1>3. Disk'
  BY <1>1, <1>2 DEF Produce, Inv, Disk, Job
<1>4. [job[p] EXCEPT !.at = "save"] \in Job /\ Go(p, "save")
  BY <1>1 DEF Produce, Job
<1>5. Jobs'
  BY <1>1, <1>4, GoJobs DEF Inv
<1> QED BY <1>3, <1>5 DEF Produce, Running, Inv, Counters, Sound, Known

LEMMA RemoveSteps ==
    ASSUME Inv, NEW p \in Procs, RemoveDir(p)
    PROVE  Inv'
<1>1. job[p] \in Job /\ job[p].at = "remove"
  BY DEF RemoveDir, Step, Inv, Jobs
<1>2. Disk'
  BY <1>1 DEF RemoveDir, Inv, Disk, Job
<1>3. [job[p] EXCEPT !.at = "load"] \in Job /\ Go(p, "load")
  BY <1>1 DEF RemoveDir, Job
<1>4. Jobs'
  BY <1>1, <1>3, GoJobs DEF Inv
<1> QED BY <1>2, <1>4 DEF RemoveDir, Running, Inv, Counters, Sound, Known

LEMMA RemoveFailsSteps ==
    ASSUME Inv, NEW p \in Procs, NEW rest, RemoveFails(p, rest)
    PROVE  Inv'
<1>1. job[p] \in Job /\ job[p].at = "remove"
  BY DEF RemoveFails, Step, Inv, Jobs
<1>2. TheLoc(p) \in Places => rest \in SUBSET (Files \X Ids)
  BY DEF RemoveFails, Inv, Disk
<1>3. Disk'
  BY <1>2 DEF RemoveFails, Inv, Disk
<1>4. [job[p] EXCEPT !.at = "next"] \in Job
  BY <1>1 DEF Job
<1>5. Jobs'
  BY <1>1, <1>4, GoJobs, FinishJobs DEF Inv, RemoveFails
<1> QED BY <1>3, <1>5 DEF RemoveFails, Running, Inv, Counters, Sound, Known

LEMMA SaveSteps ==
    ASSUME Inv, NEW p \in Procs, SaveState(p)
    PROVE  Inv'
<1>1. Targeted(job[p]) /\ job[p] \in Job /\ job[p].op \in {"flag", "work"}
  BY DEF SaveState, Inv, Jobs, Targeted
<1>2. held' \in [Places -> SUBSET (Files \X Ids)]
  BY <1>1, PutHeld, WorkspacesAssumption DEF SaveState
<1>3. Disk'
  BY <1>1, <1>2 DEF SaveState, Inv, Disk, Job
<1>4. Jobs'
  BY FinishJobs DEF SaveState, Inv
<1> QED BY <1>3, <1>4 DEF SaveState, Running, Inv, Counters, Sound, Known

LEMMA TakeSteps ==
    ASSUME Inv, NEW p \in Procs, NEW c \in job[p].picked, TakeCandidate(p, c)
    PROVE  Inv'
<1> DEFINE at == IF c[2] \in made THEN "remove" ELSE "load"
           j == [job[p] EXCEPT !.picked = @ \ {c}, !.id = c[1], !.loc = {c[2]}, !.at = at]
<1>1. job[p] \in Job /\ Sound(job[p].img) /\ job[p].op = "cleanup"
  BY DEF TakeCandidate, Step, Inv, Jobs
<1>2. c[1] \in Ids /\ c[2] \in Places /\ at \in {"remove", "load"}
  BY <1>1 DEF Job
<1>3. job' = [job EXCEPT ![p] = j]
  BY DEF TakeCandidate, Inv, Jobs
<1> HIDE DEF at
<1>4. j \in Job /\ j.img = job[p].img /\ Targeted(j)
  BY <1>1, <1>2 DEF Job, Targeted
<1> HIDE DEF j
<1>5. Jobs'
  BY <1>1, <1>3, <1>4, JobSet DEF Inv
<1> QED BY <1>5 DEF TakeCandidate, Running, Inv, Disk, disk, Counters, Sound, Known

LEMMA DestinationSteps ==
    ASSUME Inv, NEW p \in Procs, MakeDestination(p)
    PROVE  Inv'
<1>1. job[p] \in Job /\ Sound(job[p].img) /\ Targeted(job[p]) /\ job[p].op = "migrate"
  BY DEF MakeDestination, Step, Inv, Jobs
<1>2. job[p].id \in Ids
  BY <1>1 DEF Targeted
<1>3. held[Pool(job[p].id)] \in SUBSET (Files \X Ids)
  BY <1>2 DEF Inv, Disk, Places
<1>4. Jobs'
  <2>1. CASE job[p].loc \subseteq made \/ Pool(job[p].id) \notin made
    BY <2>1, FinishJobs DEF MakeDestination, Inv
  <2>2. CASE ~(job[p].loc \subseteq made \/ Pool(job[p].id) \notin made)
    <3> DEFINE items == held[Pool(job[p].id)]
               at == IF items = {} THEN "load" ELSE "place"
               j == [job[p] EXCEPT !.at = at, !.items = items]
    <3>1. job' = [job EXCEPT ![p] = j]
      BY <2>2 DEF MakeDestination, Inv, Jobs
    <3>0. at \in {"load", "place"}
      OBVIOUS
    <3> HIDE DEF items, at
    <3>2. j \in Job /\ j.img = job[p].img /\ Targeted(j)
      BY <1>1, <1>3, <3>0 DEF Job, Targeted, items
    <3> HIDE DEF j
    <3> QED BY <1>1, <3>1, <3>2, JobSet DEF Inv
  <2> QED BY <2>1, <2>2
<1>5. Disk'
  BY <1>1 DEF MakeDestination, Inv, Disk, Job
<1> QED BY <1>4, <1>5 DEF MakeDestination, Running, Inv, Counters, Sound, Known

\* An item of a migration is one of the workspace's own
LEMMA ItemType ==
    ASSUME Inv, NEW p \in Procs, NEW x \in job[p].items
    PROVE  x[1] \in Files /\ x[2] \in Ids /\ x \in Files \X Ids
BY DEF Inv, Jobs, Job

LEMMA PlaceSteps ==
    ASSUME Inv, NEW p \in Procs, NEW x \in job[p].items, PlaceItem(p, x)
    PROVE  Inv'
<1> DEFINE l == TheLoc(p)
           src == Pool(job[p].id)
<1>1. job[p] \in Job /\ Sound(job[p].img) /\ Targeted(job[p]) /\ job[p].op = "migrate"
  BY DEF PlaceItem, Step, Inv, Jobs
<1>2. x[1] \in Files /\ x[2] \in Ids /\ l \in Places
  BY <1>1, ItemType, TheLocIn DEF Targeted, Inv
<1> HIDE DEF l, src
<1>3. CASE x \notin held[src]
  <2>1. Finish(p) /\ UNCHANGED <<disk, reg>> /\ Running
    BY <1>3 DEF PlaceItem, src
  <2>2. Jobs'
    BY <2>1, FinishJobs DEF Inv
  <2> QED BY <2>1, <2>2 DEF Running, Inv, Disk, disk, Counters, Sound, Known
<1>4. CASE x \in held[src]
  <2> DEFINE items == job[p].items \ {x}
             at == IF job[p].items = {x} THEN "load" ELSE "place"
             j == [job[p] EXCEPT !.items = items, !.at = at]
  <2>1. job' = [job EXCEPT ![p] = j]
    BY <1>4 DEF PlaceItem, src, Inv, Jobs
  <2>2. items \in SUBSET (Files \X Ids) /\ at \in {"load", "place"}
    BY <1>1 DEF Job
  <2> HIDE DEF items, at
  <2>3. j \in Job /\ j.img = job[p].img /\ Targeted(j)
    BY <1>1, <2>2 DEF Job, Targeted
  <2> HIDE DEF j
  <2>4. Jobs'
    BY <1>1, <2>1, <2>3, JobSet DEF Inv
  <2>5. Disk'
    <3>1. CASE Free(x[1], l)
      <4> DEFINE here == IF IsMetadata(x[1]) THEN Put(held[l], x[1], x[2]) ELSE held[l]
                 mid == [held EXCEPT ![l] = here]
                 there == IF job[p].flag THEN held[src] \ {x} ELSE held[src]
                 new == IF IsMetadata(x[1]) THEN root[l[2]] ELSE Put(root[l[2]], x[1], x[2])
      <4>1. here \in SUBSET (Files \X Ids)
        BY <1>2, PutType DEF Inv, Disk
      <4>2. mid \in [Places -> SUBSET (Files \X Ids)]
        <5> HIDE DEF here
        <5> QED BY <4>1 DEF Inv, Disk
      <4>3. held' = [mid EXCEPT ![src] = there]
        <5>1. PlaceItem(p, x)
          OBVIOUS
        <5>2. held' = [held EXCEPT ![l] = IF IsMetadata(x[1]) THEN Put(@, x[1], x[2]) ELSE @,
                                   ![src] = IF job[p].flag THEN held[src] \ {x} ELSE held[src]]
          BY <5>1, <1>4, <3>1, ZenonT(30) DEF PlaceItem, l, src
        <5> HIDE DEF l, src
        <5> QED BY <5>2
      <4>4. held' \in [Places -> SUBSET (Files \X Ids)]
        <5>1. src \in Places => there \in SUBSET (Files \X Ids)
          BY DEF Inv, Disk
        <5> HIDE DEF mid, there
        <5> QED BY <4>2, <4>3, <5>1
      <4>5. l[2] \in Dirs => new \in SUBSET Items
        BY <1>2, PutRoot DEF Inv, Disk
      <4>6. root' = [root EXCEPT ![l[2]] = new]
        BY <1>4, <3>1 DEF PlaceItem, l, src
      <4>7. root' \in [Dirs -> SUBSET Items]
        <5> HIDE DEF new
        <5> QED BY <4>5, <4>6 DEF Inv, Disk
      <4>8. archived' \subseteq Places /\ made' \subseteq Places
        BY <1>2, <1>4, <3>1 DEF PlaceItem, l, src, Inv, Disk
      <4> QED BY <4>4, <4>7, <4>8 DEF Disk
    <3>2. CASE ~Free(x[1], l)
      BY <1>4, <3>2 DEF PlaceItem, l, src, Inv, Disk
    <3> QED BY <3>1, <3>2
  <2>6. UNCHANGED reg /\ Running
    BY DEF PlaceItem
  <2> QED BY <2>4, <2>5, <2>6 DEF Running, Inv, Counters, Sound, Known
<1> QED BY <1>3, <1>4

LEMMA ContinueInv ==
    ASSUME Inv, NEW p \in Procs, Continue(p)
    PROVE  Inv'
BY LoadSteps, EmptySteps, WriteSteps, MkdirSteps, WriteStateSteps, DestinationSteps, PlaceSteps,
   TakeSteps, RemoveSteps, RemoveFailsSteps, ProduceSteps, SaveSteps DEF Continue

LEMMA KillInv ==
    ASSUME Inv, NEW p \in Procs, Kill(p)
    PROVE  Inv'
<1>1. Jobs'
  BY FinishJobs DEF Kill, Inv
<1>2. kills' \in 0..MaxKills
  BY WorkspacesAssumption DEF Kill, Inv, Counters
<1> QED BY <1>1, <1>2 DEF Kill, Inv, Disk, disk, Counters, Sound, Known

LEMMA InitInv == Init => Inv
<1> SUFFICES ASSUME Init PROVE Inv
  OBVIOUS
<1> DEFINE old == {<<s[1], Project(s[2])>> : s \in Settled}
           all == old \union {<<i, Pool(i)>> : i \in PoolIds}
<1>1. old \subseteq Ids \X Places /\ all \subseteq Ids \X Places
  BY WorkspacesAssumption DEF Ids, Places, ProjectPlaces
<1>2. Disk
  <2>1. made \subseteq Places /\ archived \subseteq Places
    BY <1>1 DEF Init
  <2>2. held \in [Places -> SUBSET (Files \X Ids)]
    <3>1. \A l \in Places :
            (IF l \in ProjectPlaces THEN {"state"} ELSE Files \ {"link"}) \X {w[1] : w \in {v \in all : v[2] = l}}
               \in SUBSET (Files \X Ids)
      <4> HIDE DEF all
      <4> QED BY <1>1, WorkspacesAssumption
    <3> QED BY <3>1 DEF Init
  <2>3. root \in [Dirs -> SUBSET Items]
    <3>1. {<<"code", Users>>} \in SUBSET Items
      BY WorkspacesAssumption DEF Items
    <3> QED BY <3>1 DEF Init
  <2> QED BY <2>1, <2>2, <2>3 DEF Disk
<1>3. Sound(reg)
  <2>1. PICK w \in old : reg = [current |-> w[1], entries |-> old]
    BY DEF Init
  <2> HIDE DEF old
  <2>2. w[1] \in Ids
    BY <1>1
  <2> QED BY <1>1, <2>1, <2>2 DEF Sound, Image, Known
<1>4. Jobs
  BY IdleJob DEF Init, Jobs
<1>5. Counters
  BY WorkspacesAssumption DEF Init, Counters
<1> QED BY <1>2, <1>3, <1>4, <1>5 DEF Inv

LEMMA NextInv == Inv /\ [Next]_vars => Inv'
<1> SUFFICES ASSUME Inv, [Next]_vars PROVE Inv'
  OBVIOUS
<1>1. CASE \E p \in Procs : Command(p) \/ Continue(p) \/ Kill(p)
  BY <1>1, CommandInv, ContinueInv, KillInv
<1>2. CASE UNCHANGED vars
  BY <1>2 DEF vars, disk, Inv, Disk, Counters, Jobs, Sound, Known, Targeted
<1> QED BY <1>1, <1>2 DEF Next, Rest

LEMMA SpecInv == Spec => []Inv
BY InitInv, NextInv, PTL DEF Spec

(***************************************************************************)
(* Types, pointer, user files                                              *)
(***************************************************************************)
\* The variables of the workspace commands keep their types, whatever overlaps and is killed
THEOREM WorkspaceTypes == Spec => []TypeOK
<1>1. Inv => TypeOK
  BY DEF Inv, Disk, Counters, Jobs, Sound, TypeOK
<1> QED BY <1>1, SpecInv, PTL

(* The `current` pointer of registry.json never names a workspace that the registry does not
   have, although commands write whole images over each other's (registry.py:84-135) *)
THEOREM PointerDoesNotDangle == Spec => []CurrentListed
<1>1. Inv => CurrentListed
  BY DEF Inv, Sound, CurrentListed
<1> QED BY <1>1, SpecInv, PTL

LEMMA PutAdds ==
    ASSUME NEW S, NEW f, NEW i, ~HasName(S, f)
    PROVE  S \subseteq Put(S, f, i)
BY DEF Put, HasName

\* Of all steps only the move or copy of one item touches the user's directories
LEMMA RootGrows ==
    ASSUME Inv, [Next]_vars, NEW d \in Dirs
    PROVE  root[d] \subseteq root'[d]
<1>1. CASE UNCHANGED root
  BY <1>1
<1>2. CASE \E p \in Procs : \E x \in job[p].items : PlaceItem(p, x)
  <2>0. PICK p \in Procs : \E x \in job[p].items : PlaceItem(p, x)
    BY <1>2
  <2>1. PICK x \in job[p].items : PlaceItem(p, x)
    BY <2>0
  <2> DEFINE e == TheLoc(p)[2]
             new == IF IsMetadata(x[1]) THEN root[e] ELSE Put(root[e], x[1], x[2])
  <2>2. UNCHANGED root \/ (Free(x[1], TheLoc(p)) /\ root' = [root EXCEPT ![e] = new])
    BY <2>1 DEF PlaceItem, disk
  <2>3. Free(x[1], TheLoc(p)) => root[e] \subseteq new
    BY PutAdds DEF Free
  <2> HIDE DEF new, e
  <2> QED BY <2>2, <2>3 DEF Inv, Disk
<1>3. UNCHANGED root \/ \E p \in Procs : \E x \in job[p].items : PlaceItem(p, x)
  <2>1. ASSUME NEW p \in Procs, Command(p) PROVE UNCHANGED root
    BY <2>1, ZenonT(60) DEF Command, Use, New, Prune, StartInit, StartMigrate, StartCleanup,
                            StartWork, StartFlag, disk
  <2>2. ASSUME NEW p \in Procs, Continue(p)
        PROVE  UNCHANGED root \/ \E x \in job[p].items : PlaceItem(p, x)
    BY <2>2, ZenonT(60) DEF Continue, LoadRegistry, EmptyRegistry, WriteRegistry, MakeMetadataDir,
                            WriteState, MakeDestination, TakeCandidate, RemoveDir, RemoveFails,
                            Produce, SaveState, disk
  <2>3. ASSUME NEW p \in Procs, Kill(p) PROVE UNCHANGED root
    BY <2>3 DEF Kill, disk
  <2> QED BY <2>1, <2>2, <2>3 DEF Next, Rest, vars, disk
<1> QED BY <1>1, <1>2, <1>3

(* No command ever takes a file from a user's directory or writes over one, for any number of
   terminals and kills, in the same place too (lifecycle.py:188-210, 377-433) *)
THEOREM UserCodeIsSafe == Spec => UserCodeSurvives
<1>1. Inv /\ [Next]_vars => [\A d \in Dirs : root[d] \subseteq root'[d]]_vars
  BY RootGrows
<1> QED BY <1>1, SpecInv, PTL DEF Spec, UserCodeSurvives

(***************************************************************************)
(* Places: nobody steps into another one's, and each has one owner         *)
(***************************************************************************)
Parts == PlacesApart /\ OneOwner /\ \A p \in Procs : InPlace(job[p])

Untouched(l) == /\ held'[l] = held[l]
                /\ l \in made' <=> l \in made
                /\ l \in archived' <=> l \in archived

LEMMA PlaceNames ==
    /\ \A l \in ProjectPlaces : \A i : l # Pool(i)
    /\ \A i, k : Pool(i) = Pool(k) => i = k
    /\ \A l \in ProjectPlaces : l[2] \in Dirs /\ l = Project(l[2])
    /\ \A d \in Dirs : Project(d) \in ProjectPlaces
    /\ \A i \in Ids : Pool(i) \in Places
    /\ ProjectPlaces \subseteq Places
BY DEF ProjectPlaces, Places, Project, Pool

LEMMA JobPlaces ==
    ASSUME Jobs, NEW p \in Procs
    PROVE  PlacesOf(job[p]) \subseteq Places
BY DEF Jobs, Job, PlacesOf

LEMMA TheLocIs ==
    ASSUME NEW p \in Procs, NEW l, job[p].loc = {l}
    PROVE  TheLoc(p) = l
BY DEF TheLoc

LEMMA IdlePlaces == PlacesOf(Idle) = {}
BY DEF PlacesOf, Idle

LEMMA IdleInPlace == ASSUME NoId \notin Ids PROVE InPlace(Idle)
BY IdlePlaces DEF InPlace, Idle

\* What a step does not touch stays as another command has left it.
LEMMA OtherInPlace ==
    ASSUME NEW q \in Procs, InPlace(job[q]), job'[q] = job[q], PlacesOf(job[q]) \subseteq Places,
           \A l \in PlacesOf(job[q]) : Untouched(l), minted \subseteq minted'
    PROVE  InPlace(job[q])'
<1>1. \A i : Minted(i) => Minted(i)'
  BY DEF Minted
<1>2. \A l : l \in job[q].loc => Untouched(l)
  BY DEF PlacesOf
<1>3. \A c \in job[q].picked : Untouched(c[2])
  BY DEF PlacesOf
<1>4. PlacesOf(job[q])' = PlacesOf(job[q])
  BY DEF PlacesOf
<1>5. \A l \in job[q].loc : \A i : OwnedBy(i, l) => OwnedBy(i, l)'
  BY <1>2 DEF OwnedBy, Untouched
<1>6. /\ job[q].op \in {"init", "migrate", "flag", "work"} =>
            \E l \in Places : /\ job[q].loc = {l} /\ OwnedBy(job[q].id, l)'
                              /\ \A i \in Ids : l = Pool(i) => i = job[q].id
  BY <1>5 DEF InPlace
<1>7. /\ job[q].op \in {"init", "migrate"} /\ job[q].at = "mkdir" => job[q].loc \intersect made' = {}
      /\ job[q].op \in {"init", "migrate"} /\ job[q].at # "mkdir" => job[q].loc \subseteq made'
  BY <1>2 DEF InPlace, Untouched
<1>8. /\ job[q].op = "cleanup" => \A c \in job[q].picked : job[q].flag \/ c[2] \in archived' \/ c[2] \notin made'
      /\ job[q].op = "cleanup" /\ job[q].at = "remove" =>
            \E l \in Places : job[q].loc = {l} /\ (job[q].flag \/ l \in archived')
  BY <1>2, <1>3 DEF InPlace, Untouched
<1>. QED BY <1>1, <1>4, <1>6, <1>7, <1>8 DEF InPlace, OwnedBy

\* A step of command p alone.
LEMMA StepParts ==
    ASSUME Inv, Parts, NEW p \in Procs, \A q \in Procs : q # p => job'[q] = job[q],
           \A l \in Places : l \notin PlacesOf(job[p]) => Untouched(l),
           PlacesOf(job[p])' \subseteq PlacesOf(job[p]),
           minted' = minted, OneOwner', InPlace(job[p])'
    PROVE  Parts'
<1>1. ASSUME NEW q \in Procs, q # p PROVE /\ InPlace(job[q])' /\ PlacesOf(job[q])' = PlacesOf(job[q])
  <2>1. PlacesOf(job[q]) \subseteq Places /\ PlacesOf(job[q]) \intersect PlacesOf(job[p]) = {}
    BY <1>1, JobPlaces DEF Inv, Parts, PlacesApart
  <2>2. \A l \in PlacesOf(job[q]) : Untouched(l)
    BY <2>1
  <2>3. InPlace(job[q])'
    BY <1>1, <2>1, <2>2, OtherInPlace DEF Parts
  <2>. QED BY <1>1, <2>3 DEF PlacesOf
<1>2. PlacesApart'
  BY <1>1 DEF Parts, PlacesApart
<1>. QED BY <1>1, <1>2 DEF Parts

\* Command p goes on without a change of the files.
LEMMA QuietParts ==
    ASSUME Inv, Parts, NEW p \in Procs, UNCHANGED <<made, held, archived, minted>>,
           NEW j, job' = [job EXCEPT ![p] = j],
           \/ j = Idle
           \/ /\ j.op = job[p].op /\ j.id = job[p].id /\ j.loc = job[p].loc /\ j.from = job[p].from
              /\ j.items = job[p].items /\ j.picked = job[p].picked /\ j.flag = job[p].flag
              /\ j.at \notin {"mkdir", "remove"} /\ job[p].at # "mkdir"
    PROVE  Parts'
<1>1. job'[p] = j /\ \A q \in Procs : q # p => job'[q] = job[q]
  BY DEF Inv, Jobs
<1>2. PlacesOf(job[p])' \subseteq PlacesOf(job[p])
  BY <1>1, IdlePlaces DEF PlacesOf
<1>3. OneOwner'
  BY DEF Parts, OneOwner, OwnedBy, Minted
<1>4. InPlace(job[p])'
  <2>1. CASE j = Idle
    BY <1>1, <2>1, WorkspacesAssumption DEF InPlace, Idle, PlacesOf
  <2>2. CASE j # Idle
    <3>1. /\ j.op = job[p].op /\ j.id = job[p].id /\ j.loc = job[p].loc /\ j.from = job[p].from
          /\ j.items = job[p].items /\ j.picked = job[p].picked /\ j.flag = job[p].flag
          /\ j.at \notin {"mkdir", "remove"} /\ job[p].at # "mkdir"
      BY <2>2
    <3>2. InPlace(job[p])
      BY DEF Parts
    <3>. QED BY <1>1, <3>1, <3>2 DEF InPlace, PlacesOf, Minted, OwnedBy
  <2>. QED BY <2>1, <2>2
<1>. QED BY <1>1, <1>2, <1>3, <1>4, StepParts DEF Untouched

LEMMA PutKeeps ==
    ASSUME NEW S \in SUBSET (Files \X Ids), NEW f, NEW i, \A x \in S : x[2] = i
    PROVE  S \subseteq Put(S, f, i) /\ \A x \in Put(S, f, i) : x[2] = i
<1>1. \A x \in S : x = <<x[1], x[2]>>
  OBVIOUS
<1>. QED BY <1>1 DEF Put

\* A step that changes the files of one place, and leaves them to their owner.
LEMMA OwnerStays ==
    ASSUME Inv, OneOwner, NEW l \in Places, NEW i \in Ids, Minted(i), minted' = minted,
           NEW S, held' = [held EXCEPT ![l] = S], \A x \in S : x[2] = i,
           \A k \in Ids : l = Pool(k) => k = i,
           \A k \in Places : k \notin made' => held'[k] = {}
    PROVE  OneOwner'
<1>1. held'[l] = S /\ \A k \in Places : k # l => held'[k] = held[k]
  BY DEF Inv, Disk
<1>2. \A k \in Places : \A x, y \in held'[k] : x[2] = y[2]
  BY <1>1 DEF OneOwner
<1>3. ASSUME NEW k \in Ids, NEW x \in held'[Pool(k)] PROVE x[2] = k
  <2>1. CASE Pool(k) = l
    BY <1>1, <1>3, <2>1
  <2>2. CASE Pool(k) # l
    BY <1>1, <1>3, <2>2, PlaceNames DEF OneOwner, OwnedBy
  <2>. QED BY <2>1, <2>2
<1>4. \A k \in Places : \A x \in held'[k] : Minted(x[2])'
  BY <1>1 DEF OneOwner, Minted
<1>. QED BY <1>2, <1>3, <1>4 DEF OneOwner, OwnedBy

\* What a command that writes under its own id finds in its place.
LEMMA OwnPlace ==
    ASSUME Inv, Parts, NEW p \in Procs, job[p].op \in {"init", "migrate", "flag", "work"}
    PROVE  /\ TheLoc(p) \in Places /\ job[p].loc = {TheLoc(p)} /\ TheLoc(p) \in PlacesOf(job[p])
           /\ job[p].id \in Ids /\ Minted(job[p].id)
           /\ \A x \in held[TheLoc(p)] : x[2] = job[p].id
           /\ \A k \in Ids : TheLoc(p) = Pool(k) => k = job[p].id
<1>1. InPlace(job[p])
  BY DEF Parts
<1>2. PICK l \in Places : /\ job[p].loc = {l} /\ OwnedBy(job[p].id, l)
                          /\ \A i \in Ids : l = Pool(i) => i = job[p].id
  BY <1>1 DEF InPlace
<1>3. TheLoc(p) = l
  BY <1>2, TheLocIs
<1>4. job[p].id \in Ids
  BY DEF Inv, Jobs, Targeted
<1>. QED BY <1>1, <1>2, <1>3, <1>4 DEF InPlace, OwnedBy, PlacesOf

\* A command writes one file of its own workspace.
LEMMA PutParts ==
    ASSUME Inv, Parts, NEW p \in Procs, job[p].op \in {"init", "flag", "work"}, NEW f \in Files,
           held' = [held EXCEPT ![TheLoc(p)] = Put(@, f, job[p].id)] \/ held' = held,
           made' = made \union job[p].loc, minted' = minted,
           \A l \in Places : l \notin job[p].loc => (l \in archived' <=> l \in archived),
           NEW j, job' = [job EXCEPT ![p] = j],
           \/ j = Idle
           \/ /\ j.op = job[p].op /\ j.id = job[p].id /\ j.loc = job[p].loc /\ j.from = job[p].from
              /\ j.items = job[p].items /\ j.picked = job[p].picked /\ j.flag = job[p].flag
              /\ j.at \notin {"mkdir", "remove"}
    PROVE  /\ Parts' /\ \A l \in Places : held[l] \subseteq held'[l]
<1>1. PICK l \in Places, i \in Ids :
          /\ l = TheLoc(p) /\ i = job[p].id
          /\ job[p].loc = {l} /\ l \in PlacesOf(job[p]) /\ Minted(i)
          /\ (\A x \in held[l] : x[2] = i) /\ \A k \in Ids : l = Pool(k) => k = i
  BY OwnPlace
<1>2. held[l] \in SUBSET (Files \X Ids)
  BY <1>1 DEF Inv, Disk
<1>3. held[l] \subseteq Put(held[l], f, i) /\ \A x \in Put(held[l], f, i) : x[2] = i
  BY <1>1, <1>2, PutKeeps
<1>4. PICK S : S = IF held' = held THEN held[l] ELSE Put(held[l], f, i)
  OBVIOUS
<1>5. held' = [held EXCEPT ![l] = S] /\ held[l] \subseteq S /\ \A x \in S : x[2] = i
  BY <1>1, <1>3, <1>4 DEF Inv, Disk
<1>6. held'[l] = S /\ \A k \in Places : k # l => held'[k] = held[k]
  BY <1>1, <1>5 DEF Inv, Disk
<1>7. \A k \in Places : k \notin made' => held'[k] = {}
  BY <1>1, <1>6 DEF Parts, OneOwner
<1>8. OneOwner'
  <2>1. OneOwner
    BY DEF Parts
  <2>2. l \in Places /\ i \in Ids /\ Minted(i) /\ \A k \in Ids : l = Pool(k) => k = i
    BY <1>1
  <2>3. held' = [held EXCEPT ![l] = S] /\ \A x \in S : x[2] = i
    BY <1>5
  <2>. QED BY <1>7, <2>1, <2>2, <2>3, OwnerStays
<1>9. job'[p] = j /\ \A q \in Procs : q # p => job'[q] = job[q]
  BY DEF Inv, Jobs
<1>10. PlacesOf(job[p])' \subseteq PlacesOf(job[p])
  BY <1>9, IdlePlaces DEF PlacesOf
<1>11. \A k \in Places : k \notin PlacesOf(job[p]) => Untouched(k)
  BY <1>1, <1>6 DEF Untouched
<1>12. InPlace(job[p])'
  <2>1. CASE j = Idle
    BY <1>9, <2>1, WorkspacesAssumption DEF InPlace, Idle, PlacesOf
  <2>2. CASE j # Idle
    <3>1. /\ j.op = job[p].op /\ j.id = job[p].id /\ j.loc = job[p].loc /\ j.from = job[p].from
          /\ j.items = job[p].items /\ j.picked = job[p].picked /\ j.flag = job[p].flag
          /\ j.at \notin {"mkdir", "remove"}
      BY <2>2
    <3>2. OwnedBy(j.id, l)'
      BY <1>1, <1>5, <1>6, <3>1 DEF OwnedBy
    <3>3. InPlace(job[p])
      BY DEF Parts
    <3>4. PlacesOf(job[p])' = PlacesOf(job[p]) /\ \A k : Minted(k)' <=> Minted(k)
      BY <1>9, <3>1 DEF PlacesOf, Minted
    <3>5. \E k \in Places : /\ j.loc = {k} /\ OwnedBy(j.id, k)'
                            /\ \A m \in Ids : k = Pool(m) => m = j.id
      BY <1>1, <3>1, <3>2
    <3>. QED BY <1>9, <3>1, <3>3, <3>4, <3>5 DEF InPlace, OwnedBy
  <2>. QED BY <2>1, <2>2
<1>13. Parts'
  BY <1>8, <1>9, <1>10, <1>11, <1>12, StepParts
<1>. QED BY <1>5, <1>6, <1>13

(***************************************************************************)
(* The steps of a command under way                                        *)
(***************************************************************************)
LEMMA RegistryParts ==
    ASSUME Inv, Parts, NEW p \in Procs,
           LoadRegistry(p) \/ EmptyRegistry(p) \/ WriteRegistry(p) \/ Kill(p)
    PROVE  Parts' /\ held' = held
<1>1. UNCHANGED <<made, held, archived, minted>>
  BY DEF LoadRegistry, EmptyRegistry, WriteRegistry, Kill, Running, disk
<1>2. job[p] \in Job
  BY DEF Inv, Jobs
<1>3. CASE job' = [job EXCEPT ![p] = Idle]
  BY <1>1, <1>3, QuietParts
<1>4. CASE LoadRegistry(p)
  <2>1. PICK j : j = [job[p] EXCEPT !.at = "empty", !.img = Changed(p, reg)]
    OBVIOUS
  <2>2. job' = [job EXCEPT ![p] = j] /\ job[p].at = "load"
    BY <1>4, <2>1 DEF LoadRegistry, Inv, Jobs
  <2>3. /\ j.op = job[p].op /\ j.id = job[p].id /\ j.loc = job[p].loc /\ j.from = job[p].from
        /\ j.items = job[p].items /\ j.picked = job[p].picked /\ j.flag = job[p].flag /\ j.at = "empty"
    BY <1>2, <2>1 DEF Job
  <2>. QED BY <1>1, <2>2, <2>3, QuietParts
<1>5. CASE EmptyRegistry(p)
  <2>1. PICK j : j = [job[p] EXCEPT !.at = "write"]
    OBVIOUS
  <2>2. job' = [job EXCEPT ![p] = j] /\ job[p].at = "empty"
    BY <1>5, <2>1 DEF EmptyRegistry, Go, Inv, Jobs
  <2>3. /\ j.op = job[p].op /\ j.id = job[p].id /\ j.loc = job[p].loc /\ j.from = job[p].from
        /\ j.items = job[p].items /\ j.picked = job[p].picked /\ j.flag = job[p].flag /\ j.at = "write"
    BY <1>2, <2>1 DEF Job
  <2>. QED BY <1>1, <2>2, <2>3, QuietParts
<1>6. CASE WriteRegistry(p) /\ ~Finish(p)
  <2>1. PICK j : j = [job[p] EXCEPT !.at = "next", !.img = NoImage]
    OBVIOUS
  <2>2. job' = [job EXCEPT ![p] = j] /\ job[p].at = "write"
    BY <1>6, <2>1 DEF WriteRegistry, Inv, Jobs
  <2>3. /\ j.op = job[p].op /\ j.id = job[p].id /\ j.loc = job[p].loc /\ j.from = job[p].from
        /\ j.items = job[p].items /\ j.picked = job[p].picked /\ j.flag = job[p].flag /\ j.at = "next"
    BY <1>2, <2>1 DEF Job
  <2>. QED BY <1>1, <2>2, <2>3, QuietParts
<1>. QED BY <1>1, <1>3, <1>4, <1>5, <1>6 DEF Kill, Finish

LEMMA FileParts ==
    ASSUME Inv, Parts, NEW p \in Procs,
           MakeMetadataDir(p) \/ WriteState(p) \/ (\E f \in Files : Produce(p, f)) \/ SaveState(p)
    PROVE  Parts' /\ \A l \in Places : held[l] \subseteq held'[l]
<1>1. job[p] \in Job /\ Targeted(job[p]) /\ "state" \in Files /\ "docs" \in Files
  BY WorkspacesAssumption DEF Inv, Jobs
<1>2. job[p].op \in {"init", "flag", "work"} /\ made' = made \union job[p].loc /\ minted' = minted
  BY <1>1 DEF MakeMetadataDir, WriteState, Produce, SaveState, Step, Running, Targeted
<1>3. /\ job[p].loc = {TheLoc(p)}
      /\ \A l \in Places : l \notin job[p].loc => (l \in archived' <=> l \in archived)
  BY <1>2, OwnPlace DEF MakeMetadataDir, WriteState, Produce, SaveState
<1>4. \E f \in Files : held' = [held EXCEPT ![TheLoc(p)] = Put(@, f, job[p].id)] \/ held' = held
  BY <1>1 DEF MakeMetadataDir, WriteState, Produce, SaveState
<1>5. CASE SaveState(p)
  BY <1>2, <1>3, <1>4, <1>5, PutParts DEF SaveState, Finish
<1>6. CASE ~SaveState(p)
  <2>1. PICK at \in {"state", "load", "save"} : Go(p, at)
    BY <1>6 DEF MakeMetadataDir, WriteState, Produce
  <2>2. PICK j : j = [job[p] EXCEPT !.at = at]
    OBVIOUS
  <2>3. job' = [job EXCEPT ![p] = j]
    BY <2>1, <2>2 DEF Go, Inv, Jobs
  <2>4. /\ j.op = job[p].op /\ j.id = job[p].id /\ j.loc = job[p].loc /\ j.from = job[p].from
        /\ j.items = job[p].items /\ j.picked = job[p].picked /\ j.flag = job[p].flag
        /\ j.at \notin {"mkdir", "remove"}
    BY <1>1, <2>2 DEF Job
  <2>. QED BY <1>2, <1>3, <1>4, <2>3, <2>4, PutParts
<1>. QED BY <1>5, <1>6

LEMMA DestinationParts ==
    ASSUME Inv, Parts, NEW p \in Procs, MakeDestination(p)
    PROVE  Parts' /\ held' = held
<1>1. /\ job[p] \in Job /\ job[p].op = "migrate" /\ job[p].at = "mkdir" /\ InPlace(job[p])
      /\ UNCHANGED <<held, archived, minted>> /\ made' = made \union job[p].loc
  BY DEF MakeDestination, Step, Running, Inv, Jobs, Parts
<1>2. /\ job[p].loc = {TheLoc(p)} /\ TheLoc(p) \in Places /\ TheLoc(p) \in PlacesOf(job[p])
      /\ job[p].loc \subseteq ProjectPlaces /\ job[p].loc \intersect made = {} /\ job[p].id \in Ids
  BY <1>1, OwnPlace DEF InPlace
<1>3. PICK j : job' = [job EXCEPT ![p] = j] /\
        \/ j = Idle
        \/ /\ j.op = job[p].op /\ j.id = job[p].id /\ j.loc = job[p].loc /\ j.from = job[p].from
           /\ j.picked = job[p].picked /\ j.flag = job[p].flag
           /\ j.items = held[Pool(job[p].id)] /\ j.at \in {"load", "place"}
  <2>1. CASE Finish(p)
    BY <2>1 DEF Finish
  <2>2. CASE ~Finish(p)
    <3>1. PICK items : items = held[Pool(job[p].id)]
      OBVIOUS
    <3>2. PICK at \in {"load", "place"} : at = IF items = {} THEN "load" ELSE "place"
      OBVIOUS
    <3>3. PICK j : j = [job[p] EXCEPT !.at = at, !.items = items]
      OBVIOUS
    <3>4. job' = [job EXCEPT ![p] = j]
      BY <2>2, <3>1, <3>2, <3>3 DEF MakeDestination, Inv, Jobs
    <3>5. /\ j.op = job[p].op /\ j.id = job[p].id /\ j.loc = job[p].loc /\ j.from = job[p].from
          /\ j.picked = job[p].picked /\ j.flag = job[p].flag
          /\ j.items = items /\ j.at \in {"load", "place"}
      BY <1>1, <3>3 DEF Job
    <3>. QED BY <3>1, <3>4, <3>5
  <2>. QED BY <2>1, <2>2
<1>4. job'[p] = j /\ \A q \in Procs : q # p => job'[q] = job[q]
  BY <1>3 DEF Inv, Jobs
<1>5. PlacesOf(job[p])' \subseteq PlacesOf(job[p])
  BY <1>3, <1>4, IdlePlaces DEF PlacesOf
<1>6. OneOwner'
  BY <1>1 DEF Parts, OneOwner, OwnedBy, Minted
<1>7. InPlace(job[p])'
  <2>1. CASE j = Idle
    BY <1>4, <2>1, WorkspacesAssumption DEF InPlace, Idle, PlacesOf
  <2>2. CASE j # Idle
    <3>1. /\ j.op = job[p].op /\ j.id = job[p].id /\ j.loc = job[p].loc /\ j.from = job[p].from
          /\ j.picked = job[p].picked /\ j.flag = job[p].flag
          /\ j.items = held[Pool(job[p].id)] /\ j.at \in {"load", "place"}
      BY <1>3, <2>2
    <3>2. \A x \in j.items : x[2] = j.id
      BY <1>2, <3>1 DEF Parts, OneOwner, OwnedBy
    <3>3. PlacesOf(job[p])' = PlacesOf(job[p]) /\ \A k : Minted(k)' <=> Minted(k)
      BY <1>1, <1>4, <3>1 DEF PlacesOf, Minted
    <3>. QED BY <1>1, <1>4, <3>1, <3>2, <3>3 DEF InPlace, OwnedBy
  <2>. QED BY <2>1, <2>2
<1>8. \A l \in Places : l \notin PlacesOf(job[p]) => Untouched(l)
  BY <1>1, <1>2 DEF Untouched
<1>. QED BY <1>1, <1>4, <1>5, <1>6, <1>7, <1>8, StepParts

LEMMA TakeParts ==
    ASSUME Inv, Parts, NEW p \in Procs, NEW c \in job[p].picked, TakeCandidate(p, c)
    PROVE  Parts' /\ held' = held
<1>1. /\ job[p] \in Job /\ job[p].op = "cleanup" /\ job[p].at = "next" /\ InPlace(job[p])
      /\ UNCHANGED <<made, held, archived, minted>>
  BY DEF TakeCandidate, Step, Running, disk, Inv, Jobs, Parts
<1>2. c[1] \in Ids /\ c[2] \in Places /\ c \in Ids \X Places
  BY <1>1 DEF Job
<1>3. PICK at \in {"remove", "load"} : at = IF c[2] \in made THEN "remove" ELSE "load"
  OBVIOUS
<1>4. PICK j : j = [job[p] EXCEPT !.picked = @ \ {c}, !.id = c[1], !.loc = {c[2]}, !.at = at]
  OBVIOUS
<1>5. job' = [job EXCEPT ![p] = j]
  BY <1>3, <1>4 DEF TakeCandidate, Inv, Jobs
<1>6. /\ j.op = job[p].op /\ j.id = c[1] /\ j.loc = {c[2]} /\ j.from = job[p].from
      /\ j.items = job[p].items /\ j.picked = job[p].picked \ {c} /\ j.flag = job[p].flag /\ j.at = at
  BY <1>1, <1>4 DEF Job
<1>7. job'[p] = j /\ \A q \in Procs : q # p => job'[q] = job[q]
  BY <1>5 DEF Inv, Jobs
<1>8. PlacesOf(job[p])' \subseteq PlacesOf(job[p])
  BY <1>6, <1>7 DEF PlacesOf
<1>9. OneOwner'
  BY <1>1 DEF Parts, OneOwner, OwnedBy, Minted
<1>10. InPlace(job[p])'
  <2>1. at = "remove" => j.flag \/ c[2] \in archived
    BY <1>1, <1>3, <1>6 DEF InPlace
  <2>2. \A i \in Ids : Pool(i) \in PlacesOf(job[p])' => Minted(i)
    BY <1>1, <1>8 DEF InPlace
  <2>3. \A d \in j.picked : j.flag \/ d[2] \in archived \/ d[2] \notin made
    BY <1>1, <1>6 DEF InPlace
  <2>. QED BY <1>1, <1>2, <1>6, <1>7, <2>1, <2>2, <2>3 DEF InPlace, Minted
<1>11. \A l \in Places : l \notin PlacesOf(job[p]) => Untouched(l)
  BY <1>1 DEF Untouched
<1>. QED BY <1>1, <1>7, <1>8, <1>9, <1>10, <1>11, StepParts

LEMMA RemoveParts ==
    ASSUME Inv, Parts, NEW p \in Procs,
           RemoveDir(p) \/ \E l \in job[p].loc : \E rest \in SUBSET held[l] : RemoveFails(p, rest)
    PROVE  Parts' /\ MayRemove(p)
<1>1. job[p] \in Job /\ Step(p, "cleanup", "remove") /\ InPlace(job[p])
  BY DEF RemoveDir, RemoveFails, Inv, Jobs, Parts
<1>2. PICK l \in Places : job[p].loc = {l} /\ (job[p].flag \/ l \in archived)
  BY <1>1 DEF InPlace, Step
<1>3. TheLoc(p) = l /\ l \in PlacesOf(job[p])
  BY <1>2, TheLocIs DEF PlacesOf
<1>4. MayRemove(p)
  BY <1>1, <1>2, <1>3 DEF MayRemove
<1>5. PICK S \in SUBSET held[l] :
          /\ held' = [held EXCEPT ![l] = S] /\ minted' = minted
          /\ \/ made' = made /\ archived' = archived
             \/ made' = made \ {l} /\ archived' = archived \ {l} /\ S = {}
  BY <1>2, <1>3 DEF RemoveDir, RemoveFails, Running
<1>6. held'[l] = S /\ \A k \in Places : k # l => held'[k] = held[k]
  BY <1>5 DEF Inv, Disk
<1>7. OneOwner'
  <2>1. \A k \in Places : held'[k] \subseteq held[k]
    BY <1>5, <1>6
  <2>2. \A k \in Places : k \notin made' => held'[k] = {}
    BY <1>5, <1>6 DEF Parts, OneOwner
  <2>3. \A i \in Ids : \A x \in held'[Pool(i)] : x[2] = i
    BY <2>1, PlaceNames DEF Parts, OneOwner, OwnedBy
  <2>. QED BY <1>5, <2>1, <2>2, <2>3 DEF Parts, OneOwner, OwnedBy, Minted
<1>8. PICK j : job' = [job EXCEPT ![p] = j] /\
        \/ j = Idle
        \/ /\ j.op = job[p].op /\ j.id = job[p].id /\ j.loc = job[p].loc /\ j.from = job[p].from
           /\ j.items = job[p].items /\ j.picked = job[p].picked /\ j.flag = job[p].flag
           /\ j.at \in {"load", "next"}
  <2>1. CASE Finish(p)
    BY <2>1 DEF Finish
  <2>2. CASE ~Finish(p)
    <3>1. PICK at \in {"load", "next"} : Go(p, at)
      BY <2>2 DEF RemoveDir, RemoveFails
    <3>2. PICK j : j = [job[p] EXCEPT !.at = at]
      OBVIOUS
    <3>3. job' = [job EXCEPT ![p] = j]
      BY <3>1, <3>2 DEF Go, Inv, Jobs
    <3>4. /\ j.op = job[p].op /\ j.id = job[p].id /\ j.loc = job[p].loc /\ j.from = job[p].from
          /\ j.items = job[p].items /\ j.picked = job[p].picked /\ j.flag = job[p].flag
          /\ j.at \in {"load", "next"}
      BY <1>1, <3>2 DEF Job
    <3>. QED BY <3>3, <3>4
  <2>. QED BY <2>1, <2>2
<1>9. job'[p] = j /\ \A q \in Procs : q # p => job'[q] = job[q]
  BY <1>8 DEF Inv, Jobs
<1>10. PlacesOf(job[p])' \subseteq PlacesOf(job[p])
  BY <1>8, <1>9, IdlePlaces DEF PlacesOf
<1>11. \A k \in Places : k \notin PlacesOf(job[p]) => Untouched(k)
  BY <1>3, <1>5, <1>6 DEF Untouched
<1>12. InPlace(job[p])'
  <2>1. CASE j = Idle
    BY <1>9, <2>1, WorkspacesAssumption DEF InPlace, Idle, PlacesOf
  <2>2. CASE j # Idle
    <3>1. /\ j.op = "cleanup" /\ j.picked = job[p].picked /\ j.flag = job[p].flag
          /\ j.at \in {"load", "next"}
      BY <1>1, <1>8, <2>2 DEF Step
    <3>2. \A i \in Ids : Pool(i) \in PlacesOf(job[p])' => Minted(i)
      BY <1>1, <1>10 DEF InPlace
    <3>3. \A d \in j.picked : j.flag \/ d[2] \in archived' \/ d[2] \notin made'
      BY <1>1, <1>5, <3>1 DEF InPlace, Step
    <3>. QED BY <1>5, <1>9, <3>1, <3>2, <3>3 DEF InPlace, Minted
  <2>. QED BY <2>1, <2>2
<1>. QED BY <1>4, <1>5, <1>7, <1>9, <1>10, <1>11, <1>12, StepParts

Kept == \A x \in Items : KeptBy(x, held, root) => KeptBy(x, held', root')

LEMMA PlaceItemParts ==
    ASSUME Inv, Parts, NEW p \in Procs, NEW x \in job[p].items, PlaceItem(p, x)
    PROVE  Parts' /\ Kept
<1>1. /\ job[p] \in Job /\ job[p].op = "migrate" /\ job[p].at = "place" /\ InPlace(job[p])
      /\ UNCHANGED <<made, minted>>
  BY DEF PlaceItem, Step, Running, disk, Inv, Jobs, Parts
<1>2. PICK l \in Places, i \in Ids :
          /\ l = TheLoc(p) /\ i = job[p].id
          /\ job[p].loc = {l} /\ l \in PlacesOf(job[p]) /\ Minted(i)
          /\ \A y \in held[l] : y[2] = i
          /\ \A k \in Ids : l = Pool(k) => k = i
  BY <1>1, OwnPlace
<1>3. PICK src \in Places : src = Pool(i) /\ job[p].from = {src} /\ src \in PlacesOf(job[p])
  BY <1>1, <1>2, PlaceNames DEF InPlace, PlacesOf
<1>4. l \in ProjectPlaces /\ l \in made /\ l # src /\ x[2] = i /\ x \in Files \X Ids /\ l[2] \in Dirs
  BY <1>1, <1>2, <1>3, PlaceNames, ItemType DEF InPlace
<1>5. x = <<x[1], x[2]>> /\ x[1] \in Files
  BY <1>4
<1>6. CASE x \notin held[src]
  <2>1. job' = [job EXCEPT ![p] = Idle] /\ UNCHANGED <<made, held, root, archived, minted>>
    BY <1>1, <1>2, <1>3, <1>6 DEF PlaceItem, Finish, disk
  <2>. QED BY <2>1, QuietParts DEF Kept, KeptBy
<1>7. CASE x \in held[src]
  <2>1. PICK j : j = [job[p] EXCEPT !.items = @ \ {x}, !.at = IF job[p].items = {x} THEN "load" ELSE "place"]
    OBVIOUS
  <2>2. job' = [job EXCEPT ![p] = j]
    BY <1>2, <1>3, <1>7, <2>1 DEF PlaceItem, Inv, Jobs
  <2>3. /\ j.op = "migrate" /\ j.id = i /\ j.loc = {l} /\ j.from = {src} /\ j.picked = job[p].picked
        /\ j.flag = job[p].flag /\ j.items \subseteq job[p].items /\ j.at \in {"load", "place"}
    BY <1>1, <1>2, <1>3, <2>1 DEF Job
  <2>4. job'[p] = j /\ \A q \in Procs : q # p => job'[q] = job[q]
    BY <2>2 DEF Inv, Jobs
  <2>5. PlacesOf(job[p])' = PlacesOf(job[p])
    BY <1>2, <1>3, <2>3, <2>4 DEF PlacesOf
  <2>6. PICK S, T :
            /\ held'[l] = S /\ held'[src] = T /\ \A k \in Places : k # l /\ k # src => held'[k] = held[k]
            /\ held[l] \subseteq S /\ (\A y \in S : y[2] = i) /\ T \subseteq held[src]
            /\ (\A y \in held[src] : y \in T \/ y \in S \/ y \in root'[l[2]])
            /\ \A k \in Places : k # l /\ k # src => (k \in archived' <=> k \in archived)
    <3>1. CASE Free(x[1], l)
      <4>1. PICK S, T : /\ S = IF IsMetadata(x[1]) THEN Put(held[l], x[1], x[2]) ELSE held[l]
                        /\ T = IF job[p].flag THEN held[src] \ {x} ELSE held[src]
        OBVIOUS
      <4>2. held' = [held EXCEPT ![l] = IF IsMetadata(x[1]) THEN Put(@, x[1], x[2]) ELSE @,
                                 ![src] = IF job[p].flag THEN held[src] \ {x} ELSE held[src]]
        <5>1. PlaceItem(p, x) /\ l = TheLoc(p) /\ src = Pool(job[p].id)
          BY <1>2, <1>3
        <5>. QED BY <5>1, <1>7, <3>1, ZenonT(30) DEF PlaceItem
      <4>3. held'[l] = S /\ held'[src] = T /\ \A k \in Places : k # l /\ k # src => held'[k] = held[k]
        BY <1>4, <4>1, <4>2 DEF Inv, Disk
      <4>4. held[l] \in SUBSET (Files \X Ids)
        BY DEF Inv, Disk
      <4>5. held[l] \subseteq Put(held[l], x[1], x[2]) /\ \A y \in Put(held[l], x[1], x[2]) : y[2] = i
        BY <1>2, <1>4, <4>4, PutKeeps
      <4>6. held[l] \subseteq S /\ (\A y \in S : y[2] = i) /\ T \subseteq held[src]
        BY <1>2, <4>1, <4>5
      <4>7. x \in S \/ x \in root'[l[2]]
        <5>1. CASE IsMetadata(x[1])
          BY <1>5, <4>1, <5>1 DEF Put
        <5>2. CASE ~IsMetadata(x[1])
          <6>1. root' = [root EXCEPT ![l[2]] = Put(@, x[1], x[2])]
            BY <1>2, <1>3, <1>7, <3>1, <5>2 DEF PlaceItem
          <6>2. root'[l[2]] = Put(root[l[2]], x[1], x[2])
            BY <1>4, <6>1 DEF Inv, Disk
          <6>. QED BY <1>5, <6>2 DEF Put
        <5>. QED BY <5>1, <5>2
      <4>8. \A k \in Places : k # l /\ k # src => (k \in archived' <=> k \in archived)
        BY <1>2, <1>3, <1>7, <3>1 DEF PlaceItem
      <4>9. \A y \in held[src] : y \in T \/ y = x
        BY <4>1
      <4>. QED BY <4>3, <4>6, <4>7, <4>8, <4>9
    <3>2. CASE ~Free(x[1], l)
      <4>1. UNCHANGED <<held, archived>>
        BY <1>2, <1>3, <1>7, <3>2 DEF PlaceItem
      <4>. QED BY <1>2, <4>1
    <3>. QED BY <3>1, <3>2
  <2>7. OneOwner'
    <3>1. \A k \in Places : k # l => held'[k] \subseteq held[k]
      BY <2>6
    <3>2. \A k \in Places : \A y, z \in held'[k] : y[2] = z[2]
      BY <2>6, <3>1 DEF Parts, OneOwner
    <3>3. \A k \in Ids : \A y \in held'[Pool(k)] : y[2] = k
      BY <1>4, <3>1, PlaceNames DEF Parts, OneOwner, OwnedBy
    <3>4. \A k \in Places : k \notin made' => held'[k] = {}
      BY <1>1, <1>4, <3>1 DEF Parts, OneOwner
    <3>5. \A k \in Places : \A y \in held'[k] : Minted(y[2])
      BY <1>2, <2>6, <3>1 DEF Parts, OneOwner
    <3>. QED BY <1>1, <3>2, <3>3, <3>4, <3>5 DEF OneOwner, OwnedBy, Minted
  <2>8. InPlace(job[p])'
    <3>1. \A k \in Ids : Pool(k) \in PlacesOf(job[p])' => Minted(k)
      BY <1>1, <2>5 DEF InPlace
    <3>2. OwnedBy(i, l)'
      BY <2>6 DEF OwnedBy
    <3>3. \A y \in j.items : y[2] = i
      BY <1>1, <1>2, <2>3 DEF InPlace
    <3>4. \A k \in Ids : l = Pool(k) => k = i
      BY <1>2
    <3>. QED BY <1>1, <1>2, <1>3, <1>4, <2>3, <2>4, <3>1, <3>2, <3>3, <3>4 DEF InPlace, OwnedBy, Minted
  <2>9. \A k \in Places : k \notin PlacesOf(job[p]) => Untouched(k)
    BY <1>1, <1>2, <1>3, <2>6 DEF Untouched
  <2>10. Parts'
    BY <1>1, <2>4, <2>5, <2>7, <2>8, <2>9, StepParts
  <2>11. ASSUME NEW y \in Items, KeptBy(y, held, root) PROVE KeptBy(y, held', root')
    <3>1. CASE \E d \in Dirs : y \in root[d]
      <4>1. [Next]_vars
        BY DEF Next, Continue
      <4>. QED BY <3>1, <4>1, RootGrows DEF KeptBy
    <3>2. CASE \E k \in Places : y \in held[k]
      BY <1>4, <2>6, <3>2 DEF KeptBy
    <3>. QED BY <2>11, <3>1, <3>2 DEF KeptBy
  <2>. QED BY <2>10, <2>11 DEF Kept
<1>. QED BY <1>6, <1>7

(***************************************************************************)
(* The start of a command                                                  *)
(***************************************************************************)
LEMMA StateIsThere ==
    ASSUME Inv, OneOwner, NEW l \in Places, HasState(l)
    PROVE  /\ OwnedBy(StateOwner(l), l) /\ StateOwner(l) \in Ids /\ Minted(StateOwner(l))
           /\ (\A i \in Ids : l = Pool(i) => i = StateOwner(l))
           /\ HoldsState(l, StateOwner(l))
<1>1. PICK x \in held[l] : x[1] = "state" /\ x[2] = StateOwner(l)
  <2>1. \E x \in held[l] : x[1] = "state"
    BY DEF HasState, HasName
  <2>. QED BY <2>1 DEF StateOwner
<1>2. x \in Files \X Ids
  BY DEF Inv, Disk
<1>3. x = <<"state", StateOwner(l)>>
  BY <1>1, <1>2
<1>. QED BY <1>1, <1>2, <1>3, OwnerType DEF OneOwner, OwnedBy, HoldsState, Inv

LEMMA StartParts ==
    ASSUME Inv, Quiet => Parts, Quiet', NEW p \in Procs, NEW j, Start(p, j),
           UNCHANGED disk, minted \subseteq minted', PlacesOf(j) \subseteq Places, InPlace(job[p])'
    PROVE  Parts'
<1>1. Parts /\ ~Busy(p) /\ MayUse(PlacesOf(j)) /\ UNCHANGED <<made, held, archived>>
  BY DEF Quiet, Start, disk
<1>2. job'[p] = j /\ \A q \in Procs : q # p => job'[q] = job[q]
  BY DEF Start, Inv, Jobs
<1>3. ASSUME NEW q \in Procs, q # p PROVE PlacesOf(job[q]) \intersect PlacesOf(j) = {}
  <2>1. CASE ~Busy(q)
    BY <2>1, IdlePlaces DEF Busy
  <2>2. CASE Busy(q)
    <3>1. Overlap = "apart"
      BY <1>1, <2>2, WorkspacesAssumption DEF Quiet, Start, MayUse
    <3>. QED BY <1>1, <3>1 DEF MayUse
  <2>. QED BY <2>1, <2>2
<1>4. ASSUME NEW q \in Procs, q # p PROVE InPlace(job[q])' /\ PlacesOf(job[q])' = PlacesOf(job[q])
  <2>1. \A l \in PlacesOf(job[q]) : Untouched(l)
    BY <1>1 DEF Untouched
  <2>2. PlacesOf(job[q]) \subseteq Places /\ InPlace(job[q])
    BY <1>1, JobPlaces DEF Parts, Inv
  <2>3. InPlace(job[q])'
    BY <1>2, <1>4, <2>1, <2>2, OtherInPlace
  <2>. QED BY <1>2, <1>4, <2>3 DEF PlacesOf
<1>5. PlacesApart'
  <2>1. PlacesOf(job[p])' = PlacesOf(j)
    BY <1>2 DEF PlacesOf
  <2>. QED BY <1>1, <1>3, <1>4, <2>1 DEF Parts, PlacesApart
<1>6. OneOwner'
  BY <1>1 DEF Parts, OneOwner, OwnedBy, Minted
<1>. QED BY <1>4, <1>5, <1>6 DEF Parts

(* What the commands start with *)
UseShape(j) ==
    /\ j.op \in {"use", "prune"} /\ PlacesOf(j) = {} /\ j.at = "empty"
    /\ (\E i : j.img = SetCurrent(reg, i)) \/ j.img = Remove(reg, Missing)
InsideShape(j) ==
    /\ j.op \in {"flag", "work"} /\ j.from = {} /\ j.picked = {} /\ j.items = {} /\ j.at \in {"save", "work"}
    /\ \E l \in Places : HasState(l) /\ j.loc = {l} /\ j.id = StateOwner(l)
CleanupShape(j) ==
    /\ j.op = "cleanup" /\ j.loc = {} /\ j.from = {} /\ j.at = "next" /\ j.img = NoImage
    /\ j.picked \subseteq Cleanable(j.flag)
MakeShape(j) ==
    /\ j.op \in {"init", "migrate"} /\ j.at = "mkdir" /\ j.picked = {} /\ j.items = {}
    /\ \E l \in ProjectPlaces : l \notin made /\ j.loc = {l}
    /\ j.op = "init" => j.from = {} /\ j.id \in NewIds \ minted /\ j.id \in minted'
    /\ j.op = "migrate" => /\ j.from = {Pool(j.id)} /\ j.id \in Ids /\ HasState(Pool(j.id))
                           /\ j.flag \/ j.id \in copied'
Shape(j) == UseShape(j) \/ InsideShape(j) \/ CleanupShape(j) \/ MakeShape(j)

LEMMA CommandShape ==
    ASSUME Inv, NEW p \in Procs, Command(p)
    PROVE  \/ \E i \in Ids : New(p, i)
           \/ \E j : /\ Start(p, j) /\ UNCHANGED disk /\ UNCHANGED reg
                    /\ minted \subseteq minted' /\ copied \subseteq copied' /\ Shape(j)
<1>1. CASE \E i \in Ids : Use(p, i)
  <2>1. PICK i \in Ids : Use(p, i)
    BY <1>1
  <2>2. PICK j : j = [Idle EXCEPT !.op = "use", !.at = "empty", !.img = SetCurrent(reg, i)]
    OBVIOUS
  <2>3. /\ Start(p, j) /\ UNCHANGED disk /\ UNCHANGED reg /\ minted \subseteq minted' /\ copied \subseteq copied'
    BY <2>1, <2>2 DEF Use
  <2>4. /\ j.op = "use" /\ j.at = "empty" /\ j.loc = {} /\ j.from = {} /\ j.picked = {}
        /\ j.img = SetCurrent(reg, i)
    BY <2>2 DEF Idle
  <2>6. Shape(j)
    BY <2>4 DEF Shape, UseShape, PlacesOf
  <2>. QED BY <2>3, <2>6
<1>2. CASE Prune(p)
  <2>2. PICK j : j = [Idle EXCEPT !.op = "prune", !.at = "empty", !.img = Remove(reg, Missing)]
    OBVIOUS
  <2>3. /\ Start(p, j) /\ UNCHANGED disk /\ UNCHANGED reg /\ minted \subseteq minted' /\ copied \subseteq copied'
    BY <1>2, <2>2 DEF Prune
  <2>4. /\ j.op = "prune" /\ j.at = "empty" /\ j.loc = {} /\ j.from = {} /\ j.picked = {}
        /\ j.img = Remove(reg, Missing)
    BY <2>2 DEF Idle
  <2>6. Shape(j)
    BY <2>4 DEF Shape, UseShape, PlacesOf
  <2>. QED BY <2>3, <2>6
<1>3. CASE \E d \in Dirs, i \in Ids : StartInit(p, d, i)
  <2>1. PICK d \in Dirs, i \in Ids : StartInit(p, d, i)
    BY <1>3
  <2>2. PICK j : j = [Idle EXCEPT !.op = "init", !.at = "mkdir", !.id = i, !.loc = {Project(d)}]
    OBVIOUS
  <2>3. /\ Start(p, j) /\ UNCHANGED disk /\ UNCHANGED reg /\ minted \subseteq minted' /\ copied \subseteq copied'
        /\ i \in NewIds \ minted /\ i \in minted' /\ Project(d) \notin made
    BY <2>1, <2>2 DEF StartInit
  <2>4. /\ j.op = "init" /\ j.at = "mkdir" /\ j.picked = {} /\ j.items = {} /\ j.from = {} /\ j.id = i
        /\ j.loc = {Project(d)}
    BY <2>2 DEF Idle
  <2>5. \E l \in ProjectPlaces : l \notin made /\ j.loc = {l}
    BY <2>3, <2>4, PlaceNames
  <2>6. Shape(j)
    BY <2>3, <2>4, <2>5 DEF Shape, MakeShape
  <2>. QED BY <2>3, <2>6
<1>4. CASE \E d \in Dirs, i \in Ids : \E mode \in Modes : StartMigrate(p, i, d, mode)
  <2>1. PICK d \in Dirs, i \in Ids, mode \in Modes : StartMigrate(p, i, d, mode)
    BY <1>4
  <2>2. PICK j : j = [Idle EXCEPT !.op = "migrate", !.at = "mkdir", !.id = i,
                                  !.loc = {Project(d)}, !.from = {Pool(i)}, !.flag = (mode = "move")]
    OBVIOUS
  <2>3. /\ Start(p, j) /\ UNCHANGED disk /\ UNCHANGED reg /\ minted \subseteq minted' /\ copied \subseteq copied'
        /\ HasState(Pool(i)) /\ Project(d) \notin made /\ (mode = "copy" => i \in copied')
    BY <2>1, <2>2 DEF StartMigrate
  <2>4. /\ j.op = "migrate" /\ j.at = "mkdir" /\ j.picked = {} /\ j.items = {} /\ j.from = {Pool(i)}
        /\ j.id = i /\ j.loc = {Project(d)} /\ (mode = "move" => j.flag)
    BY <2>2 DEF Idle
  <2>5. \E l \in ProjectPlaces : l \notin made /\ j.loc = {l}
    BY <2>3, <2>4, PlaceNames
  <2>6. Shape(j)
    BY <2>3, <2>4, <2>5, WorkspacesAssumption DEF Shape, MakeShape
  <2>. QED BY <2>3, <2>6
<1>5. CASE \E active \in BOOLEAN : \E picked \in SUBSET Cleanable(active) : StartCleanup(p, active, picked)
  <2>0. PICK active \in BOOLEAN : \E picked \in SUBSET Cleanable(active) : StartCleanup(p, active, picked)
    BY <1>5
  <2>1. PICK picked \in SUBSET Cleanable(active) : StartCleanup(p, active, picked)
    BY <2>0
  <2>2. PICK j : j = [Idle EXCEPT !.op = "cleanup", !.at = "next", !.picked = picked, !.flag = active]
    OBVIOUS
  <2>3. /\ Start(p, j) /\ UNCHANGED disk /\ UNCHANGED reg /\ minted \subseteq minted' /\ copied \subseteq copied'
    BY <2>1, <2>2 DEF StartCleanup
  <2>4. /\ j.op = "cleanup" /\ j.loc = {} /\ j.from = {} /\ j.at = "next" /\ j.picked = picked
        /\ j.flag = active /\ j.img = NoImage
    BY <2>2 DEF Idle
  <2>5. j.picked \subseteq Cleanable(j.flag)
    BY <2>1, <2>4
  <2>6. Shape(j)
    BY <2>4, <2>5 DEF Shape, CleanupShape
  <2>. QED BY <2>3, <2>6
<1>6. CASE \E l \in Places : StartWork(p, l)
  <2>1. PICK l \in Places : StartWork(p, l)
    BY <1>6
  <2>2. PICK j : j = [Idle EXCEPT !.op = "work", !.at = "work", !.id = StateOwner(l), !.loc = {l}]
    OBVIOUS
  <2>3. /\ Start(p, j) /\ UNCHANGED disk /\ UNCHANGED reg /\ minted \subseteq minted' /\ copied \subseteq copied'
        /\ l \in Reachable
    BY <2>1, <2>2 DEF StartWork
  <2>4. /\ j.op \in {"flag", "work"} /\ j.from = {} /\ j.picked = {} /\ j.items = {} /\ j.at \in {"save", "work"}
        /\ j.loc = {l} /\ j.id = StateOwner(l)
    BY <2>2 DEF Idle
  <2>5. \E k \in Places : HasState(k) /\ j.loc = {k} /\ j.id = StateOwner(k)
    BY <2>3, <2>4 DEF Reachable
  <2>6. Shape(j)
    BY <2>4, <2>5 DEF Shape, InsideShape
  <2>. QED BY <2>3, <2>6
<1>7. CASE \E l \in Places : \E flag \in BOOLEAN : StartFlag(p, l, flag)
  <2>1. PICK l \in Places, flag \in BOOLEAN : StartFlag(p, l, flag)
    BY <1>7
  <2>2. PICK j : j = [Idle EXCEPT !.op = "flag", !.at = "save", !.id = StateOwner(l), !.loc = {l},
                                  !.flag = flag]
    OBVIOUS
  <2>3. /\ Start(p, j) /\ UNCHANGED disk /\ UNCHANGED reg /\ minted \subseteq minted' /\ copied \subseteq copied'
        /\ l \in Reachable
    BY <2>1, <2>2 DEF StartFlag
  <2>4. /\ j.op \in {"flag", "work"} /\ j.from = {} /\ j.picked = {} /\ j.items = {} /\ j.at \in {"save", "work"}
        /\ j.loc = {l} /\ j.id = StateOwner(l)
    BY <2>2 DEF Idle
  <2>5. \E k \in Places : HasState(k) /\ j.loc = {k} /\ j.id = StateOwner(k)
    BY <2>3, <2>4 DEF Reachable
  <2>6. Shape(j)
    BY <2>4, <2>5 DEF Shape, InsideShape
  <2>. QED BY <2>3, <2>6
<1>. QED BY <1>1, <1>2, <1>3, <1>4, <1>5, <1>6, <1>7 DEF Command

LEMMA StartInPlace ==
    ASSUME Inv, OneOwner, NEW j, UNCHANGED disk, minted \subseteq minted', Shape(j)
    PROVE  InPlace(j)' /\ PlacesOf(j) \subseteq Places
<1>1. UNCHANGED <<made, held, archived>> /\ \A i : Minted(i) => Minted(i)'
  BY DEF disk, Minted
<1>2. CASE UseShape(j)
  BY <1>2 DEF UseShape, InPlace, PlacesOf
<1>3. CASE InsideShape(j)
  <2>1. PICK l \in Places : HasState(l) /\ j.loc = {l} /\ j.id = StateOwner(l)
    BY <1>3 DEF InsideShape
  <2>2. PlacesOf(j) = {l} /\ PlacesOf(j)' = {l}
    BY <1>3, <2>1 DEF InsideShape, PlacesOf
  <2>3. OwnedBy(j.id, l) /\ Minted(j.id) /\ \A i \in Ids : l = Pool(i) => i = j.id
    BY <2>1, StateIsThere
  <2>4. OwnedBy(j.id, l)' /\ Minted(j.id)'
    BY <1>1, <2>3 DEF OwnedBy
  <2>. QED BY <1>1, <1>3, <2>1, <2>2, <2>3, <2>4 DEF InsideShape, InPlace
<1>4. CASE CleanupShape(j)
  <2>1. \A c \in j.picked : c[2] \in Places /\ HasState(c[2]) /\ (c[2] \in archived \/ j.flag)
    <3>1. \A c \in reg.entries : c[2] \in Places
      BY DEF Inv, Sound, Image
    <3>2. \A c \in {<<i, Pool(i)>> : i \in Ids} : c[2] \in Places
      BY PlaceNames
    <3>. QED BY <1>4, <3>1, <3>2 DEF CleanupShape, Cleanable
  <2>2. \A l \in PlacesOf(j) : l \in Places /\ HasState(l)
    BY <1>4, <2>1 DEF CleanupShape, PlacesOf
  <2>3. ASSUME NEW i \in Ids, Pool(i) \in PlacesOf(j) PROVE Minted(i)
    <3>1. PICK l \in Places : l = Pool(i) /\ HasState(l)
      BY <2>2, <2>3
    <3>. QED BY <3>1, StateIsThere
  <2>4. PlacesOf(j)' = PlacesOf(j)
    BY DEF PlacesOf
  <2>. QED BY <1>1, <1>4, <2>1, <2>2, <2>3, <2>4 DEF CleanupShape, InPlace
<1>5. CASE MakeShape(j)
  <2>1. PICK l \in ProjectPlaces : l \notin made /\ j.loc = {l}
    BY <1>5 DEF MakeShape
  <2>2. held[l] = {} /\ l \in Places /\ \A i : l # Pool(i)
    BY <2>1, PlaceNames DEF OneOwner
  <2>3. j.op = "migrate" => Minted(j.id) /\ Pool(j.id) \in Places
    <3>1. ASSUME j.op = "migrate" PROVE Minted(j.id) /\ Pool(j.id) \in Places
      <4>1. PICK k \in Places : k = Pool(j.id) /\ HasState(k) /\ j.id \in Ids
        BY <1>5, <3>1, PlaceNames DEF MakeShape
      <4>2. j.id = StateOwner(k) /\ Minted(StateOwner(k))
        BY <4>1, StateIsThere
      <4>. QED BY <4>1, <4>2
    <3>. QED BY <3>1
  <2>4. Minted(j.id)'
    BY <1>1, <1>5, <2>3 DEF MakeShape, Minted
  <2>5. PlacesOf(j) = {l} \union j.from /\ PlacesOf(j)' = {l} \union j.from
    BY <1>5, <2>1 DEF MakeShape, PlacesOf
  <2>6. \A i \in Ids : Pool(i) \in PlacesOf(j)' => i = j.id
    BY <1>5, <2>2, <2>5, PlaceNames DEF MakeShape
  <2>7. PlacesOf(j) \subseteq Places
    BY <1>5, <2>2, <2>3, <2>5 DEF MakeShape
  <2>8. OwnedBy(j.id, l)'
    BY <1>1, <2>2 DEF OwnedBy
  <2>. QED BY <1>1, <1>5, <2>1, <2>2, <2>4, <2>6, <2>7, <2>8 DEF MakeShape, InPlace
<1>. QED BY <1>2, <1>3, <1>4, <1>5 DEF Shape

LEMMA NewParts ==
    ASSUME Inv, Quiet => Parts, Quiet', NEW p \in Procs, NEW i \in Ids, New(p, i)
    PROVE  Parts' /\ \A l \in Places : held[l] \subseteq held'[l]
<1>1. Parts /\ UNCHANGED <<archived, job, calm>> /\ made' = made \union {Pool(i)}
  BY DEF New, Quiet
<1>2. i \in NewIds \ minted /\ minted' = minted \union {i} /\ ~Minted(i) /\ Pool(i) \in Places
  BY PlaceNames DEF New, Minted
<1>3. held[Pool(i)] = {}
  BY <1>1, <1>2 DEF Parts, OneOwner, OwnedBy
<1>4. PICK S : S = {<<"state", i>>}
  OBVIOUS
<1>5. held' = [held EXCEPT ![Pool(i)] = S] /\ \A x \in S : x[2] = i
  BY <1>4 DEF New
<1>6. held'[Pool(i)] = S /\ \A k \in Places : k # Pool(i) => held'[k] = held[k]
  BY <1>2, <1>5 DEF Inv, Disk
<1>7. (\A k : Minted(k) => Minted(k)') /\ Minted(i)'
  BY <1>2 DEF Minted
<1>8. OneOwner'
  <2>1. \A k \in Places : \A x, y \in held'[k] : x[2] = y[2]
    BY <1>1, <1>5, <1>6 DEF Parts, OneOwner
  <2>2. \A k \in Ids : \A x \in held'[Pool(k)] : x[2] = k
    BY <1>1, <1>5, <1>6, PlaceNames DEF Parts, OneOwner, OwnedBy
  <2>3. \A k \in Places : k \notin made' => held'[k] = {}
    BY <1>1, <1>6 DEF Parts, OneOwner
  <2>4. \A k \in Places : \A x \in held'[k] : Minted(x[2])'
    BY <1>1, <1>5, <1>6, <1>7 DEF Parts, OneOwner
  <2>. QED BY <2>1, <2>2, <2>3, <2>4 DEF OneOwner, OwnedBy
<1>9. ASSUME NEW q \in Procs PROVE InPlace(job[q])' /\ PlacesOf(job[q])' = PlacesOf(job[q])
  <2>1. InPlace(job[q]) /\ PlacesOf(job[q]) \subseteq Places
    BY <1>1, JobPlaces DEF Parts, Inv
  <2>2. Pool(i) \notin PlacesOf(job[q])
    BY <1>2, <2>1 DEF InPlace
  <2>3. \A l \in PlacesOf(job[q]) : Untouched(l)
    BY <1>1, <1>6, <2>1, <2>2 DEF Untouched
  <2>4. InPlace(job[q])'
    BY <1>1, <1>2, <2>1, <2>3, OtherInPlace
  <2>. QED BY <1>1, <2>4 DEF PlacesOf
<1>10. PlacesApart'
  BY <1>1, <1>9 DEF Parts, PlacesApart
<1>. QED BY <1>3, <1>6, <1>8, <1>9, <1>10 DEF Parts

LEMMA CommandParts ==
    ASSUME Inv, Quiet => Parts, Quiet', NEW p \in Procs, Command(p)
    PROVE  Parts' /\ \A l \in Places : held[l] \subseteq held'[l]
<1>0. Parts
  BY DEF Quiet, Command, Use, New, Prune, StartInit, StartMigrate, StartCleanup, StartWork, StartFlag, Start
<1>1. CASE \E i \in Ids : New(p, i)
  BY <1>1, NewParts
<1>2. ASSUME NEW j, Start(p, j), InPlace(j)', PlacesOf(j) \subseteq Places, UNCHANGED disk,
             minted \subseteq minted'
      PROVE  Parts' /\ \A l \in Places : held[l] \subseteq held'[l]
  <2>1. job'[p] = j
    BY <1>2 DEF Start, Inv, Jobs
  <2>2. InPlace(job[p])'
    BY <1>2, <2>1 DEF InPlace, PlacesOf
  <2>. QED BY <1>2, <2>2, StartParts DEF disk
<1>3. CASE \E j : /\ Start(p, j) /\ UNCHANGED disk /\ UNCHANGED reg
                 /\ minted \subseteq minted' /\ copied \subseteq copied' /\ Shape(j)
  BY <1>0, <1>2, <1>3, StartInPlace DEF Parts
<1>. QED BY <1>1, <1>3, CommandShape

(***************************************************************************)
(* Every step                                                              *)
(***************************************************************************)
LEMMA ContinueParts ==
    ASSUME Inv, Parts, NEW p \in Procs, Continue(p) \/ Kill(p)
    PROVE  Parts' /\ (Kept \/ MayRemove(p))
<1>1. CASE LoadRegistry(p) \/ EmptyRegistry(p) \/ WriteRegistry(p) \/ Kill(p)
  <2>1. root' = root
    BY <1>1 DEF LoadRegistry, EmptyRegistry, WriteRegistry, Kill, disk
  <2>. QED BY <1>1, <2>1, RegistryParts DEF Kept, KeptBy
<1>2. CASE MakeMetadataDir(p) \/ WriteState(p) \/ (\E f \in Files : Produce(p, f)) \/ SaveState(p)
  <2>1. root' = root
    BY <1>2 DEF MakeMetadataDir, WriteState, Produce, SaveState
  <2>2. Parts' /\ \A l \in Places : held[l] \subseteq held'[l]
    BY <1>2, FileParts
  <2>. QED BY <2>1, <2>2 DEF Kept, KeptBy
<1>3. CASE MakeDestination(p)
  <2>1. root' = root
    BY <1>3 DEF MakeDestination
  <2>. QED BY <1>3, <2>1, DestinationParts DEF Kept, KeptBy
<1>4. CASE \E x \in job[p].items : PlaceItem(p, x)
  BY <1>4, PlaceItemParts
<1>5. CASE \E c \in job[p].picked : TakeCandidate(p, c)
  <2>1. root' = root
    BY <1>5 DEF TakeCandidate, disk
  <2>. QED BY <1>5, <2>1, TakeParts DEF Kept, KeptBy
<1>6. CASE RemoveDir(p) \/ \E l \in job[p].loc : \E rest \in SUBSET held[l] : RemoveFails(p, rest)
  BY <1>6, RemoveParts
<1>. QED BY <1>1, <1>2, <1>3, <1>4, <1>5, <1>6 DEF Continue

LEMMA QuietBack == ASSUME Inv, [Next]_vars, Quiet' PROVE Quiet
<1>1. ASSUME NEW p \in Procs, Command(p) PROVE calm' => calm
  BY <1>1, ZenonT(30) DEF Command, Use, New, Prune, StartInit, StartMigrate, StartCleanup, StartWork,
                          StartFlag, Start
<1>2. ASSUME NEW p \in Procs, Continue(p) PROVE calm' => calm
  BY <1>2, ZenonT(30) DEF Continue, LoadRegistry, EmptyRegistry, WriteRegistry, MakeMetadataDir,
                          WriteState, MakeDestination, PlaceItem, TakeCandidate, RemoveDir,
                          RemoveFails, Produce, SaveState, Running
<1>3. ASSUME NEW p \in Procs, Kill(p) PROVE ~calm'
  BY <1>3 DEF Kill
<1>. QED BY <1>1, <1>2, <1>3 DEF Next, Rest, vars, Quiet

LEMMA PlaceInvNext ==
    ASSUME Inv, PlaceInv, [Next]_vars
    PROVE  /\ PlaceInv'
           /\ Quiet' => \/ \A x \in Items : KeptBy(x, held, root) => KeptBy(x, held', root')
                       \/ \E p \in Procs : MayRemove(p)
<1>. SUFFICES ASSUME Quiet' PROVE Parts' /\ (Kept \/ \E p \in Procs : MayRemove(p))
  BY DEF PlaceInv, Parts, Kept
<1>1. Parts
  BY QuietBack DEF PlaceInv, Parts
<1>2. CASE \E p \in Procs : Command(p)
  <2>1. PICK p \in Procs : Command(p)
    BY <1>2
  <2>2. Parts' /\ \A l \in Places : held[l] \subseteq held'[l]
    BY <1>1, <2>1, CommandParts
  <2>3. \A d \in Dirs : root[d] \subseteq root'[d]
    BY RootGrows
  <2>. QED BY <2>2, <2>3 DEF Kept, KeptBy
<1>3. CASE \E p \in Procs : Continue(p) \/ Kill(p)
  BY <1>1, <1>3, ContinueParts
<1>4. CASE UNCHANGED vars
  <2>1. PlacesApart' /\ OneOwner'
    BY <1>1, <1>4 DEF vars, disk, Parts, PlacesApart, PlacesOf, OneOwner, OwnedBy, Minted
  <2>2. ASSUME NEW p \in Procs PROVE InPlace(job[p])'
    <3>1. InPlace(job[p]) /\ PlacesOf(job[p]) \subseteq Places
      BY <1>1, JobPlaces DEF Parts, Inv
    <3>. QED BY <1>4, <3>1, OtherInPlace DEF vars, disk, Untouched
  <2>3. Kept
    BY <1>4 DEF vars, disk, Kept, KeptBy
  <2>. QED BY <2>1, <2>2, <2>3 DEF Parts
<1>. QED BY <1>2, <1>3, <1>4 DEF Next, Rest

LEMMA PlaceInvInit == Init => PlaceInv
<1>. SUFFICES ASSUME Init PROVE Parts
  BY DEF PlaceInv, Parts
<1>1. PICK old, all : /\ old = {<<s[1], Project(s[2])>> : s \in Settled}
                      /\ all = old \union {<<i, Pool(i)>> : i \in PoolIds}
  OBVIOUS
<1>2. /\ made = {w[2] : w \in all} /\ minted = {}
      /\ held = [l \in Places |-> (IF l \in ProjectPlaces THEN {"state"} ELSE Files \ {"link"})
                                       \X {w[1] : w \in {v \in all : v[2] = l}}]
      /\ \A p \in Procs : job[p] = Idle
  BY <1>1 DEF Init
<1>3. \A v, w \in all : v[2] = w[2] => v[1] = w[1]
  <2>1. \A v, w \in old : v[2] = w[2] => v[1] = w[1]
    BY <1>1, WorkspacesAssumption DEF Project
  <2>2. \A v \in old, i \in PoolIds : v[2] # Pool(i)
    BY <1>1, WorkspacesAssumption DEF Project, Pool
  <2>3. \A i, k \in PoolIds : Pool(i) = Pool(k) => i = k
    BY PlaceNames
  <2>. QED BY <1>1, <2>1, <2>2, <2>3
<1>4. \A v \in all : v[1] \notin NewIds
  BY <1>1, WorkspacesAssumption
<1>5. \A l \in Places : \A x \in held[l] : \E v \in all : v[2] = l /\ v[1] = x[2]
  BY <1>2
<1>6. \A i : \A v \in all : v[2] = Pool(i) => v[1] = i
  <2>1. \A i : \A v \in old : v[2] # Pool(i)
    BY <1>1 DEF Project, Pool
  <2>. QED BY <1>1, PlaceNames DEF Project, Pool
<1>7. OneOwner
  <2>1. \A l \in Places : \A x, y \in held[l] : x[2] = y[2]
    BY <1>3, <1>5
  <2>2. \A i \in Ids : OwnedBy(i, Pool(i))
    BY <1>5, <1>6, PlaceNames DEF OwnedBy
  <2>3. \A l \in Places : l \notin made => held[l] = {}
    BY <1>2, <1>5
  <2>4. \A l \in Places : \A x \in held[l] : Minted(x[2])
    BY <1>4, <1>5 DEF Minted
  <2>. QED BY <2>1, <2>2, <2>3, <2>4 DEF OneOwner
<1>8. PlacesApart /\ \A p \in Procs : InPlace(job[p])
  BY <1>2, IdlePlaces, IdleInPlace, WorkspacesAssumption DEF PlacesApart
<1>. QED BY <1>7, <1>8 DEF Parts

LEMMA SpecPlaceInv == Spec => []PlaceInv
<1>1. Inv /\ PlaceInv /\ [Next]_vars => PlaceInv'
  BY PlaceInvNext
<1>. QED BY <1>1, SpecInv, PlaceInvInit, PTL DEF Spec

(* When no two commands are in the same place at once, the last copy of a file of a workspace
   goes only in a cleanup of an archived one (or with --include-active), whatever is killed
   half-way and whatever else runs elsewhere (cli/workspace.py, storage/lifecycle.py) *)
THEOREM WorkIsSafe == Overlap # "any" => (Spec => WorkSurvives)
<1>. SUFFICES ASSUME Overlap # "any" PROVE Spec => WorkSurvives
  OBVIOUS
<1>1. Inv /\ PlaceInv /\ [Next]_vars =>
        [\A x \in Items : KeptBy(x, held, root) /\ ~KeptBy(x, held', root')
                           => \E p \in Procs : MayRemove(p)]_vars
  BY PlaceInvNext DEF Quiet
<1>. QED BY <1>1, SpecInv, SpecPlaceInv, PTL DEF Spec, WorkSurvives

(***************************************************************************)
(* The registry, while commands run one after another and none is killed   *)
(***************************************************************************)
PendingOf(j) == IF j.op \in {"init", "migrate"} THEN j.loc ELSE {}
StruckOf(j)  == IF j.op = "cleanup" /\ j.at \in {"load", "empty"} THEN {j.id} ELSE {}

Once == \A i \in Ids \ copied : \A l, k \in Places : HoldsState(l, i) /\ HoldsState(k, i) => l = k

\* RegistryInv, of the one command under way
Facts(j) ==
    /\ Once
    /\ Correct(reg) /\ \A e \in reg.entries : e[2] \in made \/ e[1] \in StruckOf(j)
    /\ j.at # "write" => Complete(reg, PendingOf(j))
    /\ InRegistry(j)

LEMMA IdleKnowsNothing == InRegistry(Idle) /\ InRegistry(Idle)' /\ PendingOf(Idle) = {} /\ StruckOf(Idle) = {}
BY DEF InRegistry, Idle, PendingOf, StruckOf

LEMMA FactsOf ==
    ASSUME RegistryInv, calm, NEW p \in Procs, \A q \in Procs : q # p => job[q] = Idle
    PROVE  Facts(job[p])
<1>1. Pending = PendingOf(job[p])
  BY DEF Pending, PendingOf, Idle
<1>2. Struck = StruckOf(job[p])
  BY DEF Struck, StruckOf, Idle
<1>3. job[p].at # "write" => \A q \in Procs : job[q].at # "write"
  BY DEF Idle
<1>. QED BY <1>1, <1>2, <1>3 DEF RegistryInv, Facts, Once

LEMMA FactsTo ==
    ASSUME NEW p \in Procs, NEW j, job'[p] = j, \A q \in Procs : q # p => job'[q] = Idle, Facts(j)'
    PROVE  RegistryInv'
<1>1. Pending' = PendingOf(j)
  BY DEF Pending, PendingOf, Idle
<1>2. Struck' = StruckOf(j)
  BY DEF Struck, StruckOf, Idle
<1>3. (\A q \in Procs : job'[q].at # "write") => j.at # "write"
  OBVIOUS
<1>4. \A q \in Procs : Busy(q)' => q = p
  BY DEF Busy
<1>5. \A q \in Procs : InRegistry(job[q])'
  <2>1. ASSUME NEW q \in Procs, q # p PROVE InRegistry(job[q])'
    <3>1. job'[q] = Idle
      BY <2>1
    <3>. QED BY <3>1 DEF InRegistry, Idle
  <2>2. InRegistry(job[p])'
    BY DEF Facts, InRegistry
  <2>. QED BY <2>1, <2>2
<1>. QED BY <1>1, <1>2, <1>3, <1>4, <1>5 DEF RegistryInv, Facts, Once, PendingOf, StruckOf

\* What a place with a state says of the entries that name it
LEMMA EntryOwner ==
    ASSUME Inv, OneOwner, NEW img, Correct(img), NEW e \in img.entries, NEW l \in Places,
           e[2] = l, HasState(l)
    PROVE  e[1] = StateOwner(l) /\ HoldsState(l, e[1])
<1>1. PICK x \in held[l] : x[1] = "state" /\ x \in Files \X Ids
  BY DEF HasState, HasName, Inv, Disk
<1>2. x[2] = e[1] /\ x = <<"state", x[2]>>
  BY <1>1 DEF Correct, OwnedBy
<1>3. HoldsState(l, StateOwner(l))
  BY StateIsThere
<1>4. <<"state", StateOwner(l)>> \in held[l]
  BY <1>3 DEF HoldsState
<1>5. <<"state", StateOwner(l)>>[2] = x[2]
  BY <1>1, <1>4 DEF OneOwner
<1>. QED BY <1>2, <1>3, <1>5

LEMMA HoldsHas ==
    ASSUME NEW l, NEW i, HoldsState(l, i)
    PROVE  HasState(l)
BY DEF HoldsState, HasState, HasName

LEMMA SameFiles ==
    ASSUME held' = held, copied \subseteq copied', minted \subseteq minted'
    PROVE  /\ \A i, l : HoldsState(l, i)' <=> HoldsState(l, i)
           /\ \A img : Correct(img) => Correct(img)'
           /\ \A img, pending : Complete(img, pending) => Complete(img, pending)'
           /\ \A i, places : Alone(i, places) => Alone(i, places)'
           /\ \A i : Minted(i) => Minted(i)'
           /\ Once => Once'
BY DEF HoldsState, Correct, OwnedBy, Complete, Alone, Minted, Once

LEMMA StartRegistry ==
    ASSUME Inv, Parts, RegistryInv, calm, NEW p \in Procs, NEW j, Start(p, j), calm',
           UNCHANGED disk, UNCHANGED reg, minted \subseteq minted', copied \subseteq copied', Shape(j)
    PROVE  RegistryInv'
<1>1. \A q \in Procs : job[q] = Idle
  BY DEF Start, Busy
<1>2. job'[p] = j /\ \A q \in Procs : q # p => job'[q] = Idle
  BY <1>1 DEF Start, Inv, Jobs
<1>3. Facts(job[p]) /\ job[p] = Idle
  BY <1>1, FactsOf
<1>4. /\ Once /\ Correct(reg) /\ Complete(reg, {}) /\ OneOwner
      /\ \A e \in reg.entries : e[2] \in made /\ e[2] \in ProjectPlaces /\ e[2] \in Places
      /\ UNCHANGED <<held, made>>
  <2>1. Complete(reg, {})
    <3>1. Idle.at # "write"
      BY DEF Idle
    <3>. QED BY <1>3, <3>1, IdleKnowsNothing DEF Facts
  <2>. QED BY <1>3, <2>1, IdleKnowsNothing, PlaceNames DEF Facts, Parts, disk, Correct
<1>5. /\ \A i, l : HoldsState(l, i)' <=> HoldsState(l, i)
      /\ \A img : Correct(img) => Correct(img)'
      /\ \A img, pending : Complete(img, pending) => Complete(img, pending)'
      /\ \A i, places : Alone(i, places) => Alone(i, places)'
      /\ \A i : Minted(i) => Minted(i)'
      /\ Once => Once'
  BY <1>4, SameFiles
<1>6. Once' /\ Correct(reg)' /\ Complete(reg, PendingOf(j))'
  BY <1>4, <1>5 DEF Once, Correct, Complete
<1>7. ASSUME NEW l \in Places, HasState(l), StateOwner(l) \notin copied
      PROVE  Alone(StateOwner(l), {l})
  <2>1. HoldsState(l, StateOwner(l)) /\ StateOwner(l) \in Ids
    BY <1>4, <1>7, StateIsThere
  <2>. QED BY <1>4, <1>7, <2>1 DEF Once, Alone
<1>8. CASE UseShape(j)
  <2>1. Correct(j.img) /\ Complete(j.img, {}) /\ \A e \in j.img.entries : e[2] \in made
    <3>1. CASE \E i : j.img = SetCurrent(reg, i)
      <4>1. j.img.entries = reg.entries
        BY <3>1 DEF SetCurrent, Inv, Sound, Image
      <4>. QED BY <1>4, <4>1 DEF Correct, Keyed, Complete
    <3>2. CASE j.img = Remove(reg, Missing)
      <4>1. j.img.entries = {e \in reg.entries : e[1] \notin Missing}
        BY <3>2 DEF Remove, Without
      <4>2. Complete(j.img, {})
        <5>1. SUFFICES ASSUME NEW l \in ProjectPlaces, NEW i \in Ids \ copied, HoldsState(l, i)
                       PROVE  <<i, l>> \in j.img.entries
          BY DEF Complete
        <5>2. <<i, l>> \in reg.entries /\ HasState(l)
          BY <1>4, <5>1, HoldsHas DEF Complete
        <5>3. i \notin Missing
          BY <1>4, <5>2 DEF Missing, Correct, Keyed
        <5>. QED BY <4>1, <5>2, <5>3
      <4>. QED BY <1>4, <4>1, <4>2 DEF Correct, Keyed
    <3>. QED BY <1>8, <3>1, <3>2 DEF UseShape
  <2>2. InRegistry(j)'
    BY <1>4, <1>5, <1>8, <2>1 DEF UseShape, InRegistry
  <2>. QED BY <1>2, <1>4, <1>6, <2>2, FactsTo DEF Facts, UseShape
<1>9. CASE InsideShape(j)
  <2>1. PICK l \in Places : HasState(l) /\ j.loc = {l} /\ j.id = StateOwner(l)
    BY <1>9 DEF InsideShape
  <2>2. HoldsState(l, j.id)'
    BY <1>4, <1>5, <2>1, StateIsThere
  <2>3. InRegistry(j)'
    BY <1>9, <2>1, <2>2 DEF InsideShape, InRegistry
  <2>. QED BY <1>2, <1>4, <1>6, <2>3, FactsTo DEF Facts
<1>10. CASE CleanupShape(j)
  <2>1. ASSUME NEW c \in j.picked
        PROVE  Minted(c[1]) /\ Alone(c[1], {c[2]}) /\ Agrees(reg, c) /\ Agrees(NoImage, c)
    <3>1. HasState(c[2]) /\ c[2] \in Places /\ (c \in reg.entries \/ \E i \in Ids : c = <<i, Pool(i)>>)
      BY <1>4, <1>10, <2>1, PlaceNames DEF CleanupShape, Cleanable
    <3>2. PICK l \in Places : l = c[2] /\ HasState(l)
      BY <3>1
    <3>3. c[1] = StateOwner(l)
      <4>1. CASE c \in reg.entries
        BY <1>4, <3>2, <4>1, EntryOwner
      <4>2. CASE \E i \in Ids : c = <<i, Pool(i)>>
        BY <1>4, <3>2, <4>2, StateIsThere
      <4>. QED BY <3>1, <4>1, <4>2
    <3>4. Minted(c[1]) /\ Alone(c[1], {l})
      BY <1>4, <1>7, <3>2, <3>3, StateIsThere DEF Alone
    <3>5. \A e \in reg.entries : e[2] = l => e[1] = c[1]
      BY <1>4, <3>2, <3>3, EntryOwner
    <3>. QED BY <3>2, <3>4, <3>5 DEF Agrees, NoImage
  <2>2. InRegistry(j)'
    BY <1>4, <1>5, <1>10, <2>1 DEF CleanupShape, InRegistry, Agrees
  <2>. QED BY <1>2, <1>4, <1>6, <2>2, FactsTo DEF Facts, CleanupShape
<1>11. CASE MakeShape(j)
  <2>1. PICK l \in ProjectPlaces : l \notin made /\ j.loc = {l}
    BY <1>11 DEF MakeShape
  <2>2. Alone(j.id, j.loc \union j.from)'
    <3>1. CASE j.op = "init"
      <4>1. ~Minted(j.id)
        BY <1>11, <3>1 DEF MakeShape, Minted
      <4>2. \A k \in Places : ~HoldsState(k, j.id)
        BY <1>4, <4>1 DEF HoldsState, OneOwner
      <4>. QED BY <1>5, <4>2 DEF Alone
    <3>2. CASE j.op = "migrate"
      <4>1. PICK k \in Places : k = Pool(j.id) /\ HasState(k) /\ j.from = {k} /\ j.id \in Ids
        BY <1>11, <3>2, PlaceNames DEF MakeShape
      <4>2. j.id = StateOwner(k)
        BY <1>4, <4>1, StateIsThere
      <4>3. Alone(j.id, {k})
        BY <1>7, <4>1, <4>2 DEF Alone
      <4>. QED BY <1>5, <4>1, <4>3 DEF Alone
    <3>. QED BY <1>11, <3>1, <3>2 DEF MakeShape
  <2>3. \A e \in reg'.entries : e[2] \notin j.loc
    BY <1>4, <2>1
  <2>4. InRegistry(j)'
    BY <1>11, <2>2, <2>3 DEF MakeShape, InRegistry
  <2>. QED BY <1>2, <1>4, <1>6, <2>4, FactsTo DEF Facts
<1>. QED BY <1>8, <1>9, <1>10, <1>11 DEF Shape

LEMMA NewRegistry ==
    ASSUME Inv, Parts, RegistryInv, calm, NEW p \in Procs, NEW i \in Ids, New(p, i)
    PROVE  RegistryInv'
<1>1. UNCHANGED <<archived, job, calm, copied, reg>> /\ made' = made \union {Pool(i)}
  BY DEF New
<1>2. ~Minted(i) /\ minted \subseteq minted' /\ Pool(i) \in Places
  BY PlaceNames DEF New, Minted
<1>3. \A k \in Places : \A n : HoldsState(k, n) => Minted(n)
  BY DEF HoldsState, Parts, OneOwner
<1>4. held'[Pool(i)] = {<<"state", i>>} /\ \A k \in Places : k # Pool(i) => held'[k] = held[k]
  BY <1>2 DEF New, Inv, Disk
<1>5. \A k \in Places : \A n : HoldsState(k, n)' <=> HoldsState(k, n) \/ (k = Pool(i) /\ n = i)
  <2>1. \A n : ~HoldsState(Pool(i), n)
    <3>1. \A x \in held[Pool(i)] : x[2] = i /\ Minted(x[2])
      BY <1>2 DEF Parts, OneOwner, OwnedBy
    <3>2. held[Pool(i)] = {}
      BY <1>2, <3>1
    <3>. QED BY <3>2 DEF HoldsState
  <2>2. \A n : HoldsState(Pool(i), n)' <=> n = i
    BY <1>4 DEF HoldsState
  <2>3. \A k \in Places : k # Pool(i) => \A n : HoldsState(k, n)' <=> HoldsState(k, n)
    BY <1>4 DEF HoldsState
  <2>. QED BY <2>1, <2>2, <2>3
<1>6. \A k \in ProjectPlaces : held'[k] = held[k] /\ k \in Places
  BY <1>4, PlaceNames
<1>7. /\ \A img : Correct(img) => Correct(img)'
      /\ \A img, pending : Complete(img, pending) => Complete(img, pending)'
      /\ \A n, places : Minted(n) /\ Alone(n, places) => Alone(n, places)'
      /\ \A n : Minted(n) => Minted(n)'
  <2>1. \A img : Correct(img) => Correct(img)'
    BY <1>6 DEF Correct, OwnedBy
  <2>2. \A img, pending : Complete(img, pending) => Complete(img, pending)'
    BY <1>1, <1>6 DEF Complete, HoldsState
  <2>3. \A n, places : Minted(n) /\ Alone(n, places) => Alone(n, places)'
    BY <1>1, <1>2, <1>5 DEF Alone
  <2>4. \A n : Minted(n) => Minted(n)'
    BY <1>2 DEF Minted
  <2>. QED BY <2>1, <2>2, <2>3, <2>4
<1>8. Once'
  <2>1. Once
    BY DEF RegistryInv, Once
  <2>2. \A k \in Places : ~HoldsState(k, i)
    BY <1>2, <1>3
  <2>. QED BY <1>1, <1>5, <2>1, <2>2 DEF Once
<1>9. ASSUME NEW q \in Procs PROVE InRegistry(job[q])'
  <2>1. InRegistry(job[q]) /\ InPlace(job[q]) /\ PlacesOf(job[q]) \subseteq Places /\ job[q] \in Job
    BY JobPlaces DEF RegistryInv, Parts, Inv, Jobs
  <2>2. Pool(i) \notin PlacesOf(job[q])
    BY <1>2, <2>1 DEF InPlace
  <2>3. \A l \in job[q].loc \union job[q].from : held'[l] = held[l]
    BY <1>4, <2>1, <2>2 DEF PlacesOf
  <2>4. job[q].op \in {"init", "migrate"} =>
            /\ \A e \in reg'.entries : e[2] \notin job[q].loc
            /\ Alone(job[q].id, job[q].loc \union job[q].from)'
    BY <1>1, <1>7, <2>1 DEF InPlace, InRegistry
  <2>5. job[q].op = "migrate" =>
            /\ job[q].flag \/ job[q].id \in copied'
            /\ job[q].items \subseteq held'[Pool(job[q].id)]
    BY <1>1, <2>1, <2>3 DEF InPlace, InRegistry
  <2>6. /\ job[q].op \in {"flag", "work"} => \A l \in job[q].loc : HoldsState(l, job[q].id)'
        /\ job[q].op = "cleanup" /\ job[q].at \in {"load", "empty", "write"} =>
              \A l \in job[q].loc : held'[l] = {}
    <3>1. job[q].op \in {"flag", "work"} => \A l \in job[q].loc : HoldsState(l, job[q].id)'
      BY <1>1, <2>1, <2>3 DEF InRegistry, HoldsState
    <3>2. job[q].op = "cleanup" /\ job[q].at \in {"load", "empty", "write"} =>
              \A l \in job[q].loc : held'[l] = {}
      BY <2>1, <2>3 DEF InRegistry
    <3>. QED BY <3>1, <3>2
  <2>7. /\ job[q].op = "cleanup" /\ job[q].at # "next" =>
              Minted(job[q].id)' /\ Alone(job[q].id, job[q].loc)'
        /\ job[q].op = "cleanup" => \A c \in job[q].picked :
              Minted(c[1])' /\ Alone(c[1], {c[2]})' /\ Agrees(reg, c) /\ Agrees(job[q].img, c)
        /\ job[q].op = "cleanup" /\ job[q].at = "remove" =>
              \A l \in job[q].loc : Agrees(reg, <<job[q].id, l>>)
    <3>1. PICK j : j = job[q]
      OBVIOUS
    <3>2. InRegistry(j)
      BY <2>1, <3>1
    <3>3. j.op = "cleanup" /\ j.at # "next" => Minted(j.id)' /\ Alone(j.id, j.loc)'
      BY <1>7, <3>2 DEF InRegistry
    <3>4. j.op = "cleanup" => \A c \in j.picked :
              Minted(c[1])' /\ Alone(c[1], {c[2]})' /\ Agrees(reg, c) /\ Agrees(j.img, c)
      BY <1>7, <3>2 DEF InRegistry
    <3>5. j.op = "cleanup" /\ j.at = "remove" => \A l \in j.loc : Agrees(reg, <<j.id, l>>)
      BY <3>2 DEF InRegistry
    <3>. QED BY <1>1, <3>1, <3>3, <3>4, <3>5 DEF Minted, Alone, HoldsState
  <2>8. job[q].at \in {"empty", "write"} =>
            Correct(job[q].img)' /\ Complete(job[q].img, {})' /\ \A e \in job[q].img.entries : e[2] \in made'
    <3>1. PICK img : img = job[q].img
      OBVIOUS
    <3>2. job[q].at \in {"empty", "write"} =>
            Correct(img)' /\ Complete(img, {})' /\ \A e \in img.entries : e[2] \in made'
      BY <1>1, <1>7, <2>1, <3>1 DEF InRegistry
    <3>. QED BY <1>1, <3>1, <3>2 DEF Correct, Complete, Keyed
  <2>9. /\ job[q].at = "write" => reg' = NoImage
        /\ job[q].at = "load" => job[q].op \in {"init", "migrate", "cleanup"}
    BY <1>1, <2>1 DEF InRegistry
  <2>. QED BY <1>1, <2>4, <2>5, <2>6, <2>7, <2>8, <2>9 DEF InRegistry, Agrees
<1>10. Pending' = Pending /\ Struck' = Struck
  BY <1>1 DEF Pending, Struck
<1>11. Correct(reg)' /\ (Complete(reg, Pending) => Complete(reg, Pending)')
  <2>1. PICK img, pending : img = reg /\ pending = Pending
    OBVIOUS
  <2>2. Correct(img)' /\ (Complete(img, pending) => Complete(img, pending)')
    BY <1>7, <2>1 DEF RegistryInv
  <2>. QED BY <1>1, <1>10, <2>1, <2>2 DEF Correct, Complete, Keyed
<1>. QED BY <1>1, <1>8, <1>9, <1>10, <1>11 DEF RegistryInv, Once, Busy

\* While one command is under way, a step of it is the only one.
LEMMA Lone ==
    ASSUME Inv, RegistryInv, calm, NEW p \in Procs, job[p].at # "idle"
    PROVE  Facts(job[p]) /\ \A q \in Procs : q # p => job[q] = Idle
<1>1. \A q \in Procs : q # p => job[q] = Idle
  <2>1. Busy(p)
    BY DEF Busy, Idle
  <2>. QED BY <2>1 DEF RegistryInv, Busy
<1>. QED BY <1>1, FactsOf

LEMMA LoneGoes ==
    ASSUME Inv, RegistryInv, calm, NEW p \in Procs, job[p].at # "idle", NEW j,
           job' = [job EXCEPT ![p] = j], Facts(j)'
    PROVE  RegistryInv'
<1>1. job'[p] = j /\ \A q \in Procs : q # p => job'[q] = Idle
  BY Lone DEF Inv, Jobs
<1>. QED BY <1>1, FactsTo

LEMMA ChangedEntries ==
    ASSUME Inv, NEW p \in Procs
    PROVE  /\ job[p].op \in {"init", "migrate"} =>
                 Changed(p, reg).entries = Without(reg, {job[p].id}) \union {<<job[p].id, TheLoc(p)>>}
           /\ job[p].op = "cleanup" => Changed(p, reg).entries = Without(reg, {job[p].id})
<1>1. reg \in Image
  BY DEF Inv, Sound
<1>2. CASE job[p].op = "init"
  <2>1. Changed(p, reg) = SetCurrent(Upsert(reg, job[p].id, TheLoc(p)), job[p].id)
    BY <1>2 DEF Changed
  <2>. QED BY <1>1, <1>2, <2>1 DEF SetCurrent, Upsert, Image
<1>3. CASE job[p].op = "migrate"
  <2>1. Changed(p, reg) =
          SetCurrent(Upsert(Remove(reg, {job[p].id}), job[p].id, TheLoc(p)), job[p].id)
    BY <1>3 DEF Changed
  <2>2. Without(Remove(reg, {job[p].id}), {job[p].id}) = Without(reg, {job[p].id})
    BY DEF Without, Remove
  <2>3. Changed(p, reg).entries =
          Without(Remove(reg, {job[p].id}), {job[p].id}) \union {<<job[p].id, TheLoc(p)>>}
    BY <2>1 DEF SetCurrent, Upsert, Remove
  <2>. QED BY <1>3, <2>2, <2>3
<1>4. CASE job[p].op = "cleanup"
  BY <1>4 DEF Changed, Remove
<1>. QED BY <1>2, <1>3, <1>4

\* The image that a command is about to write
LEMMA ChangedRight ==
    ASSUME Inv, Parts, NEW p \in Procs, Facts(job[p]), job[p].at = "load"
    PROVE  /\ Correct(Changed(p, reg)) /\ Complete(Changed(p, reg), {})
           /\ \A e \in Changed(p, reg).entries : e[2] \in made
           /\ job[p].op = "cleanup" => Changed(p, reg).entries \subseteq reg.entries
<1>1. PICK img, o : img = Changed(p, reg) /\ o = job[p]
  OBVIOUS
<1>2. /\ o \in Job /\ o.at = "load" /\ InPlace(o) /\ InRegistry(o) /\ o.op \in {"init", "migrate", "cleanup"}
      /\ Once /\ Correct(reg) /\ \A e \in reg.entries : e[2] \in made \/ e[1] \in StruckOf(o)
      /\ Complete(reg, PendingOf(o))
  BY <1>1 DEF Inv, Jobs, Parts, Facts, InRegistry
<1>3. CASE o.op \in {"init", "migrate"}
  <2>1. PICK l \in Places : /\ l = TheLoc(p) /\ o.loc = {l} /\ o.id \in Ids
                            /\ \A x \in held[l] : x[2] = o.id
    BY <1>1, <1>3, OwnPlace
  <2>2. l \in ProjectPlaces /\ l \in made /\ (\A e \in reg.entries : e[2] # l)
    BY <1>2, <1>3, <2>1 DEF InPlace, InRegistry
  <2>3. img.entries = {e \in reg.entries : e[1] # o.id} \union {<<o.id, l>>}
    BY <1>1, <1>3, <2>1, ChangedEntries DEF Without
  <2>4. \A e \in reg.entries : e[2] \in made
    BY <1>2, <1>3 DEF StruckOf
  <2>5. Correct(img)
    BY <1>2, <2>1, <2>2, <2>3 DEF Correct, Keyed, OwnedBy
  <2>6. Complete(img, {})
    <3>1. SUFFICES ASSUME NEW k \in ProjectPlaces, NEW i \in Ids \ copied, HoldsState(k, i)
                   PROVE  <<i, k>> \in img.entries
      BY DEF Complete
    <3>2. k \in Places
      BY PlaceNames
    <3>3. CASE k = l
      BY <2>1, <2>3, <3>1, <3>3 DEF HoldsState
    <3>4. CASE k # l
      <4>1. <<i, k>> \in reg.entries
        BY <1>2, <1>3, <2>1, <3>1, <3>4 DEF Complete, PendingOf
      <4>2. ASSUME i = o.id PROVE FALSE
        <5>1. k \in o.loc \union o.from
          BY <1>2, <1>3, <3>1, <3>2, <4>2 DEF InRegistry, Alone
        <5>2. \A n : k # Pool(n)
          BY PlaceNames
        <5>. QED BY <1>2, <1>3, <2>1, <3>4, <5>1, <5>2 DEF InPlace
      <4>. QED BY <2>3, <4>1, <4>2
    <3>. QED BY <3>3, <3>4
  <2>7. \A e \in img.entries : e[2] \in made
    BY <2>2, <2>3, <2>4
  <2>. QED BY <1>1, <1>3, <2>5, <2>6, <2>7
<1>4. CASE o.op = "cleanup"
  <2>1. img.entries = {e \in reg.entries : e[1] # o.id}
    BY <1>1, <1>4, ChangedEntries DEF Without
  <2>2. Correct(img)
    BY <1>2, <2>1 DEF Correct, Keyed
  <2>3. \A e \in img.entries : e[2] \in made
    BY <1>2, <1>4, <2>1 DEF StruckOf
  <2>4. Complete(img, {})
    <3>1. SUFFICES ASSUME NEW k \in ProjectPlaces, NEW i \in Ids \ copied, HoldsState(k, i)
                   PROVE  <<i, k>> \in img.entries
      BY DEF Complete
    <3>2. <<i, k>> \in reg.entries /\ k \in Places
      BY <1>2, <1>4, <3>1, PlaceNames DEF Complete, PendingOf
    <3>3. ASSUME i = o.id PROVE FALSE
      <4>1. k \in o.loc
        BY <1>2, <1>4, <3>1, <3>2, <3>3 DEF InRegistry, Alone
      <4>2. held[k] = {}
        BY <1>2, <1>4, <4>1 DEF InRegistry
      <4>. QED BY <3>1, <4>2 DEF HoldsState
    <3>. QED BY <2>1, <3>2, <3>3
  <2>. QED BY <1>1, <1>4, <2>1, <2>2, <2>3, <2>4
<1>. QED BY <1>2, <1>3, <1>4

LEMMA LoadRight ==
    ASSUME Inv, Parts, RegistryInv, calm, NEW p \in Procs, LoadRegistry(p)
    PROVE  RegistryInv'
<1>1. PICK img, o : img = Changed(p, reg) /\ o = job[p]
  OBVIOUS
<1>2. /\ o \in Job /\ o.at = "load" /\ InRegistry(o) /\ Once /\ Correct(reg)
      /\ (\A e \in reg.entries : e[2] \in made \/ e[1] \in StruckOf(o)) /\ Complete(reg, PendingOf(o))
      /\ UNCHANGED <<held, made, reg, minted, copied>>
  BY <1>1, Lone DEF LoadRegistry, Running, disk, Inv, Jobs, Facts
<1>3. /\ Correct(img) /\ Complete(img, {}) /\ \A e \in img.entries : e[2] \in made
      /\ o.op = "cleanup" => img.entries \subseteq reg.entries
  BY <1>1, <1>2, Lone, ChangedRight
<1>4. PICK j : j = [o EXCEPT !.at = "empty", !.img = img]
  OBVIOUS
<1>5. job' = [job EXCEPT ![p] = j]
  BY <1>1, <1>4 DEF LoadRegistry, Inv, Jobs
<1>6. /\ j.op = o.op /\ j.id = o.id /\ j.loc = o.loc /\ j.from = o.from /\ j.items = o.items
      /\ j.picked = o.picked /\ j.flag = o.flag /\ j.at = "empty" /\ j.img = img
  BY <1>2, <1>4 DEF Job
<1>7. Facts(j)
  <2>1. \A c \in o.picked : o.op = "cleanup" => Agrees(img, c)
    BY <1>2, <1>3 DEF InRegistry, Agrees
  <2>2. InRegistry(j)
    BY <1>2, <1>3, <1>6, <2>1 DEF InRegistry
  <2>3. PendingOf(j) = PendingOf(o) /\ StruckOf(j) = StruckOf(o)
    BY <1>2, <1>6 DEF PendingOf, StruckOf
  <2>. QED BY <1>2, <1>6, <2>2, <2>3 DEF Facts
<1>8. Facts(j)'
  BY <1>2, <1>7 DEF Facts, Once, Correct, Keyed, OwnedBy, Complete, HoldsState, InRegistry, Alone, Agrees,
                    Minted, PendingOf, StruckOf
<1>. QED BY <1>1, <1>2, <1>5, <1>8, LoneGoes

LEMMA EmptyRight ==
    ASSUME Inv, Parts, RegistryInv, calm, NEW p \in Procs, EmptyRegistry(p)
    PROVE  RegistryInv'
<1>1. PICK o : o = job[p]
  OBVIOUS
<1>2. /\ o \in Job /\ o.at = "empty" /\ InRegistry(o) /\ Once
      /\ UNCHANGED <<held, made, minted, copied>> /\ reg' = NoImage
  BY <1>1, Lone DEF EmptyRegistry, Running, disk, Inv, Jobs, Facts
<1>3. PICK j : j = [o EXCEPT !.at = "write"]
  OBVIOUS
<1>4. job' = [job EXCEPT ![p] = j]
  BY <1>1, <1>3 DEF EmptyRegistry, Go, Inv, Jobs
<1>5. /\ j.op = o.op /\ j.id = o.id /\ j.loc = o.loc /\ j.from = o.from /\ j.items = o.items
      /\ j.picked = o.picked /\ j.flag = o.flag /\ j.at = "write" /\ j.img = o.img
  BY <1>2, <1>3 DEF Job
<1>6. reg'.entries = {}
  BY <1>2 DEF NoImage
<1>7. InRegistry(j)'
  <2>1. /\ \A i, l : HoldsState(l, i)' <=> HoldsState(l, i)
        /\ \A img : Correct(img) => Correct(img)'
        /\ \A img, pending : Complete(img, pending) => Complete(img, pending)'
        /\ \A i, places : Alone(i, places) => Alone(i, places)'
        /\ \A i : Minted(i) => Minted(i)'
    BY <1>2, SameFiles
  <2>. QED BY <1>2, <1>5, <1>6, <2>1 DEF InRegistry, Agrees
<1>8. Correct(reg)' /\ \A e \in reg'.entries : e[2] \in made' \/ e[1] \in StruckOf(j)
  BY <1>6 DEF Correct, Keyed
<1>9. Once'
  BY <1>2, SameFiles
<1>10. Facts(j)'
  BY <1>5, <1>7, <1>8, <1>9 DEF Facts
<1>. QED BY <1>1, <1>2, <1>4, <1>10, LoneGoes

LEMMA WriteRight ==
    ASSUME Inv, Parts, RegistryInv, calm, NEW p \in Procs, WriteRegistry(p)
    PROVE  RegistryInv'
<1>1. PICK o : o = job[p]
  OBVIOUS
<1>2. /\ o \in Job /\ o.at = "write" /\ InRegistry(o) /\ Once
      /\ UNCHANGED <<held, made, minted, copied>> /\ reg' = o.img
  BY <1>1, Lone DEF WriteRegistry, Running, disk, Inv, Jobs, Facts
<1>3. Correct(o.img) /\ Complete(o.img, {}) /\ \A e \in o.img.entries : e[2] \in made
  BY <1>2 DEF InRegistry
<1>4. /\ \A i, l : HoldsState(l, i)' <=> HoldsState(l, i)
      /\ \A img : Correct(img) => Correct(img)'
      /\ \A img, pending : Complete(img, pending) => Complete(img, pending)'
      /\ \A i, places : Alone(i, places) => Alone(i, places)'
      /\ \A i : Minted(i) => Minted(i)'
      /\ Once'
  BY <1>2, SameFiles
<1>5. PICK img : img = o.img
  OBVIOUS
<1>6. Correct(img)' /\ Complete(img, {})' /\ (\A e \in img.entries : e[2] \in made') /\ reg' = img
  BY <1>2, <1>3, <1>4, <1>5
<1>7. Correct(reg)' /\ Complete(reg, {})' /\ \A e \in reg'.entries : e[2] \in made'
  BY <1>6 DEF Correct, Keyed, Complete
<1>8. CASE job' = [job EXCEPT ![p] = Idle]
  <2>1. Facts(Idle)'
    BY <1>4, <1>7, IdleKnowsNothing DEF Facts, PendingOf, StruckOf
  <2>. QED BY <1>1, <1>2, <1>8, <2>1, LoneGoes
<1>9. CASE o.op = "cleanup" /\ job' = [job EXCEPT ![p].at = "next", ![p].img = NoImage]
  <2>1. PICK j : j = [o EXCEPT !.at = "next", !.img = NoImage]
    OBVIOUS
  <2>2. job' = [job EXCEPT ![p] = j]
    BY <1>1, <1>9, <2>1 DEF Inv, Jobs
  <2>3. j.op = "cleanup" /\ j.picked = o.picked /\ j.at = "next" /\ j.img = NoImage
    BY <1>2, <1>9, <2>1 DEF Job
  <2>4. \A c \in j.picked : Minted(c[1])' /\ Alone(c[1], {c[2]})' /\ Agrees(img, c) /\ Agrees(NoImage, c)
    BY <1>2, <1>4, <1>5, <1>9, <2>3 DEF InRegistry, Agrees, NoImage
  <2>5. InRegistry(j)'
    BY <1>6, <2>3, <2>4 DEF InRegistry, Agrees
  <2>6. Facts(j)'
    BY <1>4, <1>7, <2>3, <2>5 DEF Facts, PendingOf, StruckOf
  <2>. QED BY <1>1, <1>2, <2>2, <2>6, LoneGoes
<1>. QED BY <1>1, <1>8, <1>9 DEF WriteRegistry, Finish

\* A step that leaves every state.json where it is
LEMMA SameStates ==
    ASSUME UNCHANGED <<minted, copied>>,
           \A k \in Places : \A n : HoldsState(k, n)' <=> HoldsState(k, n)
    PROVE  /\ Once => Once'
           /\ \A i, places : Alone(i, places) => Alone(i, places)'
           /\ \A img, pending : Complete(img, pending) => Complete(img, pending)'
<1>1. Once => Once'
  BY DEF Once
<1>2. \A i, places : Alone(i, places) => Alone(i, places)'
  BY DEF Alone
<1>3. \A img, pending : Complete(img, pending) => Complete(img, pending)'
  BY PlaceNames DEF Complete
<1>. QED BY <1>1, <1>2, <1>3

LEMMA PutStates ==
    ASSUME Inv, NEW l \in Places, NEW f, NEW i, \A x \in held[l] : x[2] = i,
           held' = [held EXCEPT ![l] = Put(@, f, i)] \/ held' = held
    PROVE  /\ \A k \in Places : k # l => held'[k] = held[k]
           /\ f # "state" => \A k \in Places : \A n : HoldsState(k, n)' <=> HoldsState(k, n)
           /\ OwnedBy(i, l)'
<1>1. held'[l] = held[l] \/ held'[l] = Put(held[l], f, i)
  BY DEF Inv, Disk
<1>2. \A k \in Places : k # l => held'[k] = held[k]
  BY DEF Inv, Disk
<1>3. f # "state" => \A n : HoldsState(l, n)' <=> HoldsState(l, n)
  BY <1>1 DEF HoldsState, Put
<1>4. \A k \in Places : k # l => \A n : HoldsState(k, n)' <=> HoldsState(k, n)
  BY <1>2 DEF HoldsState
<1>5. OwnedBy(i, l)'
  BY <1>1 DEF OwnedBy, Put
<1>. QED BY <1>2, <1>3, <1>4, <1>5

LEMMA CorrectStays ==
    ASSUME Correct(reg), reg' = reg, \A e \in reg.entries : OwnedBy(e[1], e[2])'
    PROVE  Correct(reg)'
BY DEF Correct, Keyed

LEMMA MkdirRight ==
    ASSUME Inv, Parts, RegistryInv, calm, NEW p \in Procs, MakeMetadataDir(p)
    PROVE  RegistryInv'
<1>1. PICK o : o = job[p]
  OBVIOUS
<1>2. /\ o \in Job /\ o.op = "init" /\ o.at = "mkdir" /\ InRegistry(o) /\ Once /\ Correct(reg)
      /\ (\A e \in reg.entries : e[2] \in made \/ e[1] \in StruckOf(o)) /\ Complete(reg, PendingOf(o))
      /\ UNCHANGED <<reg, minted, copied>> /\ made' = made \union o.loc
  BY <1>1, Lone DEF MakeMetadataDir, Step, Running, Inv, Jobs, Facts
<1>3. PICK l \in Places : l = TheLoc(p) /\ o.loc = {l} /\ \A x \in held[l] : x[2] = o.id
  BY <1>1, <1>2, OwnPlace
<1>4. held' = [held EXCEPT ![l] = Put(@, "docs", o.id)] \/ held' = held
  BY <1>1, <1>3 DEF MakeMetadataDir
<1>5. /\ \A k \in Places : k # l => held'[k] = held[k]
      /\ \A k \in Places : \A n : HoldsState(k, n)' <=> HoldsState(k, n)
  <2>1. CASE held' = held
    BY <2>1 DEF HoldsState
  <2>2. CASE held' = [held EXCEPT ![l] = Put(@, "docs", o.id)]
    <3>1. PICK f : f = "docs" /\ f # "state"
      OBVIOUS
    <3>2. held' = [held EXCEPT ![l] = Put(@, f, o.id)]
      BY <2>2, <3>1
    <3>. QED BY <1>3, <3>1, <3>2, PutStates DEF HoldsState
  <2>. QED BY <1>4, <2>1, <2>2
<1>6. PICK j : j = [o EXCEPT !.at = "state"]
  OBVIOUS
<1>7. job' = [job EXCEPT ![p] = j]
  BY <1>1, <1>6 DEF MakeMetadataDir, Go, Inv, Jobs
<1>8. j.op = "init" /\ j.id = o.id /\ j.loc = o.loc /\ j.from = o.from /\ j.at = "state"
  BY <1>2, <1>6 DEF Job
<1>9. \A e \in reg.entries : e[2] \notin o.loc /\ e[2] \in Places /\ OwnedBy(e[1], e[2])
  BY <1>2, PlaceNames DEF InRegistry, Correct
<1>10. Correct(reg)'
  <2>1. \A e \in reg.entries : OwnedBy(e[1], e[2])'
    BY <1>3, <1>5, <1>9 DEF OwnedBy
  <2>. QED BY <1>2, <2>1, CorrectStays
<1>11. Once' /\ Alone(o.id, o.loc \union o.from)' /\ Complete(reg, o.loc)'
  <2>1. PICK img : img = reg
    OBVIOUS
  <2>2. Once' /\ Alone(o.id, o.loc \union o.from)' /\ Complete(img, o.loc)'
    BY <1>2, <1>5, <2>1, SameStates DEF InRegistry, PendingOf
  <2>. QED BY <1>2, <2>1, <2>2 DEF Complete
<1>12. InRegistry(j)'
  BY <1>2, <1>8, <1>9, <1>11 DEF InRegistry
<1>13. Facts(j)'
  BY <1>2, <1>8, <1>10, <1>11, <1>12 DEF Facts, PendingOf, StruckOf
<1>. QED BY <1>1, <1>2, <1>7, <1>13, LoneGoes

LEMMA WriteStateRight ==
    ASSUME Inv, Parts, RegistryInv, calm, NEW p \in Procs, WriteState(p)
    PROVE  RegistryInv'
<1>1. PICK o : o = job[p]
  OBVIOUS
<1>2. /\ o \in Job /\ o.op = "init" /\ o.at = "state" /\ InRegistry(o) /\ InPlace(o) /\ Once /\ Correct(reg)
      /\ (\A e \in reg.entries : e[2] \in made \/ e[1] \in StruckOf(o)) /\ Complete(reg, PendingOf(o))
      /\ UNCHANGED <<reg, minted, copied>> /\ made' = made \union o.loc
  BY <1>1, Lone DEF WriteState, Step, Running, Inv, Jobs, Facts, Parts
<1>3. PICK l \in Places : l = TheLoc(p) /\ o.loc = {l} /\ \A x \in held[l] : x[2] = o.id
  BY <1>1, <1>2, OwnPlace
<1>4. held' = [held EXCEPT ![l] = Put(@, "state", o.id)]
  BY <1>1, <1>3 DEF WriteState
<1>5. /\ \A k \in Places : k # l => held'[k] = held[k]
      /\ \A k \in Places : \A n : k # l \/ n # o.id => (HoldsState(k, n)' <=> HoldsState(k, n))
  <2>1. \A k \in Places : k # l => held'[k] = held[k]
    BY <1>4 DEF Inv, Disk
  <2>2. held'[l] = Put(held[l], "state", o.id)
    BY <1>4 DEF Inv, Disk
  <2>3. \A n : n # o.id => ~HoldsState(l, n)' /\ ~HoldsState(l, n)
    BY <1>3, <2>2 DEF HoldsState, Put
  <2>. QED BY <2>1, <2>3 DEF HoldsState
<1>6. PICK j : j = [o EXCEPT !.at = "load"]
  OBVIOUS
<1>7. job' = [job EXCEPT ![p] = j]
  BY <1>1, <1>6 DEF WriteState, Go, Inv, Jobs
<1>8. j.op = "init" /\ j.id = o.id /\ j.loc = {l} /\ j.from = {} /\ j.at = "load"
  BY <1>2, <1>3, <1>6 DEF Job, InPlace
<1>9. \A e \in reg.entries : e[2] # l /\ e[2] \in Places /\ OwnedBy(e[1], e[2])
  BY <1>2, <1>3, PlaceNames DEF InRegistry, Correct
<1>10. Correct(reg)'
  <2>1. \A e \in reg.entries : OwnedBy(e[1], e[2])'
    BY <1>5, <1>9 DEF OwnedBy
  <2>. QED BY <1>2, <2>1, CorrectStays
<1>11. o.id \in copied \/ \A k \in Places : HoldsState(k, o.id)' => k = l
  BY <1>2, <1>3, <1>5 DEF InRegistry, InPlace, Alone
<1>12. Once'
  BY <1>2, <1>5, <1>11 DEF Once
<1>13. Alone(o.id, {l})'
  BY <1>2, <1>11 DEF Alone
<1>14. Complete(reg, {l})'
  <2>1. Complete(reg, {l})
    BY <1>2, <1>3 DEF PendingOf
  <2>. QED BY <1>2, <1>5, <2>1, PlaceNames DEF Complete
<1>15. InRegistry(j)'
  BY <1>2, <1>8, <1>9, <1>13 DEF InRegistry
<1>16. Facts(j)'
  BY <1>2, <1>8, <1>10, <1>12, <1>14, <1>15 DEF Facts, PendingOf, StruckOf
<1>. QED BY <1>1, <1>2, <1>7, <1>16, LoneGoes

\* A command inside a workspace leaves the registry as right as it was.
LEMMA InsideRight ==
    ASSUME Inv, Parts, RegistryInv, calm, NEW p \in Procs,
           (\E f \in Files : Produce(p, f)) \/ SaveState(p)
    PROVE  RegistryInv'
<1>1. PICK o : o = job[p]
  OBVIOUS
<1>2. /\ o \in Job /\ o.op \in {"flag", "work"} /\ o.at \in {"work", "save"} /\ InRegistry(o) /\ Once
      /\ Correct(reg) /\ (\A e \in reg.entries : e[2] \in made \/ e[1] \in StruckOf(o))
      /\ Complete(reg, PendingOf(o)) /\ UNCHANGED <<reg, minted, copied>> /\ made' = made \union o.loc
  <2>1. job[p].op \in {"flag", "work"} /\ job[p].at \in {"work", "save"}
    BY DEF Produce, SaveState, Step, Inv, Jobs, Targeted
  <2>2. Facts(job[p])
    BY <2>1, Lone
  <2>. QED BY <1>1, <2>1, <2>2 DEF Produce, SaveState, Running, Inv, Jobs, Facts
<1>3. PICK l \in Places : /\ l = TheLoc(p) /\ o.loc = {l} /\ o.id \in Ids
                          /\ \A x \in held[l] : x[2] = o.id
  BY <1>1, <1>2, OwnPlace
<1>4. PICK f : held' = [held EXCEPT ![l] = Put(@, f, o.id)] /\ (f = "state" <=> SaveState(p))
  <2>1. CASE SaveState(p)
    BY <1>1, <1>3, <2>1 DEF SaveState
  <2>2. CASE ~SaveState(p)
    BY <1>1, <1>3, <2>2 DEF Produce
  <2>. QED BY <2>1, <2>2
<1>5. HoldsState(l, o.id)
  BY <1>2, <1>3 DEF InRegistry
<1>6. /\ \A k \in Places : k # l => held'[k] = held[k]
      /\ OwnedBy(o.id, l)'
  BY <1>3, <1>4, PutStates
<1>7. \A k \in Places : \A n : HoldsState(k, n)' <=> HoldsState(k, n)
  <2>1. CASE f # "state"
    BY <1>3, <1>4, <2>1, PutStates DEF HoldsState
  <2>2. CASE f = "state"
    <3>1. held'[l] = Put(held[l], "state", o.id)
      BY <1>4, <2>2 DEF Inv, Disk
    <3>2. \A n : HoldsState(l, n)' <=> n = o.id
      BY <1>3, <3>1 DEF HoldsState, Put
    <3>3. \A n : HoldsState(l, n) <=> n = o.id
      BY <1>3, <1>5 DEF HoldsState
    <3>. QED BY <1>6, <3>2, <3>3 DEF HoldsState
  <2>. QED BY <2>1, <2>2
<1>8. Correct(reg)'
  <2>1. ASSUME NEW e \in reg.entries PROVE OwnedBy(e[1], e[2])'
    <3>1. e[2] \in Places /\ OwnedBy(e[1], e[2])
      BY <1>2, PlaceNames DEF Correct
    <3>2. CASE e[2] = l
      <4>1. HoldsState(l, e[1])
        BY <1>2, <1>5, <3>2, EntryOwner, HoldsHas DEF Parts
      <4>2. e[1] = o.id
        BY <1>3, <4>1 DEF HoldsState
      <4>. QED BY <1>6, <3>2, <4>2 DEF OwnedBy
    <3>3. CASE e[2] # l
      BY <1>6, <3>1, <3>3 DEF OwnedBy
    <3>. QED BY <3>2, <3>3
  <2>. QED BY <1>2, <2>1, CorrectStays
<1>9. Once' /\ Complete(reg, {})'
  <2>1. PICK img : img = reg
    OBVIOUS
  <2>2. Once' /\ Complete(img, {})'
    BY <1>2, <1>7, <2>1, SameStates DEF PendingOf
  <2>. QED BY <1>2, <2>1, <2>2 DEF Complete
<1>10. \A e \in reg'.entries : e[2] \in made'
  BY <1>2 DEF StruckOf
<1>11. CASE SaveState(p)
  <2>1. Facts(Idle)'
    BY <1>8, <1>9, <1>10, IdleKnowsNothing DEF Facts, PendingOf, StruckOf
  <2>. QED BY <1>1, <1>2, <1>11, <2>1, LoneGoes DEF SaveState, Finish
<1>12. CASE ~SaveState(p)
  <2>1. PICK j : j = [o EXCEPT !.at = "save"]
    OBVIOUS
  <2>2. job' = [job EXCEPT ![p] = j]
    BY <1>1, <1>12, <2>1 DEF Produce, Go, Inv, Jobs
  <2>3. j.op \in {"flag", "work"} /\ j.id = o.id /\ j.loc = {l} /\ j.at = "save"
    BY <1>2, <1>3, <2>1 DEF Job
  <2>4. InRegistry(j)'
    BY <1>5, <1>7, <2>3 DEF InRegistry
  <2>5. Facts(j)'
    BY <1>8, <1>9, <1>10, <2>3, <2>4 DEF Facts, PendingOf, StruckOf
  <2>. QED BY <1>1, <1>2, <2>2, <2>5, LoneGoes
<1>. QED BY <1>11, <1>12

LEMMA DestinationRight ==
    ASSUME Inv, Parts, RegistryInv, calm, NEW p \in Procs, MakeDestination(p)
    PROVE  RegistryInv'
<1>1. PICK o : o = job[p]
  OBVIOUS
<1>2. /\ o \in Job /\ o.op = "migrate" /\ o.at = "mkdir" /\ InRegistry(o) /\ InPlace(o) /\ Once /\ Correct(reg)
      /\ (\A e \in reg.entries : e[2] \in made \/ e[1] \in StruckOf(o)) /\ Complete(reg, PendingOf(o))
      /\ UNCHANGED <<held, reg, minted, copied>> /\ made' = made \union o.loc
  BY <1>1, Lone DEF MakeDestination, Step, Running, Inv, Jobs, Facts, Parts
<1>3. /\ \A i, l : HoldsState(l, i)' <=> HoldsState(l, i)
      /\ \A img : Correct(img) => Correct(img)'
      /\ \A img, pending : Complete(img, pending) => Complete(img, pending)'
      /\ \A i, places : Alone(i, places) => Alone(i, places)'
      /\ Once'
  BY <1>2, SameFiles
<1>4. Correct(reg)' /\ \A pending : Complete(reg, pending) => Complete(reg, pending)'
  <2>1. PICK img : img = reg
    OBVIOUS
  <2>2. Correct(img)' /\ \A pending : Complete(img, pending) => Complete(img, pending)'
    BY <1>2, <1>3, <2>1
  <2>. QED BY <1>2, <2>1, <2>2 DEF Correct, Keyed, Complete
<1>5. \A e \in reg'.entries : e[2] \in made'
  BY <1>2 DEF StruckOf
<1>6. CASE Finish(p)
  <2>1. \A l \in o.loc : l \in ProjectPlaces /\ held[l] = {}
    BY <1>2, PlaceNames DEF InPlace, Parts, OneOwner
  <2>2. Complete(reg, {})
    BY <1>2, <2>1 DEF Complete, HoldsState, PendingOf
  <2>3. Facts(Idle)'
    BY <1>3, <1>4, <1>5, <2>2, IdleKnowsNothing DEF Facts, PendingOf, StruckOf
  <2>. QED BY <1>1, <1>2, <1>6, <2>3, LoneGoes DEF Finish
<1>7. CASE ~Finish(p)
  <2>1. PICK items : items = held[Pool(o.id)]
    OBVIOUS
  <2>2. PICK at \in {"load", "place"} : at = IF items = {} THEN "load" ELSE "place"
    OBVIOUS
  <2>3. PICK j : j = [o EXCEPT !.at = at, !.items = items]
    OBVIOUS
  <2>4. job' = [job EXCEPT ![p] = j]
    BY <1>1, <1>7, <2>1, <2>2, <2>3 DEF MakeDestination, Inv, Jobs
  <2>5. /\ j.op = "migrate" /\ j.id = o.id /\ j.loc = o.loc /\ j.from = o.from /\ j.flag = o.flag
        /\ j.items = items /\ j.at \in {"load", "place"}
    BY <1>2, <2>3 DEF Job
  <2>6. InRegistry(j)'
    BY <1>2, <1>3, <2>1, <2>5 DEF InRegistry
  <2>7. Facts(j)'
    BY <1>2, <1>3, <1>4, <1>5, <2>5, <2>6 DEF Facts, PendingOf, StruckOf
  <2>. QED BY <1>1, <1>2, <2>4, <2>7, LoneGoes
<1>. QED BY <1>6, <1>7

LEMMA PlaceRight ==
    ASSUME Inv, Parts, RegistryInv, calm, NEW p \in Procs, NEW x \in job[p].items, PlaceItem(p, x)
    PROVE  RegistryInv'
<1>1. PICK o : o = job[p]
  OBVIOUS
<1>2. /\ o \in Job /\ o.op = "migrate" /\ o.at = "place" /\ InRegistry(o) /\ InPlace(o) /\ Once /\ Correct(reg)
      /\ (\A e \in reg.entries : e[2] \in made \/ e[1] \in StruckOf(o)) /\ Complete(reg, PendingOf(o))
      /\ UNCHANGED <<made, reg, minted, copied>>
  BY <1>1, Lone DEF PlaceItem, Step, Running, disk, Inv, Jobs, Facts, Parts
<1>3. PICK l \in Places, i \in Ids :
          /\ l = TheLoc(p) /\ i = o.id /\ o.loc = {l} /\ \A y \in held[l] : y[2] = i
  BY <1>1, <1>2, OwnPlace
<1>4. PICK src \in Places : src = Pool(i) /\ o.from = {src}
  BY <1>2, <1>3, PlaceNames DEF InPlace
<1>5. l \in ProjectPlaces /\ l # src /\ x[2] = i /\ x = <<x[1], i>> /\ src \notin ProjectPlaces
  BY <1>1, <1>2, <1>3, <1>4, PlaceNames, ItemType DEF InPlace
<1>6. x \in held[src]
  BY <1>1, <1>2, <1>3, <1>4 DEF InRegistry
<1>7. PICK j : j = [o EXCEPT !.items = @ \ {x}, !.at = IF o.items = {x} THEN "load" ELSE "place"]
  OBVIOUS
<1>8. job' = [job EXCEPT ![p] = j]
  BY <1>1, <1>3, <1>4, <1>6, <1>7 DEF PlaceItem, Inv, Jobs
<1>9. /\ j.op = "migrate" /\ j.id = i /\ j.loc = {l} /\ j.from = {src} /\ j.flag = o.flag
      /\ j.items = o.items \ {x} /\ j.at \in {"load", "place"}
  BY <1>2, <1>3, <1>4, <1>7 DEF Job
<1>10. /\ \A k \in Places : k # l /\ k # src => held'[k] = held[k]
       /\ \/ held'[l] = held[l] /\ held'[src] = held[src]
          \/ /\ held'[l] = IF IsMetadata(x[1]) THEN Put(held[l], x[1], x[2]) ELSE held[l]
             /\ held'[src] = IF o.flag THEN held[src] \ {x} ELSE held[src]
  <2>1. CASE Free(x[1], l)
    <3>1. held' = [held EXCEPT ![l] = IF IsMetadata(x[1]) THEN Put(@, x[1], x[2]) ELSE @,
                               ![src] = IF o.flag THEN held[src] \ {x} ELSE held[src]]
      <4>1. PlaceItem(p, x) /\ l = TheLoc(p) /\ src = Pool(job[p].id) /\ o = job[p]
        BY <1>1, <1>3, <1>4
      <4>. QED BY <4>1, <1>6, <2>1, ZenonT(30) DEF PlaceItem
    <3>. QED BY <1>5, <3>1 DEF Inv, Disk
  <2>2. CASE ~Free(x[1], l)
    <3>1. held' = held
      BY <1>1, <1>3, <1>4, <1>6, <2>2 DEF PlaceItem
    <3>. QED BY <3>1
  <2>. QED BY <2>1, <2>2
<1>11. /\ \A k \in Places : \A n : n # i => (HoldsState(k, n)' <=> HoldsState(k, n))
       /\ \A k \in Places : k # l => (HoldsState(k, i)' => HoldsState(k, i))
       /\ HoldsState(l, i)' => HoldsState(l, i) \/ (HoldsState(src, i) /\ (i \in copied \/ ~HoldsState(src, i)'))
  <2>1. \A y \in held[src] : y[2] = i
    BY <1>4 DEF Parts, OneOwner, OwnedBy
  <2>2. \A n : n # i => ~HoldsState(l, n)' /\ ~HoldsState(l, n) /\ ~HoldsState(src, n)' /\ ~HoldsState(src, n)
    BY <1>3, <1>5, <1>10, <2>1 DEF HoldsState, Put
  <2>3. \A k \in Places : k # l => (HoldsState(k, i)' => HoldsState(k, i))
    BY <1>10 DEF HoldsState
  <2>4. HoldsState(l, i)' => HoldsState(l, i) \/ (HoldsState(src, i) /\ (i \in copied \/ ~HoldsState(src, i)'))
    <3>1. o.flag \/ i \in copied
      BY <1>2, <1>3 DEF InRegistry
    <3>2. ASSUME HoldsState(l, i)', ~HoldsState(l, i)
          PROVE  x = <<"state", i>> /\ held'[src] = IF o.flag THEN held[src] \ {x} ELSE held[src]
      BY <1>5, <1>10, <3>2 DEF HoldsState, Put
    <3>. QED BY <1>6, <3>1, <3>2 DEF HoldsState
  <2>. QED BY <1>10, <2>2, <2>3, <2>4 DEF HoldsState
<1>12. i \in copied \/ \A k \in Places : HoldsState(k, i)' => k = l \/ k = src
  BY <1>2, <1>3, <1>4, <1>11 DEF InRegistry, Alone
<1>13. Once'
  <2>1. \A k, m \in Places : i \notin copied /\ HoldsState(k, i)' /\ HoldsState(m, i)' => k = m
    <3>1. i \notin copied => ~(HoldsState(l, i)' /\ HoldsState(src, i)')
      BY <1>2, <1>3, <1>5, <1>11 DEF Once
    <3>. QED BY <1>12, <3>1
  <2>. QED BY <1>2, <1>11, <2>1 DEF Once
<1>14. Correct(reg)'
  <2>1. \A e \in reg.entries : e[2] # l /\ e[2] # src /\ e[2] \in Places /\ OwnedBy(e[1], e[2])
    BY <1>2, <1>3, <1>5, PlaceNames DEF InRegistry, Correct
  <2>2. \A e \in reg.entries : OwnedBy(e[1], e[2])'
    BY <1>10, <2>1 DEF OwnedBy
  <2>. QED BY <1>2, <2>2, CorrectStays
<1>15. Complete(reg, {l})'
  <2>1. Complete(reg, {l})
    BY <1>2, <1>3 DEF PendingOf
  <2>2. \A k \in ProjectPlaces : \A n : k # l => (HoldsState(k, n)' => HoldsState(k, n))
    BY <1>11, PlaceNames
  <2>. QED BY <1>2, <2>1, <2>2 DEF Complete
<1>16. InRegistry(j)'
  <2>1. Alone(i, {l, src})'
    BY <1>2, <1>12 DEF Alone
  <2>2. {l} \union {src} = {l, src}
    OBVIOUS
  <2>3. o.items \ {x} \subseteq held'[src]
    BY <1>2, <1>3, <1>4, <1>10 DEF InRegistry
  <2>. QED BY <1>2, <1>3, <1>4, <1>9, <2>1, <2>2, <2>3 DEF InRegistry
<1>17. Facts(j)'
  BY <1>2, <1>9, <1>13, <1>14, <1>15, <1>16 DEF Facts, PendingOf, StruckOf
<1>. QED BY <1>1, <1>2, <1>8, <1>17, LoneGoes

LEMMA TakeRight ==
    ASSUME Inv, Parts, RegistryInv, calm, NEW p \in Procs, NEW c \in job[p].picked, TakeCandidate(p, c)
    PROVE  RegistryInv'
<1>1. PICK o : o = job[p]
  OBVIOUS
<1>2. /\ o \in Job /\ o.op = "cleanup" /\ o.at = "next" /\ InRegistry(o) /\ Once /\ Correct(reg)
      /\ (\A e \in reg.entries : e[2] \in made \/ e[1] \in StruckOf(o)) /\ Complete(reg, PendingOf(o))
      /\ UNCHANGED <<held, made, reg, minted, copied>> /\ c \in o.picked
  BY <1>1, Lone DEF TakeCandidate, Step, Running, disk, Inv, Jobs, Facts
<1>3. c[2] \in Places
  BY <1>2 DEF Job
<1>4. PICK at \in {"remove", "load"} : at = IF c[2] \in made THEN "remove" ELSE "load"
  OBVIOUS
<1>5. PICK j : j = [o EXCEPT !.picked = @ \ {c}, !.id = c[1], !.loc = {c[2]}, !.at = at]
  OBVIOUS
<1>6. job' = [job EXCEPT ![p] = j]
  BY <1>1, <1>4, <1>5 DEF TakeCandidate, Inv, Jobs
<1>7. /\ j.op = "cleanup" /\ j.id = c[1] /\ j.loc = {c[2]} /\ j.picked = o.picked \ {c} /\ j.at = at
      /\ j.img = o.img
  BY <1>2, <1>5 DEF Job
<1>8. at = "load" => held[c[2]] = {}
  BY <1>3, <1>4 DEF Parts, OneOwner
<1>9. Facts(j)
  <2>1. Minted(c[1]) /\ Alone(c[1], {c[2]}) /\ Agrees(reg, <<c[1], c[2]>>)
    BY <1>2 DEF InRegistry, Agrees
  <2>2. InRegistry(j)
    BY <1>2, <1>7, <1>8, <2>1 DEF InRegistry
  <2>. QED BY <1>2, <1>7, <2>2 DEF Facts, PendingOf, StruckOf
<1>10. Facts(j)'
  BY <1>2, <1>9 DEF Facts, Once, Correct, Keyed, OwnedBy, Complete, HoldsState, InRegistry, Alone, Agrees,
                    Minted, PendingOf, StruckOf
<1>. QED BY <1>1, <1>2, <1>6, <1>10, LoneGoes

LEMMA RemoveRight ==
    ASSUME Inv, Parts, RegistryInv, calm, NEW p \in Procs,
           RemoveDir(p) \/ \E l \in job[p].loc : \E rest \in SUBSET held[l] : RemoveFails(p, rest)
    PROVE  RegistryInv'
<1>1. PICK o : o = job[p]
  OBVIOUS
<1>2. /\ o \in Job /\ o.op = "cleanup" /\ o.at = "remove" /\ InRegistry(o) /\ InPlace(o) /\ Once /\ Correct(reg)
      /\ (\A e \in reg.entries : e[2] \in made \/ e[1] \in StruckOf(o)) /\ Complete(reg, PendingOf(o))
      /\ UNCHANGED <<reg, minted, copied>>
  BY <1>1, Lone DEF RemoveDir, RemoveFails, Step, Running, Inv, Jobs, Facts, Parts
<1>3. PICK l \in Places : o.loc = {l} /\ l = TheLoc(p)
  BY <1>1, <1>2, TheLocIs DEF InPlace
<1>4. PICK S \in SUBSET held[l] :
          /\ held' = [held EXCEPT ![l] = S]
          /\ made' = made \/ (RemoveDir(p) /\ made' = made \ {l} /\ S = {})
  BY <1>1, <1>3 DEF RemoveDir, RemoveFails
<1>5. held'[l] = S /\ \A k \in Places : held'[k] \subseteq held[k]
  BY <1>4 DEF Inv, Disk
<1>6. /\ \A k \in Places : \A n : HoldsState(k, n)' => HoldsState(k, n)
      /\ \A k \in Places : \A n : OwnedBy(n, k) => OwnedBy(n, k)'
  BY <1>5 DEF HoldsState, OwnedBy
<1>7. Once'
  BY <1>2, <1>6 DEF Once
<1>8. Correct(reg)'
  <2>1. \A e \in reg.entries : OwnedBy(e[1], e[2])'
    BY <1>2, <1>6, PlaceNames DEF Correct
  <2>. QED BY <1>2, <2>1, CorrectStays
<1>9. Complete(reg, {})'
  <2>1. Complete(reg, {})
    BY <1>2 DEF PendingOf
  <2>. QED BY <1>2, <1>6, <2>1, PlaceNames DEF Complete
<1>10. \A i, places : Alone(i, places) => Alone(i, places)'
  BY <1>2, <1>6 DEF Alone
<1>11. \A c \in o.picked :
          Minted(c[1])' /\ Alone(c[1], {c[2]})' /\ Agrees(reg, c)' /\ Agrees(o.img, c)
  BY <1>2, <1>10 DEF InRegistry, Agrees, Minted
<1>12. CASE RemoveDir(p) /\ ~Finish(p) /\ job[p].at = "remove"
  <2>1. PICK j : j = [o EXCEPT !.at = "load"]
    OBVIOUS
  <2>2. job' = [job EXCEPT ![p] = j]
    BY <1>1, <1>12, <2>1 DEF RemoveDir, Go, Inv, Jobs
  <2>3. /\ j.op = "cleanup" /\ j.id = o.id /\ j.loc = {l} /\ j.picked = o.picked /\ j.at = "load"
        /\ j.img = o.img
    BY <1>2, <1>3, <2>1 DEF Job
  <2>4. held'[l] = {}
    BY <1>3, <1>12 DEF RemoveDir, Inv, Disk
  <2>5. Alone(o.id, {l})' /\ Minted(o.id)'
    BY <1>2, <1>3, <1>10 DEF InRegistry, Minted
  <2>6. InRegistry(j)'
    BY <1>11, <2>3, <2>4, <2>5 DEF InRegistry, Agrees
  <2>7. \A e \in reg'.entries : e[2] \in made' \/ e[1] = o.id
    <3>1. Agrees(reg, <<o.id, l>>)
      BY <1>2, <1>3 DEF InRegistry
    <3>2. \A e \in reg.entries : e[2] = l => e[1] = o.id
      BY <3>1 DEF Agrees
    <3>. QED BY <1>2, <1>4, <3>2 DEF StruckOf
  <2>8. Facts(j)'
    BY <1>7, <1>8, <1>9, <2>3, <2>6, <2>7 DEF Facts, PendingOf, StruckOf
  <2>. QED BY <1>1, <1>2, <2>2, <2>8, LoneGoes
<1>13. CASE ~RemoveDir(p)
  <2>1. \A e \in reg'.entries : e[2] \in made'
    BY <1>2, <1>4, <1>13 DEF StruckOf
  <2>2. CASE Finish(p)
    <3>1. Facts(Idle)'
      BY <1>7, <1>8, <1>9, <2>1, IdleKnowsNothing DEF Facts, PendingOf, StruckOf
    <3>. QED BY <1>1, <1>2, <2>2, <3>1, LoneGoes DEF Finish
  <2>3. CASE ~Finish(p)
    <3>1. PICK j : j = [o EXCEPT !.at = "next"]
      OBVIOUS
    <3>2. job' = [job EXCEPT ![p] = j]
      BY <1>1, <1>13, <2>3, <3>1 DEF RemoveFails, Go, Inv, Jobs
    <3>3. j.op = "cleanup" /\ j.picked = o.picked /\ j.at = "next" /\ j.img = o.img
      BY <1>2, <3>1 DEF Job
    <3>4. InRegistry(j)'
      BY <1>11, <3>3 DEF InRegistry, Agrees
    <3>5. Facts(j)'
      BY <1>7, <1>8, <1>9, <2>1, <3>3, <3>4 DEF Facts, PendingOf, StruckOf
    <3>. QED BY <1>1, <1>2, <3>2, <3>5, LoneGoes
  <2>. QED BY <2>2, <2>3
<1>14. RemoveDir(p) => ~Finish(p)
  <2>1. SUFFICES ASSUME RemoveDir(p), Finish(p) PROVE FALSE
    OBVIOUS
  <2>2. job'[p] = Idle /\ job'[p] = [job[p] EXCEPT !.at = "load"]
    BY <2>1 DEF RemoveDir, Finish, Go, Inv, Jobs
  <2>3. job'[p].at = "load"
    BY <1>1, <1>2, <2>2 DEF Job
  <2>. QED BY <2>2, <2>3 DEF Idle
<1>. QED BY <1>1, <1>2, <1>12, <1>13, <1>14

LEMMA RegistryInvNext ==
    ASSUME Inv, PlaceInv, RegistryInv, [Next]_vars
    PROVE  RegistryInv'
<1>. SUFFICES ASSUME calm' PROVE RegistryInv'
  BY DEF RegistryInv
<1>1. CASE UNCHANGED vars
  <2>1. UNCHANGED <<made, held, reg, job, minted, calm, copied>>
    BY <1>1 DEF vars, disk
  <2>2. calm
    BY <2>1
  <2>3. Pending' = Pending /\ Struck' = Struck
    BY <2>1 DEF Pending, Struck
  <2>4. \A j : InRegistry(j) => InRegistry(j)'
    BY <2>1 DEF InRegistry, Correct, Keyed, OwnedBy, Complete, HoldsState, Alone, Agrees, Minted
  <2>5. \A p \in Procs : InRegistry(job[p])'
    <3>1. ASSUME NEW p \in Procs PROVE InRegistry(job[p])'
      <4>1. PICK j : j = job[p]
        OBVIOUS
      <4>2. InRegistry(j)'
        BY <2>2, <2>4, <4>1 DEF RegistryInv
      <4>. QED BY <2>1, <4>1, <4>2 DEF InRegistry
    <3>. QED BY <3>1
  <2>. QED BY <2>1, <2>2, <2>3, <2>5 DEF RegistryInv, Correct, Keyed, OwnedBy, Complete, HoldsState, Busy
<1>2. CASE ~UNCHANGED vars
  <2>1. PICK p \in Procs : Command(p) \/ Continue(p) \/ Kill(p)
    BY <1>2 DEF Next, Rest
  <2>2. calm /\ Parts
    <3>1. calm
      <4>1. Command(p) => calm
        BY ZenonT(30) DEF Command, Use, New, Prune, StartInit, StartMigrate, StartCleanup, StartWork,
                          StartFlag, Start
      <4>2. Continue(p) => calm
        BY ZenonT(30) DEF Continue, LoadRegistry, EmptyRegistry, WriteRegistry, MakeMetadataDir,
                          WriteState, MakeDestination, PlaceItem, TakeCandidate, RemoveDir,
                          RemoveFails, Produce, SaveState, Running
      <4>3. ~Kill(p)
        BY DEF Kill
      <4>. QED BY <2>1, <4>1, <4>2, <4>3
    <3>. QED BY <3>1 DEF PlaceInv, Parts, Quiet
  <2>3. CASE Command(p)
    BY <2>2, <2>3, CommandShape, NewRegistry, StartRegistry
  <2>4. CASE Continue(p)
    BY <2>2, <2>4, LoadRight, EmptyRight, WriteRight, MkdirRight, WriteStateRight, InsideRight,
       DestinationRight, PlaceRight, TakeRight, RemoveRight DEF Continue
  <2>. QED BY <2>1, <2>3, <2>4 DEF Kill
<1>. QED BY <1>1, <1>2

LEMMA RegistryInvInit == Init => RegistryInv
<1>. SUFFICES ASSUME Init PROVE RegistryInv
  OBVIOUS
<1>1. PICK old, all : /\ old = {<<s[1], Project(s[2])>> : s \in Settled}
                      /\ all = old \union {<<i, Pool(i)>> : i \in PoolIds}
  OBVIOUS
<1>2. /\ made = {w[2] : w \in all} /\ copied = {} /\ reg.entries = old
      /\ held = [l \in Places |-> (IF l \in ProjectPlaces THEN {"state"} ELSE Files \ {"link"})
                                       \X {w[1] : w \in {v \in all : v[2] = l}}]
      /\ \A p \in Procs : job[p] = Idle
  BY <1>1 DEF Init
<1>3. \A w \in old : w = <<w[1], w[2]>> /\ w[2] \in ProjectPlaces /\ w[1] \notin PoolIds
  BY <1>1, WorkspacesAssumption, PlaceNames
<1>4. \A v, w \in all : v[1] = w[1] \/ v[2] = w[2] => v = w
  <2>1. \A v, w \in old : v[1] = w[1] \/ v[2] = w[2] => v = w
    <3>1. ASSUME NEW s \in Settled, NEW r \in Settled, s[1] = r[1] \/ Project(s[2]) = Project(r[2])
          PROVE  s = r
      BY <3>1, WorkspacesAssumption DEF Project
    <3>. QED BY <1>1, <3>1
  <2>2. \A v \in old, i \in PoolIds : v[2] # Pool(i) /\ v[1] # i
    BY <1>3, PlaceNames
  <2>3. \A i, k \in PoolIds : Pool(i) = Pool(k) => i = k
    BY PlaceNames
  <2>. QED BY <1>1, <2>1, <2>2, <2>3
<1>5. \A l \in Places : \A i : HoldsState(l, i) => \E v \in all : v[2] = l /\ v[1] = i
  BY <1>2 DEF HoldsState
<1>6. Once
  BY <1>4, <1>5 DEF Once
<1>7. Correct(reg)
  <2>1. \A l \in Places : \A x \in held[l] : \E v \in all : v[2] = l /\ v[1] = x[2]
    BY <1>2
  <2>2. ASSUME NEW e \in old PROVE OwnedBy(e[1], e[2])
    <3>1. e \in all /\ e[2] \in Places
      BY <1>1, <1>3, PlaceNames
    <3>. QED BY <1>4, <2>1, <3>1 DEF OwnedBy
  <2>3. Keyed(reg)
    BY <1>1, <1>2, <1>4 DEF Keyed
  <2>. QED BY <1>2, <1>3, <2>2, <2>3 DEF Correct
<1>8. \A e \in reg.entries : e[2] \in made
  BY <1>1, <1>2
<1>9. Complete(reg, {})
  <2>1. \A w \in all : w[2] \in ProjectPlaces => w \in old
    BY <1>1, PlaceNames
  <2>2. ASSUME NEW l \in ProjectPlaces, NEW i \in Ids, HoldsState(l, i) PROVE <<i, l>> \in reg.entries
    <3>1. PICK v \in all : v[2] = l /\ v[1] = i
      BY <1>5, <2>2, PlaceNames
    <3>. QED BY <1>2, <1>3, <2>1, <3>1
  <2>. QED BY <2>2 DEF Complete
<1>10. Pending = {}
  BY <1>2 DEF Pending, Idle
<1>11. \A p \in Procs : InRegistry(job[p]) /\ ~Busy(p)
  BY <1>2, IdleKnowsNothing DEF Busy
<1>. QED BY <1>6, <1>7, <1>8, <1>9, <1>10, <1>11 DEF RegistryInv, Once

LEMMA SpecRegistryInv == Spec => []RegistryInv
<1>1. Inv /\ PlaceInv /\ RegistryInv /\ [Next]_vars => RegistryInv'
  BY RegistryInvNext
<1>. QED BY <1>1, SpecInv, SpecPlaceInv, RegistryInvInit, PTL DEF Spec

(* While commands run one after another and none is killed, a registered id never leads a
   command to the state of another project (cli/_helpers.py _resolve_project, registry.py) *)
THEOREM IdLeadsToItself == Spec => []ResolvesToItself
<1>1. Inv /\ PlaceInv /\ RegistryInv => ResolvesToItself
  <2>1. SUFFICES ASSUME Inv, PlaceInv, RegistryInv, calm, NEW i \in Known(reg), NEW l \in ResolveId(i),
                        HasState(l)
                 PROVE  StateOwner(l) = i
    BY DEF ResolvesToItself
  <2>2. OneOwner /\ Correct(reg) /\ reg \in Image
    BY <2>1 DEF PlaceInv, Quiet, RegistryInv, Inv, Sound
  <2>3. CASE HasState(Pool(i))
    <3>1. l = Pool(i) /\ i \in Ids
      BY <2>2, <2>3 DEF ResolveId, Known, Image
    <3>. QED BY <2>1, <2>2, <3>1, StateIsThere, PlaceNames
  <2>4. CASE ~HasState(Pool(i))
    <3>1. PICK e \in reg.entries : e[1] = i /\ e[2] = l
      BY <2>4 DEF ResolveId, Listed
    <3>2. l \in Places
      BY <2>2, <3>1 DEF Image
    <3>. QED BY <2>1, <2>2, <3>1, <3>2, EntryOwner
  <2>. QED BY <2>3, <2>4
<1>. QED BY <1>1, SpecInv, SpecPlaceInv, SpecRegistryInv, PTL

(* While commands run one after another and none is killed, the registry knows every
   project-mode workspace that a command has finished making (cli/workspace.py) *)
THEOREM FinishedIsListed == Spec => []ListedAtRest
<1>1. Inv /\ PlaceInv /\ RegistryInv => ListedAtRest
  <2>1. SUFFICES ASSUME Inv, PlaceInv, RegistryInv, calm, AtRest, NEW l \in ProjectPlaces, HasState(l),
                        StateOwner(l) \notin copied
                 PROVE  <<StateOwner(l), l>> \in reg.entries
    BY DEF ListedAtRest
  <2>2. OneOwner /\ l \in Places
    BY <2>1, PlaceNames DEF PlaceInv, Quiet
  <2>3. HoldsState(l, StateOwner(l)) /\ StateOwner(l) \in Ids
    BY <2>1, <2>2, StateIsThere
  <2>4. \A p \in Procs : job[p] = Idle
    BY <2>1 DEF AtRest, Busy
  <2>5. Pending = {} /\ \A p \in Procs : job[p].at # "write"
    BY <2>4 DEF Pending, Idle
  <2>6. Complete(reg, {})
    BY <2>1, <2>5 DEF RegistryInv
  <2>. QED BY <2>1, <2>3, <2>6 DEF Complete
<1>. QED BY <1>1, SpecInv, SpecPlaceInv, SpecRegistryInv, PTL
==============================================================================
