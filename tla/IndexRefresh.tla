----------------------------- MODULE IndexRefresh -----------------------------
(***************************************************************************)
(* Runs of mr-index beside everything that changes under them: packs that  *)
(* update, skills that are edited, a pre-template binary, another          *)
(* embedder, a file torn by a power cut, a run that is killed.             *)
(*                                                                         *)
(* A run goes through "lock" (and "stale" when the lock it met is too      *)
(* old), "roots", "plan", "embed", "backup", "prune", "json" and "bin".    *)
(* left says how often each thing may still happen, and left.who may run;  *)
(* overlap, whether two runs ever wrote at once.                           *)
(***************************************************************************)
EXTENDS SkillRoots, SkillIndex, TLC

CONSTANTS Runs,         \* processes that run mr-index
          NoRun,        \* not one of them
          IndexConfigs  \* [left, fs, recorded, disk, serves] to start from

VARIABLES fs, recorded, disk, indexLock, run, serves, left, overlap
indexVars == <<fs, recorded, disk, indexLock, run, serves, left, overlap>>

OneSpace(idx) ==
  SpecForIndex(idx) =>
    \A id \in DOMAIN idx.vec : idx.vec[id].tpl = idx.tpl /\ Dim[idx.vec[id].by] = idx.dim

\* Files a save left: the sidecar is the JSON's, and an index without a
\* dimension is empty.
ASSUME IndexAssumption ==
  \A c \in IndexConfigs :
       LET d == c.disk
           files == {d.json, d.bin} \cup Among(d.baks)
       IN  /\ DOMAIN d = {"json", "bin", "fresh", "baks"}
           /\ d.baks \in Seq(Among(d.baks))
           /\ d.fresh /\ d.bin.ok /\ d.json.ok => d.bin.idx = d.json.idx
           /\ \A f \in files :
                /\ DOMAIN Absent \subseteq DOMAIN f /\ f.ok \in BOOLEAN
                /\ f.ok => /\ DOMAIN f.idx = DOMAIN Build({}, "raw", c.serves)
                           /\ OneSpace(f.idx)
                           /\ f.idx.dim = 0 => DOMAIN f.idx.vec = {}
           /\ c.recorded \in Seq(Among(c.recorded)) /\ c.serves \in DOMAIN Dim
           /\ "tears" \in DOMAIN c.left /\ c.left.tears \in Nat

Idle == [pc |-> "idle", cmd |-> "", tpl |-> "raw", force |-> FALSE, rs |-> <<>>,
         old |-> NoIndex, skills |-> {}, idx |-> NoIndex, backup |-> FALSE, locked |-> FALSE]
Free == [holder |-> NoRun, age |-> "none"]

IndexInit ==
  /\ \E c \in IndexConfigs :
       fs = c.fs /\ recorded = c.recorded /\ disk = c.disk /\ left = c.left /\ serves = c.serves
  /\ indexLock = Free /\ overlap = FALSE
  /\ run = [p \in Runs |-> Idle]

Spend(what) == left[what] > 0 /\ left' = [left EXCEPT ![what] = @ - 1]
At(p, pc) == run[p].pc = pc
Goto(p, pc) == run' = [run EXCEPT ![p].pc = pc]
Writing(p) == run[p].pc \in {"roots", "plan", "embed", "backup", "prune", "json", "bin"}
\* Every way out of a run that locked releases the lock file, whoever's it is
\* by now.
Exit(p) == /\ run' = [run EXCEPT ![p] = Idle]
           /\ indexLock' = IF run[p].locked THEN Free ELSE indexLock

-----------------------------------------------------------------------------
Begin(p, cmd, tpl, force) ==
  /\ p \in left.who /\ At(p, "idle") /\ (cmd = "refresh" => tpl = "raw")
  /\ Spend(cmd) /\ (force => left.force > 0)
  /\ run' = [run EXCEPT ![p] = [Idle EXCEPT !.pc = "lock", !.cmd = cmd, !.tpl = tpl,
                                            !.force = force]]
  /\ UNCHANGED <<fs, recorded, disk, indexLock, serves, overlap>>

\* O_EXCL took it.
TakeLock(p) ==
  /\ At(p, "lock") /\ indexLock.holder = NoRun
  /\ indexLock' = [holder |-> p, age |-> "live"]
  /\ overlap' = (overlap \/ \E q \in Runs : Writing(q))
  /\ run' = [run EXCEPT ![p].pc = "roots", ![p].locked = TRUE]
  /\ UNCHANGED <<fs, recorded, disk, serves, left>>

\* A lock file that can be neither created nor met is done without.
LockUnavailable(p) ==
  /\ At(p, "lock") /\ Spend("slips") /\ Goto(p, "roots")
  /\ overlap' = (overlap \/ \E q \in Runs : Writing(q))
  /\ UNCHANGED <<fs, recorded, disk, indexLock, serves>>

StandDown(p) ==
  /\ At(p, "lock") /\ indexLock.age \in {"live", "dead"}
  /\ run' = [run EXCEPT ![p] = Idle]
  /\ UNCHANGED <<fs, recorded, disk, indexLock, serves, left, overlap>>

SeesStale(p) ==
  /\ At(p, "lock") /\ indexLock.age = "old"
  /\ Goto(p, "stale")
  /\ UNCHANGED <<fs, recorded, disk, indexLock, serves, left, overlap>>

\* Removes the lock by its name, which may be a younger one by now.
Takeover(p) ==
  /\ At(p, "stale")
  /\ indexLock' = Free
  /\ Goto(p, "lock")
  /\ UNCHANGED <<fs, recorded, disk, serves, left, overlap>>

Resolve(p) ==
  LET r == ResolveRoots(fs, run[p].cmd, recorded)
  IN  /\ At(p, "roots")
      /\ IF r.ok THEN run' = [run EXCEPT ![p].pc = "plan", ![p].rs = r.rs] /\ indexLock' = indexLock
         ELSE Exit(p)
      /\ recorded' \in {IF r.save THEN r.rs ELSE recorded, recorded}
      /\ IF r.save /\ recorded' # r.rs THEN Spend("slips") ELSE left' = left
      /\ UNCHANGED <<fs, disk, serves, overlap>>

-----------------------------------------------------------------------------
\* What a run will write: the whole index, or the refresh of what it loaded.
Refused(p, src, skills) ==
  \/ src = "error"
  \/ src # "missing" /\ \/ ~ SpecForIndex(LoadFast(disk))
                        \/ ~ run[p].force /\ RemovalExceeds(LoadFast(disk), skills)
                        \/ ~ Repaired(disk) /\ Noop(LoadFast(disk), skills)

\* (Slip: a repair rotates too.)
RotateAlways(cmd, src) == TRUE
\* A torn JSON is not kept, and there is none to keep when the index is new.
Rotates(cmd, src) == cmd = "build" \/ src \in {"bin", "json"}

Plan(p) ==
  LET skills == HarvestSkills(fs, run[p].rs)
      src    == Source(disk)
      fresh  == run[p].cmd = "build" \/ src = "missing"
  IN  /\ At(p, "plan")
      /\ IF ~ fresh /\ Refused(p, src, skills) THEN Exit(p)
         ELSE /\ run' = [run EXCEPT ![p].pc = "embed", ![p].skills = skills,
                                    ![p].old = IF fresh THEN NoIndex ELSE LoadFast(disk),
                                    ![p].backup = Rotates(run[p].cmd, src)]
              /\ indexLock' = indexLock
      /\ UNCHANGED <<fs, recorded, disk, serves, left, overlap>>

\* The embedder answers, with the model it serves now, or fails.
Embed(p) ==
  LET idx == IF run[p].old = NoIndex THEN Build(run[p].skills, run[p].tpl, serves)
             ELSE ApplyRefresh(run[p].old, run[p].skills, serves)
  IN  /\ At(p, "embed")
      /\ IF idx = NoIndex THEN Exit(p)
         ELSE /\ run' = [run EXCEPT ![p].idx = idx,
                                    ![p].pc = IF run[p].backup THEN "backup" ELSE "json"]
              /\ indexLock' = indexLock
      /\ UNCHANGED <<fs, recorded, disk, serves, left, overlap>>

EmbedFails(p) ==
  /\ At(p, "embed") /\ Spend("slips") /\ Exit(p)
  /\ UNCHANGED <<fs, recorded, disk, serves, overlap>>

\* Without a JSON nothing is copied, and nothing pruned.
CopyBackup(p) ==
  /\ At(p, "backup")
  /\ disk' = WithBackup(disk, TRUE, p) /\ Goto(p, IF disk.json = Absent THEN "json" ELSE "prune")
  /\ UNCHANGED <<fs, recorded, indexLock, serves, left, overlap>>

\* A backup that cannot be written is a warning; what it wrote stays.
CopyFails(p) ==
  /\ At(p, "backup") /\ Spend("slips")
  /\ disk' = WithBackup(disk, FALSE, p) /\ Goto(p, "json")
  /\ UNCHANGED <<fs, recorded, indexLock, serves, overlap>>

PruneBackups(p) ==
  /\ At(p, "prune")
  /\ disk' = Pruned(disk, p) /\ Goto(p, "json")
  /\ UNCHANGED <<fs, recorded, indexLock, serves, left, overlap>>

SaveJson(p) ==
  /\ At(p, "json")
  /\ disk' = WithJson(disk, run[p].idx) /\ Goto(p, "bin")
  /\ UNCHANGED <<fs, recorded, indexLock, serves, left, overlap>>

JsonFails(p) ==
  /\ At(p, "json") /\ Spend("slips") /\ Exit(p)
  /\ UNCHANGED <<fs, recorded, disk, serves, overlap>>

SaveBin(p) ==
  /\ At(p, "bin") /\ Exit(p)
  /\ disk' = WithBin(disk, run[p].idx)
  /\ UNCHANGED <<fs, recorded, serves, left, overlap>>

SaveBinFails(p) ==
  /\ At(p, "bin") /\ Spend("slips") /\ Exit(p)
  /\ disk' = WithoutBin(disk)
  /\ UNCHANGED <<fs, recorded, serves, overlap>>

Step(p) ==
  \/ TakeLock(p) \/ LockUnavailable(p) \/ StandDown(p) \/ SeesStale(p) \/ Takeover(p)
  \/ Resolve(p) \/ Plan(p) \/ Embed(p) \/ EmbedFails(p)
  \/ CopyBackup(p) \/ CopyFails(p) \/ PruneBackups(p)
  \/ SaveJson(p) \/ JsonFails(p) \/ SaveBin(p) \/ SaveBinFails(p)

\* A killed run leaves its lock, and half a backup if it was writing one.
Kill(p) ==
  /\ ~ At(p, "idle") /\ Spend("kills")
  /\ run' = [run EXCEPT ![p] = Idle]
  /\ disk' \in {disk, IF At(p, "backup") THEN WithBackup(disk, FALSE, p) ELSE disk}
  /\ indexLock' = IF indexLock.holder = p THEN [indexLock EXCEPT !.age = "dead"] ELSE indexLock
  /\ UNCHANGED <<fs, recorded, serves, overlap>>

\* Ten minutes pass, more than a live run takes.
LockAges ==
  /\ indexLock.age = "dead" /\ indexLock' = [indexLock EXCEPT !.age = "old"]
  /\ UNCHANGED <<fs, recorded, disk, run, serves, left, overlap>>

-----------------------------------------------------------------------------
Moves(what) == Spend(what) /\ UNCHANGED <<recorded, disk, indexLock, run, serves, overlap>>

\* The plugin manager: the manifest names a version that is not unpacked yet,
\* and the previous one may already be gone.
PluginUpdates(plugin) ==
  \E new \in Paths : \E kept \in BOOLEAN :
    /\ PackOf[new] = plugin /\ fs.dir[new] = "gone" /\ Moves("moves")
    /\ fs' = [fs EXCEPT !.listed[plugin] = {new},
                        !.dir = [p \in Paths |->
                          IF p = new THEN "empty"
                          ELSE IF p \in fs.listed[plugin] /\ ~ kept THEN "gone" ELSE @[p]]]

PluginUnpacks(p) == /\ fs.dir[p] = "empty" /\ fs' = [fs EXCEPT !.dir[p] = "full"]
                    /\ UNCHANGED <<recorded, disk, indexLock, run, serves, left, overlap>>

PluginRemoved(plugin) ==
  /\ Moves("moves")
  /\ fs' = [fs EXCEPT !.listed[plugin] = {},
                      !.dir = [p \in Paths |-> IF PackOf[p] = plugin THEN "gone" ELSE @[p]]]

\* Any directory can become unreadable, one of no plugin can disappear.
DirLost(p) == /\ fs.dir[p] = "full" /\ Moves("losses")
              /\ \E how \in {"denied"} \cup (IF PackOf[p] \in Plugins THEN {} ELSE {"gone"}) :
                   fs' = [fs EXCEPT !.dir[p] = how]

DirBack(p) == /\ fs.dir[p] = "denied" /\ fs' = [fs EXCEPT !.dir[p] = "full"]
              /\ UNCHANGED <<recorded, disk, indexLock, run, serves, left, overlap>>

Edit(p) == /\ fs.dir[p] = "full" /\ Moves("edits")
           /\ fs' = [fs EXCEPT !.rev[p] = @ + 1]

\* A power cut ends every run and may tear a file it had not flushed, which
\* keeps its time.
PowerCut ==
  /\ Spend("tears")
  /\ \/ disk.json.ok /\ disk' = [disk EXCEPT !.json.ok = FALSE]
     \/ disk.bin.ok /\ disk' = [disk EXCEPT !.bin.ok = FALSE]
     \/ disk.baks # <<>> /\ disk' = [disk EXCEPT !.baks[1].ok = FALSE]
  /\ run' = [p \in Runs |-> Idle]
  /\ indexLock' = IF indexLock.age = "live" THEN [indexLock EXCEPT !.age = "dead"] ELSE indexLock
  /\ UNCHANGED <<fs, recorded, serves, overlap>>

\* A pre-template mr-index refreshes every index as a raw one: the hashes of
\* templated vectors miss, so it embeds them raw; it keeps the identity and
\* knows of no guard.
ForeignRefresh ==
  LET old == LoadFast(disk)
      new == ApplyRefresh([old EXCEPT !.tpl = "raw"], HarvestSkills(fs, recorded), serves)
      foreign == [new EXCEPT !.tpl = old.tpl]
  IN  /\ \A p \in Runs : At(p, "idle")
      /\ old # NoIndex /\ recorded \notin {NoFile, BadFile} /\ new # NoIndex
      /\ Spend("foreign")
      /\ disk' = WithBin(WithJson(disk, foreign), foreign)
      /\ UNCHANGED <<fs, recorded, indexLock, run, serves, overlap>>

\* The endpoint serves another model, of another dimension or of the same.
EmbedderSwapped == /\ Spend("swaps") /\ serves' \in DOMAIN Dim \ {serves}
                   /\ UNCHANGED <<fs, recorded, disk, indexLock, run, overlap>>

\* Someone edits roots.json by hand, with a typo.
HandEdit == /\ Spend("typos") /\ recorded # NoFile
            /\ recorded' = BadFile
            /\ UNCHANGED <<fs, disk, indexLock, run, serves, overlap>>

Around ==
  \/ LockAges \/ PowerCut \/ ForeignRefresh \/ EmbedderSwapped \/ HandEdit
  \/ \E plugin \in Plugins : PluginUpdates(plugin) \/ PluginRemoved(plugin)
  \/ \E p \in Paths : PluginUnpacks(p) \/ DirLost(p) \/ DirBack(p) \/ Edit(p)

IndexNext ==
  \/ Around
  \/ \E p \in Runs : \/ Step(p) \/ Kill(p)
                     \/ \E cmd \in {"build", "refresh"}, tpl \in {"raw", "tpl1"},
                           force \in BOOLEAN : Begin(p, cmd, tpl, force)

IndexSpec == IndexInit /\ [][IndexNext]_indexVars

-----------------------------------------------------------------------------
\* No step of a refresh, none that fails and none it is killed in, takes away
\* the last copy of the index the hook can load (Save, RotateBackup and the
\* order runRefresh calls them in, LoadWithFallback).  A build gives no such
\* promise: it rotates a torn JSON over the backup.
LastCopySurvives ==
  [][LoadFast(disk) # NoIndex =>
       \/ LoadFast(disk') # NoIndex
       \/ left'.tears # left.tears
       \/ \E p \in Runs : At(p, "prune") /\ run[p].cmd = "build"]_indexVars

\* As long as runs do not overlap, what the hook loads is what index.json
\* says, whichever file it loads it from (Save's order, the mtime check).
HookReadsTheJson == ~ overlap /\ disk.json.ok => LoadFast(disk) = disk.json.idx

\* An index that may be queried holds vectors of one template, the one its
\* identity names, and of one dimension, whichever binaries and embedders
\* wrote it (SpecForIndex, PlanRefresh, ApplyRefresh).  Not of one model: when
\* the endpoint turns to another model of the same dimension, a refresh mixes
\* the two unseen (index.go:302-304 and 331), here as in the code.
OneVectorSpace == LoadFast(disk) # NoIndex => OneSpace(LoadFast(disk))

\* A command or agent root, and any root outside ~/.claude, is never dropped
\* from roots.json but by hand.  A refresh drops no root unless one of
\* discovery's own is provably gone or superseded, so an unreadable one alone
\* loses nothing, and then only if each such pack has a root again
\* (resolveRoots, Stale, packsMissing).  The other roots a human may have added
\* inside ~/.claude, tools roots among them, are dropped by any rediscovery,
\* and so is a plugin's that cannot be read at that moment.
RootsAreKept ==
  [][recorded \notin {NoFile, BadFile} /\ recorded' # BadFile =>
       \A p \in Among(recorded) \ Among(recorded') :
         /\ ~ OperatorOwned(p)
         /\ \/ \E r \in Runs : At(r, "roots") /\ run[r].cmd = "build"
            \/ /\ Away(fs, recorded) # {}
               /\ \A a \in Away(fs, recorded) :
                    \E q \in Among(recorded') : PackOf[q] = PackOf[a]]_indexVars

\* No rediscovery drops a flat root: "flat roots (Discover can never emit a
\* kind) and any hand-added root outside claudeDir exist only because a human
\* put them in roots.json, so a build that dropped them would silently destroy
\* edits" (cmd/mr-index/main.go:161-165).
FlatRootsStay ==
  [][recorded \notin {NoFile, BadFile} /\ recorded' # BadFile =>
       \A p \in Among(recorded) : Flat(p) => p \in Among(recorded')]_indexVars
=============================================================================
