------------------------------ MODULE SkillRoots ------------------------------
(***************************************************************************)
(* Where the skill index takes its skills from: the directories on disk,   *)
(* the plugin installer's manifest, roots.json, and the harvest over them  *)
(* (internal/roots, internal/catalog, resolveRoots in cmd/mr-index).       *)
(*                                                                         *)
(* A root is its path.  Of a file system fs this keeps                     *)
(*   dir    what each path is: "full" (holds a SKILL.md), "empty", "gone", *)
(*          or "denied" (it cannot be read, which says nothing)            *)
(*   listed the paths installed_plugins.json names for each plugin         *)
(*   rev    the edition of each path's texts                               *)
(* and of roots.json the sequence of its roots, NoFile or BadFile.         *)
(***************************************************************************)
EXTENDS Integers, FiniteSets, SequencesExt

CONSTANTS Paths,    \* every root directory there may be
          Plugins,  \* the packs discovery finds
          PackOf,   \* path -> pack ("skills" for the user's own)
          KindOf,   \* path -> "skills", "commands", "agents", "tools"
          Inside,   \* the paths under ~/.claude
          Version,  \* path -> age order of a pack's version directories
          SkillsAt  \* path -> its skills in harvest order, [id, desc]

ASSUME RootsAssumption == IsFiniteSet(Paths) /\ Inside \subseteq Paths

UserPack == "skills"
NoFile == <<"no file">>
BadFile == <<"bad file">>

Among(rs) == {rs[i] : i \in DOMAIN rs}
IsDir(fs, p) == fs.dir[p] \in {"full", "empty"}
Flat(p) == KindOf[p] \in {"commands", "agents", "tools"}
\* Not every root that only a human can have added: a tools root, and a skills
\* root of no plugin, count as discovery's own when they are inside ~/.claude.
OperatorOwned(p) == KindOf[p] \in {"commands", "agents"} \/ p \notin Inside

-----------------------------------------------------------------------------
\* Provably absent, and in discovery's own space.  One that cannot be read is
\* not stale.
Stale(fs, rs) == {p \in Among(rs) : fs.dir[p] = "gone" /\ ~ OperatorOwned(p)}

FromManifest(fs) == {p \in Paths : PackOf[p] \in Plugins /\ p \in fs.listed[PackOf[p]]
                                   /\ fs.dir[p] = "full"}

\* Without a manifest: each plugin's newest version that holds skills.
ScanCache(fs) ==
  {p \in Inside : /\ PackOf[p] \in Plugins /\ fs.dir[p] = "full"
                  /\ \A q \in Inside : PackOf[q] = PackOf[p] /\ fs.dir[q] = "full"
                                         => Version[q] <= Version[p]}

\* Still on disk, but no longer the version its plugin has installed.
Superseded(fs, rs) ==
  {p \in Among(rs) : /\ ~ OperatorOwned(p) /\ PackOf[p] # UserPack
                     /\ p \notin FromManifest(fs)
                     /\ \E q \in FromManifest(fs) : PackOf[q] = PackOf[p]}

\* What makes a refresh look for the roots anew.
Away(fs, rs) == Stale(fs, rs) \cup Superseded(fs, rs)

Discover(fs) ==
  LET user == {p \in Inside : PackOf[p] = UserPack /\ KindOf[p] = "skills" /\ IsDir(fs, p)}
      plugins == IF FromManifest(fs) # {} THEN FromManifest(fs) ELSE ScanCache(fs)
  IN  SetToSeq(user) \o SetToSeq(plugins \ user)

\* What is left of a sequence at some of its positions, in their order.
Nth(S, k) == CHOOSE i \in S : Cardinality({j \in S : j <= i}) = k
OnlyAt(s, S) == [k \in 1 .. Cardinality(S) |-> s[Nth(S, k)]]

\* What the operator owns in roots.json is carried over a rediscovery.
Carried(recorded, found) ==
  OnlyAt(recorded, {i \in DOMAIN recorded : recorded[i] \notin Among(found)
                                             /\ OperatorOwned(recorded[i])})

\* (Slip: whatever rediscovery found is written down.)
NoneMissing(packs, rs) == {}
PacksMissing(packs, rs) == packs \ {PackOf[p] : p \in Among(rs)}

Resolved(rs, save) == [ok |-> TRUE, rs |-> rs, save |-> save]
Unresolved == [ok |-> FALSE, rs |-> <<>>, save |-> FALSE]

\* The roots of a run of mr-index, and whether it writes them to roots.json.
\* A file that does not parse is never overwritten.
ResolveRoots(fs, cmd, recorded) ==
  LET known == IF recorded = NoFile THEN <<>> ELSE recorded
      away  == Away(fs, known)
      found == Discover(fs)
      rs    == found \o Carried(known, found)
      dead  == IF cmd = "refresh" THEN {PackOf[p] : p \in away} ELSE {}
  IN  CASE recorded = BadFile -> Unresolved
        [] recorded \notin {BadFile, NoFile} /\ cmd = "refresh" /\ away = {} ->
             Resolved(recorded, FALSE)
        [] OTHER -> IF found = <<>> THEN Unresolved
                    ELSE Resolved(rs, PacksMissing(dead, rs) = {})

-----------------------------------------------------------------------------
SkillsIn(fs, p) ==
  IF fs.dir[p] # "full" THEN <<>>
  ELSE [i \in DOMAIN SkillsAt[p] |->
          [id |-> SkillsAt[p][i].id, desc |-> SkillsAt[p][i].desc, text |-> <<p, fs.rev[p]>>]]

\* The first of those with the same description, then of those with the same id.
DedupByDescription(s) ==
  LET first == {i \in DOMAIN s : s[i].desc = "" \/ \A j \in 1 .. i - 1 : s[j].desc # s[i].desc}
  IN  SelectSeq(s, LAMBDA x : \E i \in first : s[i] = x)
DedupByID(s) == {s[i] : i \in {k \in DOMAIN s : \A j \in 1 .. k - 1 : s[j].id # s[k].id}}

\* Skills before flat roots, whatever the order of roots.json: a command that
\* wraps a skill must not take its place.
HarvestSkills(fs, rs) ==
  LET classed == SelectSeq(rs, LAMBDA p : ~ Flat(p)) \o SelectSeq(rs, LAMBDA p : Flat(p))
      all     == FlattenSeq([i \in DOMAIN classed |-> SkillsIn(fs, classed[i])])
  IN  DedupByID(DedupByDescription(all))
=============================================================================
