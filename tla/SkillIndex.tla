------------------------------ MODULE SkillIndex ------------------------------
(***************************************************************************)
(* The skill index as a value, and its files on disk (internal/index).     *)
(*                                                                         *)
(* An index is [tpl, guard, dim, vec]: its identity's template ("raw" for  *)
(* none), the stale-binary guard, the dimension, and for each skill id the *)
(* vector's origin [text, tpl, by]: what its hash tells, and the model     *)
(* that made the vector, which nothing in the file tells.  (The model an   *)
(* identity names is the one asked for; the endpoint answers with the one  *)
(* it serves.)                                                             *)
(*                                                                         *)
(* disk.json and disk.bin are Absent or [idx, ok]; ok is FALSE of a torn   *)
(* file.  disk.fresh says that the sidecar is not older than the JSON.     *)
(* disk.baks are the dated backups, newest first, each [idx, ok, by] with  *)
(* the run that wrote it (two runs of one second would share a name).      *)
(***************************************************************************)
EXTENDS Integers, FiniteSets, Sequences

CONSTANT Dim  \* model -> dimension of its vectors, for all that may be served

ASSUME DimAssumption == \A m \in DOMAIN Dim : Dim[m] \in Nat \ {0}

NoIndex == [tpl |-> "none"]
Absent == [idx |-> NoIndex, ok |-> FALSE]
Whole(idx) == [idx |-> idx, ok |-> TRUE]

\* (Slip: the identity alone decides.)
IdentityOnly(idx) == TRUE
\* May this index be queried and refreshed: a templated identity whose guard
\* does not name its template was rewritten by a binary that knows none.
SpecForIndex(idx) == idx.tpl = "raw" \/ idx.guard = idx.tpl

Vectors(skills, tpl, m) ==
  [id \in {s.id : s \in skills} |->
     [text |-> (CHOOSE s \in skills : s.id = id).text, tpl |-> tpl, by |-> m]]

Build(skills, tpl, m) ==
  [tpl |-> tpl, guard |-> tpl, dim |-> IF skills = {} THEN 0 ELSE Dim[m],
   vec |-> Vectors(skills, tpl, m)]

HashMatches(idx, s) == /\ s.id \in DOMAIN idx.vec
                       /\ idx.vec[s.id].text = s.text
                       /\ idx.vec[s.id].tpl = idx.tpl

ToEmbed(idx, skills) == {s \in skills : ~ HashMatches(idx, s)}
Removed(idx, skills) == DOMAIN idx.vec \ {s.id : s \in skills}
RemovalExceeds(idx, skills) ==
  10 * Cardinality(Removed(idx, skills)) > 3 * Cardinality(DOMAIN idx.vec)
Noop(idx, skills) == ToEmbed(idx, skills) = {} /\ Removed(idx, skills) = {}

SameDimension(idx, m) == idx.dim \in {0, Dim[m]}

\* The refreshed index; NoIndex when the endpoint's vectors have another
\* dimension, the one sign of another model there is.
ApplyRefresh(idx, skills, m) ==
  LET new == Vectors(ToEmbed(idx, skills), idx.tpl, m)
      old == [id \in {s.id : s \in skills} \ DOMAIN new |-> idx.vec[id]]
  IN  IF DOMAIN new # {} /\ ~ SameDimension(idx, m) THEN NoIndex
      ELSE [tpl |-> idx.tpl, guard |-> idx.tpl,
            dim |-> IF DOMAIN new # {} THEN Dim[m] ELSE idx.dim,
            vec |-> [id \in DOMAIN new \cup DOMAIN old |->
                       IF id \in DOMAIN new THEN new[id] ELSE old[id]]]

-----------------------------------------------------------------------------
\* (Slip: a sidecar is trusted whatever its age.)
BinThere(disk) == disk.bin.ok
BinFresh(disk) == disk.bin.ok /\ (disk.fresh \/ disk.json = Absent)

Readable(baks) == {i \in DOMAIN baks : baks[i].ok}
Newest(baks) == baks[CHOOSE i \in Readable(baks) : \A j \in Readable(baks) : i <= j]

\* Where LoadWithFallback finds an index, and which.
Source(disk) ==
  IF BinFresh(disk) THEN "bin"
  ELSE IF disk.json.ok THEN "json"
  ELSE IF disk.json = Absent THEN "missing"
  ELSE IF disk.bin.ok THEN "bin-stale"
  ELSE IF Readable(disk.baks) # {} THEN "bak" ELSE "error"

LoadFast(disk) ==
  CASE Source(disk) \in {"bin", "bin-stale"} -> disk.bin.idx
    [] Source(disk) = "json" -> disk.json.idx
    [] Source(disk) = "bak" -> Newest(disk.baks).idx
    [] OTHER -> NoIndex

Repaired(disk) == Source(disk) \in {"bin-stale", "bak"}

WithJson(disk, idx) == [disk EXCEPT !.json = Whole(idx), !.fresh = FALSE]
WithBin(disk, idx)  == [disk EXCEPT !.bin = Whole(idx), !.fresh = TRUE]
WithoutBin(disk)    == [disk EXCEPT !.bin = Absent, !.fresh = FALSE]
\* RotateBackup in its two steps: the copy, which a kill can cut short, and
\* the removal of every backup but the run's own.
WithBackup(disk, ok, p) ==
  IF disk.json = Absent THEN disk
  ELSE [disk EXCEPT !.baks =
          <<[idx |-> disk.json.idx, ok |-> disk.json.ok /\ ok, by |-> p]>> \o @]
Own(baks, p) == {i \in DOMAIN baks : baks[i].by = p}
Pruned(disk, p) ==
  [disk EXCEPT !.baks = IF Own(@, p) = {} THEN <<>>
                        ELSE <<@[CHOOSE i \in Own(@, p) : \A j \in Own(@, p) : i <= j]>>]
=============================================================================
