----------------------------- MODULE Index_proofs -----------------------------
(***************************************************************************)
(* The files of the skill index: for any roots, skills and configurations, *)
(* any number of runs, and any failures, kills, power cuts, foreign        *)
(* binaries and swapped embedders.                                         *)
(***************************************************************************)
EXTENDS IndexRefresh, FiniteSetTheorems, WellFoundedInduction, TLAPS

-----------------------------------------------------------------------------
\* Natural numbers have minima, without induction over an operator.
LEMMA LeastNatural ==
  ASSUME NEW T \in SUBSET Nat, T # {}
  PROVE  \E m \in T : \A n \in T : m <= n
<1>1. IsWellFoundedOn(OpToRel(<, Nat), Nat)
  BY NatLessThanWellFounded
<1>2. PICK m \in T : \A n \in T : <<n, m>> \notin OpToRel(<, Nat)
  BY <1>1, WFMin
<1>3. ASSUME NEW n \in T PROVE m <= n
  <2>1. <<n, m>> \notin {ss \in Nat \X Nat : ss[1] < ss[2]}
    BY <1>2 DEF OpToRel
  <2> QED
    BY <2>1
<1> QED
  BY <1>3

-----------------------------------------------------------------------------
(* Index values.                                                           *)

Fields == {"tpl", "guard", "dim", "vec"}
Uniform(idx) == \A id \in DOMAIN idx.vec : idx.vec[id].tpl = idx.tpl /\ Dim[idx.vec[id].by] = idx.dim
Measured(idx) == idx.dim = 0 => DOMAIN idx.vec = {}
Good(idx) == DOMAIN idx = Fields /\ OneSpace(idx) /\ Measured(idx)

LEMMA GoodIsAnIndex == ASSUME NEW idx, DOMAIN idx = Fields PROVE idx # NoIndex
<1>1. DOMAIN NoIndex = {"tpl"}
  BY DEF NoIndex
<1> QED
  BY <1>1 DEF Fields

\* A whole build.
LEMMA BuildIsGood ==
  ASSUME NEW skills, NEW tpl, NEW m \in DOMAIN Dim
  PROVE  Good(Build(skills, tpl, m))
<1> DEFINE vec == Vectors(skills, tpl, m)
           idx == Build(skills, tpl, m)
<1>1. /\ DOMAIN vec = {s.id : s \in skills}
      /\ \A id \in DOMAIN vec : vec[id].tpl = tpl /\ vec[id].by = m
  BY DEF Vectors
<1>2. /\ DOMAIN idx = Fields /\ idx.tpl = tpl /\ idx.vec = vec
      /\ idx.dim = (IF skills = {} THEN 0 ELSE Dim[m])
  BY DEF Build, Fields
<1> HIDE DEF vec, idx
<1>3. skills # {} => DOMAIN vec # {}
  BY <1>1
<1>4. skills = {} => DOMAIN vec = {}
  BY <1>1
<1>5. Measured(idx)
  BY <1>2, <1>4, DimAssumption DEF Measured
<1>6. OneSpace(idx)
  BY <1>1, <1>2, <1>4 DEF OneSpace
<1> QED
  BY <1>2, <1>5, <1>6 DEF Good, idx

\* A refresh keeps the identity, and a uniform index uniform.
LEMMA RefreshIsUniform ==
  ASSUME NEW idx, DOMAIN idx = Fields, Measured(idx), NEW skills, NEW m \in DOMAIN Dim,
         ApplyRefresh(idx, skills, m) # NoIndex
  PROVE  LET new == ApplyRefresh(idx, skills, m)
         IN  /\ DOMAIN new = Fields /\ Measured(new)
             /\ new.tpl = idx.tpl /\ new.guard = idx.tpl
             /\ Uniform(idx) => Uniform(new)
<1> DEFINE new == Vectors(ToEmbed(idx, skills), idx.tpl, m)
           old == [id \in {s.id : s \in skills} \ DOMAIN new |-> idx.vec[id]]
           vec == [id \in DOMAIN new \cup DOMAIN old |-> IF id \in DOMAIN new THEN new[id] ELSE old[id]]
           out == [tpl |-> idx.tpl, guard |-> idx.tpl,
                   dim |-> IF DOMAIN new # {} THEN Dim[m] ELSE idx.dim, vec |-> vec]
<1>1. ApplyRefresh(idx, skills, m) = out /\ (DOMAIN new # {} => SameDimension(idx, m))
  BY DEF ApplyRefresh
<1>2. /\ DOMAIN new = {s.id : s \in ToEmbed(idx, skills)}
      /\ \A id \in DOMAIN new : new[id].tpl = idx.tpl /\ new[id].by = m
  BY DEF Vectors
<1> HIDE DEF new
<1>3. ASSUME NEW id \in DOMAIN old PROVE id \in DOMAIN idx.vec /\ old[id] = idx.vec[id]
  <2>1. PICK s \in skills : s.id = id /\ s \notin ToEmbed(idx, skills)
    BY <1>2, <1>3
  <2>2. HashMatches(idx, s)
    BY <2>1 DEF ToEmbed
  <2> QED
    BY <1>3, <2>1, <2>2 DEF HashMatches
<1> HIDE DEF old
<1>4. /\ DOMAIN vec = DOMAIN new \cup DOMAIN old
      /\ \A id \in DOMAIN vec : vec[id] = IF id \in DOMAIN new THEN new[id] ELSE old[id]
  OBVIOUS
<1> HIDE DEF vec
<1>5. /\ DOMAIN out = Fields /\ out.tpl = idx.tpl /\ out.guard = idx.tpl /\ out.vec = vec
      /\ out.dim = IF DOMAIN new # {} THEN Dim[m] ELSE idx.dim
  BY DEF Fields
<1> HIDE DEF out
<1>6. idx.dim = 0 => DOMAIN old = {}
  BY <1>3 DEF Measured
<1>7. Measured(out)
  BY <1>4, <1>5, <1>6, DimAssumption DEF Measured
<1>8. ASSUME Uniform(idx), NEW id \in DOMAIN vec PROVE vec[id].tpl = idx.tpl /\ Dim[vec[id].by] = out.dim
  <2>1. CASE id \in DOMAIN new
    BY <1>2, <1>4, <1>5, <2>1
  <2>2. CASE id \notin DOMAIN new
    <3>1. id \in DOMAIN old /\ vec[id] = idx.vec[id] /\ id \in DOMAIN idx.vec
      BY <1>3, <1>4, <1>8, <2>2
    <3>2. idx.dim # 0
      BY <1>6, <3>1
    <3>3. DOMAIN new # {} => idx.dim = Dim[m]
      BY <1>1, <3>2 DEF SameDimension
    <3> QED
      BY <1>5, <1>8, <3>1, <3>3 DEF Uniform
  <2> QED
    BY <2>1, <2>2
<1>9. Uniform(idx) => Uniform(out)
  BY <1>5, <1>8 DEF Uniform
<1> QED
  BY <1>1, <1>5, <1>7, <1>9

\* A refresh of an index that may be refreshed.
LEMMA RefreshIsGood ==
  ASSUME NEW idx, Good(idx), SpecForIndex(idx), NEW skills, NEW m \in DOMAIN Dim,
         ApplyRefresh(idx, skills, m) # NoIndex
  PROVE  Good(ApplyRefresh(idx, skills, m))
<1>1. Uniform(idx)
  BY DEF Good, OneSpace, Uniform
<1> QED
  BY <1>1, RefreshIsUniform DEF Good, OneSpace, Uniform

\* A refresh by a binary that knows no templates.
Foreign(idx, skills, m) ==
  [ApplyRefresh([idx EXCEPT !.tpl = "raw"], skills, m) EXCEPT !.tpl = idx.tpl]

LEMMA ForeignIsGood ==
  ASSUME NEW idx, Good(idx), NEW skills, NEW m \in DOMAIN Dim,
         ApplyRefresh([idx EXCEPT !.tpl = "raw"], skills, m) # NoIndex
  PROVE  Good(Foreign(idx, skills, m))
<1> DEFINE raw == [idx EXCEPT !.tpl = "raw"]
           new == ApplyRefresh(raw, skills, m)
           out == Foreign(idx, skills, m)
<1>1. /\ DOMAIN raw = Fields /\ raw.tpl = "raw" /\ raw.vec = idx.vec /\ raw.dim = idx.dim
      /\ Measured(raw)
  BY DEF Good, Fields, Measured
<1>2. /\ DOMAIN new = Fields /\ Measured(new) /\ new.guard = "raw" /\ new.tpl = "raw"
      /\ Uniform(raw) => Uniform(new)
  <2> HIDE DEF raw
  <2> QED
    BY <1>1, RefreshIsUniform DEF raw
<1>3. out = [new EXCEPT !.tpl = idx.tpl]
  BY DEF Foreign
<1> HIDE DEF new, out
<1>4. /\ DOMAIN out = Fields /\ out.tpl = idx.tpl /\ out.guard = "raw" /\ out.vec = new.vec
      /\ out.dim = new.dim
  BY <1>2, <1>3 DEF Fields
<1>5. Measured(out)
  BY <1>2, <1>4 DEF Measured
<1>6. OneSpace(out)
  <2>1. CASE idx.tpl = "raw"
    <3>1. Uniform(raw)
      BY <1>1, <2>1 DEF Good, OneSpace, SpecForIndex, Uniform
    <3> QED
      BY <1>2, <1>4, <2>1, <3>1 DEF OneSpace, Uniform
  <2>2. CASE idx.tpl # "raw"
    BY <1>4, <2>2 DEF OneSpace, SpecForIndex
  <2> QED
    BY <2>1, <2>2
<1> QED
  BY <1>4, <1>5, <1>6 DEF Good, out

-----------------------------------------------------------------------------
(* The files.                                                              *)

FileOK(f) == {"idx", "ok"} \subseteq DOMAIN f /\ f.ok \in BOOLEAN /\ (f.ok => Good(f.idx))
DiskOK(d) ==
  /\ DOMAIN d = {"json", "bin", "fresh", "baks"}
  /\ d.baks \in Seq(Among(d.baks))
  /\ FileOK(d.json) /\ FileOK(d.bin)
  /\ \A i \in DOMAIN d.baks : FileOK(d.baks[i])

LEMMA SeqOfItsOwn ==
  ASSUME NEW S, NEW s \in Seq(S)
  PROVE  s \in Seq(Among(s))
BY DEF Among

LEMMA FilesOK == /\ FileOK(Absent)
                 /\ \A idx : Good(idx) => FileOK(Whole(idx))
                 /\ \A f : \A b \in BOOLEAN : FileOK(f) => FileOK([f EXCEPT !.ok = @ /\ b])
                 /\ \A f : FileOK(f) => FileOK([f EXCEPT !.ok = FALSE])
<1>1. FileOK(Absent)
  BY DEF FileOK, Absent
<1>2. \A idx : Good(idx) => FileOK(Whole(idx))
  BY DEF FileOK, Whole
<1>3. ASSUME NEW f, NEW b \in BOOLEAN, FileOK(f) PROVE FileOK([f EXCEPT !.ok = @ /\ b])
  <2> DEFINE g == [f EXCEPT !.ok = @ /\ b]
  <2>1. {"idx", "ok"} \subseteq DOMAIN g /\ g.idx = f.idx /\ g.ok = (f.ok /\ b)
    BY <1>3 DEF FileOK
  <2> HIDE DEF g
  <2>2. g.ok \in BOOLEAN /\ (g.ok => f.ok)
    BY <1>3, <2>1 DEF FileOK
  <2>3. FileOK(g)
    BY <1>3, <2>1, <2>2 DEF FileOK
  <2> QED
    BY <2>3 DEF g
<1>4. ASSUME NEW f, FileOK(f) PROVE FileOK([f EXCEPT !.ok = FALSE])
  BY <1>4 DEF FileOK
<1> QED
  BY <1>1, <1>2, <1>3, <1>4

\* A copy of the index is left that LoadWithFallback finds.
Copies(d) == d.json.ok \/ d.bin.ok \/ (Readable(d.baks) # {} /\ d.json # Absent)

\* The newest backup that can be read.
LEMMA NewestIsReadable ==
  ASSUME NEW baks, NEW S, baks \in Seq(S), Readable(baks) # {}
  PROVE  \E i \in DOMAIN baks : Newest(baks) = baks[i] /\ baks[i].ok
<1> DEFINE T == Readable(baks)
           i == CHOOSE n \in T : \A m \in T : n <= m
<1>1. T \in SUBSET Nat /\ T # {}
  BY DEF Readable
<1> HIDE DEF T
<1>4. \E n \in T : \A m \in T : n <= m
  BY <1>1, LeastNatural
<1>5. i \in T
  BY <1>4
<1> QED
  BY <1>5 DEF T, Newest, Readable

\* What is loaded is a good index, and there is one as long as a copy is left.
LEMMA Loads ==
  ASSUME NEW d, DiskOK(d)
  PROVE  /\ LoadFast(d) # NoIndex => Good(LoadFast(d))
         /\ LoadFast(d) # NoIndex <=> Copies(d)
<1>1. ~ Absent.ok
  BY DEF Absent
<1>2. CASE d.bin.ok
  <2>1. Good(d.bin.idx) /\ d.bin.idx # NoIndex
    BY <1>2, GoodIsAnIndex DEF DiskOK, FileOK, Good
  <2>2. d.json.ok => Good(d.json.idx) /\ d.json.idx # NoIndex
    BY GoodIsAnIndex DEF DiskOK, FileOK, Good
  <2>3. LoadFast(d) \in {d.bin.idx, d.json.idx} /\ (LoadFast(d) # d.bin.idx => d.json.ok)
    BY <1>2 DEF LoadFast, Source, BinFresh
  <2> QED
    BY <1>2, <2>1, <2>2, <2>3 DEF Copies
<1>3. CASE ~ d.bin.ok /\ d.json.ok
  <2>1. Good(d.json.idx) /\ d.json.idx # NoIndex
    BY <1>3, GoodIsAnIndex DEF DiskOK, FileOK, Good
  <2>2. LoadFast(d) = d.json.idx
    BY <1>3 DEF LoadFast, Source, BinFresh
  <2> QED
    BY <1>3, <2>1, <2>2 DEF Copies
<1>4. CASE ~ d.bin.ok /\ ~ d.json.ok /\ d.json # Absent /\ Readable(d.baks) # {}
  <2>1. PICK i \in DOMAIN d.baks : Newest(d.baks) = d.baks[i] /\ d.baks[i].ok
    BY <1>4, NewestIsReadable DEF DiskOK
  <2>2. Good(d.baks[i].idx) /\ d.baks[i].idx # NoIndex
    BY <2>1, GoodIsAnIndex DEF DiskOK, FileOK, Good
  <2>3. LoadFast(d) = Newest(d.baks).idx
    BY <1>4 DEF LoadFast, Source, BinFresh
  <2> QED
    BY <1>4, <2>1, <2>2, <2>3 DEF Copies
<1>5. CASE ~ d.bin.ok /\ ~ d.json.ok /\ (d.json = Absent \/ Readable(d.baks) = {})
  <2>1. LoadFast(d) = NoIndex
    BY <1>5 DEF LoadFast, Source, BinFresh
  <2> QED
    BY <1>5, <2>1 DEF Copies
<1> QED
  BY <1>2, <1>3, <1>4, <1>5

\* The writes.
LEMMA WithJsonIs ==
  ASSUME NEW d, DiskOK(d), NEW idx, Good(idx)
  PROVE  LET e == WithJson(d, idx)
         IN  DiskOK(e) /\ e.json = Whole(idx) /\ e.bin = d.bin /\ e.fresh = FALSE /\ e.baks = d.baks
<1> DEFINE e == WithJson(d, idx)
<1>1. /\ DOMAIN e = {"json", "bin", "fresh", "baks"}
      /\ e.json = Whole(idx) /\ e.bin = d.bin /\ e.fresh = FALSE /\ e.baks = d.baks
  BY DEF DiskOK, WithJson
<1> HIDE DEF e
<1>2. DiskOK(e)
  BY <1>1, FilesOK DEF DiskOK
<1> QED
  BY <1>1, <1>2 DEF e

LEMMA WithBinIs ==
  ASSUME NEW d, DiskOK(d), NEW idx, Good(idx)
  PROVE  LET e == WithBin(d, idx)
         IN  DiskOK(e) /\ e.bin = Whole(idx) /\ e.json = d.json /\ e.fresh = TRUE /\ e.baks = d.baks
<1> DEFINE e == WithBin(d, idx)
<1>1. /\ DOMAIN e = {"json", "bin", "fresh", "baks"}
      /\ e.bin = Whole(idx) /\ e.json = d.json /\ e.fresh = TRUE /\ e.baks = d.baks
  BY DEF DiskOK, WithBin
<1> HIDE DEF e
<1>2. DiskOK(e)
  BY <1>1, FilesOK DEF DiskOK
<1> QED
  BY <1>1, <1>2 DEF e

LEMMA WithoutBinIs ==
  ASSUME NEW d, DiskOK(d)
  PROVE  LET e == WithoutBin(d)
         IN  DiskOK(e) /\ e.bin = Absent /\ e.json = d.json /\ e.fresh = FALSE /\ e.baks = d.baks
<1> DEFINE e == WithoutBin(d)
<1>1. /\ DOMAIN e = {"json", "bin", "fresh", "baks"}
      /\ e.bin = Absent /\ e.json = d.json /\ e.fresh = FALSE /\ e.baks = d.baks
  BY DEF DiskOK, WithoutBin
<1> HIDE DEF e
<1>2. DiskOK(e)
  BY <1>1, FilesOK DEF DiskOK
<1> QED
  BY <1>1, <1>2 DEF e

\* A backup is added to those there are, whole or torn.
LEMMA WithBackupIs ==
  ASSUME NEW d, DiskOK(d), NEW ok \in BOOLEAN, NEW p
  PROVE  LET e == WithBackup(d, ok, p)
         IN  /\ DiskOK(e) /\ e.json = d.json /\ e.bin = d.bin /\ e.fresh = d.fresh
             /\ Readable(d.baks) # {} => Readable(e.baks) # {}
<1> DEFINE e == WithBackup(d, ok, p)
           new == [idx |-> d.json.idx, ok |-> d.json.ok /\ ok, by |-> p]
           baks == <<new>> \o d.baks
<1>1. CASE d.json = Absent
  BY <1>1 DEF WithBackup
<1>2. CASE d.json # Absent
  <2>1. FileOK(new)
    <3>1. FileOK(d.json)
      BY DEF DiskOK
    <3>2. {"idx", "ok"} \subseteq DOMAIN new /\ new.idx = d.json.idx /\ new.ok = (d.json.ok /\ ok)
      OBVIOUS
    <3> HIDE DEF new
    <3>3. new.ok \in BOOLEAN /\ (new.ok => d.json.ok)
      BY <3>1, <3>2 DEF FileOK
    <3> QED
      BY <3>1, <3>2, <3>3 DEF FileOK
  <2> HIDE DEF new
  <2>2. /\ baks \in Seq({new} \cup Among(d.baks))
        /\ Len(baks) = Len(d.baks) + 1 /\ baks[1] = new
        /\ \A i \in DOMAIN d.baks : i + 1 \in DOMAIN baks /\ baks[i + 1] = d.baks[i]
        /\ \A i \in DOMAIN baks : i # 1 => i - 1 \in DOMAIN d.baks /\ baks[i] = d.baks[i - 1]
    BY DEF DiskOK
  <2>3. /\ DOMAIN e = {"json", "bin", "fresh", "baks"}
        /\ e.json = d.json /\ e.bin = d.bin /\ e.fresh = d.fresh /\ e.baks = baks
    BY <1>2 DEF DiskOK, WithBackup, new
  <2> HIDE DEF baks, e
  <2>4. \A i \in DOMAIN baks : FileOK(baks[i])
    BY <2>1, <2>2 DEF DiskOK
  <2>5. baks \in Seq(Among(baks))
    BY <2>2, SeqOfItsOwn
  <2>6. DiskOK(e)
    BY <2>3, <2>4, <2>5 DEF DiskOK
  <2>7. Readable(d.baks) # {} => Readable(baks) # {}
    BY <2>2 DEF Readable
  <2> QED
    BY <2>3, <2>6, <2>7 DEF e
<1> QED
  BY <1>1, <1>2

\* The others are removed.
LEMMA PrunedIs ==
  ASSUME NEW d, DiskOK(d), NEW p
  PROVE  LET e == Pruned(d, p)
         IN  DiskOK(e) /\ e.json = d.json /\ e.bin = d.bin /\ e.fresh = d.fresh
<1> DEFINE e == Pruned(d, p)
           own == Own(d.baks, p)
           first == CHOOSE i \in own : \A j \in own : i <= j
           baks == IF own = {} THEN <<>> ELSE <<d.baks[first]>>
<1>1. /\ DOMAIN e = {"json", "bin", "fresh", "baks"}
      /\ e.json = d.json /\ e.bin = d.bin /\ e.fresh = d.fresh /\ e.baks = baks
  BY DEF DiskOK, Pruned
<1>2. own \in SUBSET Nat /\ own \subseteq DOMAIN d.baks
  BY DEF Own, DiskOK
<1>3. \A i \in DOMAIN baks : FileOK(baks[i])
  <2>1. CASE own = {}
    BY <2>1
  <2>2. CASE own # {}
    <3>1. first \in own
      <4> HIDE DEF own
      <4>1. \E i \in own : \A j \in own : i <= j
        BY <1>2, <2>2, LeastNatural
      <4> QED
        BY <4>1
    <3>2. FileOK(d.baks[first])
      BY <1>2, <3>1 DEF DiskOK
    <3> DEFINE b == d.baks[first]
    <3>3. DOMAIN <<b>> = {1} /\ <<b>>[1] = b
      <4> HIDE DEF b
      <4> QED
        OBVIOUS
    <3> HIDE DEF first, own
    <3> QED
      BY <2>2, <3>2, <3>3
  <2> QED
    BY <2>1, <2>2
<1>4. \E V : baks \in Seq(V)
  <2> HIDE DEF own, first
  <2>1. <<>> \in Seq({}) /\ <<d.baks[first]>> \in Seq({d.baks[first]})
    OBVIOUS
  <2> QED
    BY <2>1
<1> HIDE DEF baks, e
<1>5. baks \in Seq(Among(baks))
  BY <1>4, SeqOfItsOwn
<1>6. DiskOK(e)
  BY <1>1, <1>3, <1>5 DEF DiskOK
<1> QED
  BY <1>1, <1>6 DEF e

\* A power cut tears a file.
LEMMA TornIs ==
  ASSUME NEW d, DiskOK(d), NEW e,
         \/ e = [d EXCEPT !.json.ok = FALSE]
         \/ e = [d EXCEPT !.bin.ok = FALSE]
         \/ d.baks # <<>> /\ e = [d EXCEPT !.baks[1].ok = FALSE]
  PROVE  /\ DiskOK(e) /\ e.fresh = d.fresh
         /\ e.json.ok => e.json = d.json
         /\ e.bin.ok => e.bin = d.bin
<1>1. CASE e = [d EXCEPT !.json.ok = FALSE]
  <2>1. DOMAIN e = {"json", "bin", "fresh", "baks"}
        /\ e.json = [d.json EXCEPT !.ok = FALSE] /\ e.bin = d.bin /\ e.fresh = d.fresh /\ e.baks = d.baks
    BY <1>1 DEF DiskOK
  <2> QED
    BY <2>1, FilesOK DEF DiskOK, FileOK
<1>2. CASE e = [d EXCEPT !.bin.ok = FALSE]
  <2>1. DOMAIN e = {"json", "bin", "fresh", "baks"}
        /\ e.bin = [d.bin EXCEPT !.ok = FALSE] /\ e.json = d.json /\ e.fresh = d.fresh /\ e.baks = d.baks
    BY <1>2 DEF DiskOK
  <2> QED
    BY <2>1, FilesOK DEF DiskOK, FileOK
<1>3. CASE d.baks # <<>> /\ e = [d EXCEPT !.baks[1].ok = FALSE]
  <2> DEFINE torn == [d.baks[1] EXCEPT !.ok = FALSE]
             baks == [d.baks EXCEPT ![1] = torn]
  <2>1. DOMAIN e = {"json", "bin", "fresh", "baks"}
        /\ e.baks = baks /\ e.json = d.json /\ e.fresh = d.fresh /\ e.bin = d.bin
    BY <1>3 DEF DiskOK
  <2>2. 1 \in DOMAIN d.baks
    BY <1>3 DEF DiskOK
  <2>3. FileOK(torn)
    BY <2>2, FilesOK DEF DiskOK
  <2> HIDE DEF torn
  <2>4. baks \in Seq({torn} \cup Among(d.baks)) /\ DOMAIN baks = DOMAIN d.baks
        /\ \A i \in DOMAIN baks : baks[i] = IF i = 1 THEN torn ELSE d.baks[i]
    BY <2>2 DEF DiskOK
  <2> HIDE DEF baks
  <2>5. baks \in Seq(Among(baks)) /\ \A i \in DOMAIN baks : FileOK(baks[i])
    BY <2>3, <2>4, SeqOfItsOwn DEF DiskOK
  <2> QED
    BY <2>1, <2>5 DEF DiskOK
<1> QED
  BY <1>1, <1>2, <1>3

-----------------------------------------------------------------------------
(* The invariant.  What a run is about to write is a good index; a refresh *)
(* that rotates the backups has a JSON or a sidecar that loads; and as     *)
(* long as runs do not overlap, one writes at a time, and a fresh sidecar  *)
(* is the JSON's.                                                          *)

RunFields == {"pc", "cmd", "tpl", "force", "rs", "old", "skills", "idx", "backup", "locked"}
WritingPcs == {"roots", "plan", "embed", "backup", "prune", "json", "bin"}

RunOK(r, d) ==
  /\ DOMAIN r = RunFields
  /\ r.pc # "idle" => r.cmd \in {"build", "refresh"}
  /\ r.pc = "embed" => r.old = NoIndex \/ (Good(r.old) /\ SpecForIndex(r.old))
  /\ r.pc \in {"backup", "prune", "json", "bin"} => Good(r.idx)
  /\ r.pc \in {"backup", "prune"} => r.backup
  /\ r.pc = "bin" => d.json.ok
  /\ r.pc \in {"embed", "backup", "prune"} /\ r.backup /\ r.cmd # "build" => d.json.ok \/ d.bin.ok

CountsOK == /\ DOMAIN run = Runs
            /\ serves \in DOMAIN Dim
            /\ "tears" \in DOMAIN left /\ left.tears \in Int
RunsOK == \A p \in Runs : RunOK(run[p], disk)
Alone == ~overlap =>
  /\ \A p, q \in Runs : run[p].pc \in WritingPcs /\ run[q].pc \in WritingPcs => p = q
  /\ disk.fresh /\ disk.bin.ok /\ disk.json.ok => disk.bin.idx = disk.json.idx
  /\ \A p \in Runs : run[p].pc = "bin" => disk.json.idx = run[p].idx

IndexInv == CountsOK /\ DiskOK(disk) /\ RunsOK /\ Alone

LEMMA IdleIs == \A d : RunOK(Idle, d) /\ Idle.pc = "idle"
BY DEF RunOK, Idle, RunFields

LEMMA IndexInvInit == IndexInit => IndexInv
<1> SUFFICES ASSUME IndexInit PROVE IndexInv
  OBVIOUS
<1>1. PICK c \in IndexConfigs : /\ fs = c.fs /\ recorded = c.recorded /\ disk = c.disk
                                /\ left = c.left /\ serves = c.serves
  BY DEF IndexInit
<1>2. /\ run = [p \in Runs |-> Idle] /\ overlap = FALSE
  BY DEF IndexInit
<1>3. /\ DOMAIN disk = {"json", "bin", "fresh", "baks"}
      /\ disk.baks \in Seq(Among(disk.baks))
      /\ disk.fresh /\ disk.bin.ok /\ disk.json.ok => disk.bin.idx = disk.json.idx
      /\ \A f \in {disk.json, disk.bin} \cup Among(disk.baks) :
           /\ DOMAIN Absent \subseteq DOMAIN f /\ f.ok \in BOOLEAN
           /\ f.ok => /\ DOMAIN f.idx = DOMAIN Build({}, "raw", serves)
                      /\ OneSpace(f.idx)
                      /\ f.idx.dim = 0 => DOMAIN f.idx.vec = {}
      /\ "tears" \in DOMAIN left /\ left.tears \in Nat /\ serves \in DOMAIN Dim
  BY <1>1, IndexAssumption
<1>4. DOMAIN Absent = {"idx", "ok"} /\ DOMAIN Build({}, "raw", serves) = Fields
  BY DEF Absent, Build, Fields
<1>5. \A f \in {disk.json, disk.bin} \cup Among(disk.baks) : FileOK(f)
  BY <1>3, <1>4 DEF FileOK, Good, Measured
<1>6. DiskOK(disk)
  BY <1>3, <1>5 DEF DiskOK, Among
<1>7. CountsOK /\ RunsOK /\ Alone
  BY <1>2, <1>3, IdleIs DEF CountsOK, RunsOK, Alone, WritingPcs
<1> QED
  BY <1>6, <1>7 DEF IndexInv

LEMMA SpendKeeps ==
  ASSUME CountsOK, NEW what, Spend(what)
  PROVE  "tears" \in DOMAIN left' /\ left'.tears \in Int
BY DEF CountsOK, Spend

\* A run goes on, or ends, and does not touch the JSON or the sidecar; it only
\* begins to write when nobody writes, or the runs overlap.
LEMMA RunGoesOn ==
  ASSUME IndexInv, NEW p \in Runs, NEW r, run' = [run EXCEPT ![p] = r],
         RunOK(r, disk), r.pc # "bin",
         DiskOK(disk'), disk'.json = disk.json, disk'.bin = disk.bin, disk'.fresh = disk.fresh,
         serves' = serves, left' = left \/ \E what : Spend(what),
         ~overlap' => ~overlap,
         ~overlap' /\ r.pc \in WritingPcs =>
           run[p].pc \in WritingPcs \/ \A q \in Runs : run[q].pc \notin WritingPcs
  PROVE  IndexInv'
<1>1. DOMAIN run' = Runs /\ run'[p] = r /\ \A q \in Runs : q # p => run'[q] = run[q]
  BY DEF IndexInv, CountsOK
<1>2. CountsOK'
  BY <1>1, SpendKeeps DEF IndexInv, CountsOK
<1>3. RunsOK'
  BY <1>1 DEF IndexInv, RunsOK, RunOK
<1>4. Alone'
  <2> SUFFICES ASSUME ~overlap' PROVE Alone'
    BY DEF Alone
  <2>1. \A a, b \in Runs : run'[a].pc \in WritingPcs /\ run'[b].pc \in WritingPcs => a = b
    BY <1>1 DEF IndexInv, Alone
  <2>2. \A q \in Runs : run'[q].pc = "bin" => disk'.json.idx = run'[q].idx
    BY <1>1 DEF IndexInv, Alone
  <2> QED
    BY <2>1, <2>2 DEF IndexInv, Alone
<1> QED
  BY <1>2, <1>3, <1>4 DEF IndexInv

\* What only concerns the world around the index.
LEMMA AroundGoesOn ==
  ASSUME IndexInv, UNCHANGED <<disk, run, overlap>>, serves' \in DOMAIN Dim,
         left' = left \/ \E what : Spend(what)
  PROVE  IndexInv'
<1>1. CountsOK'
  BY SpendKeeps DEF IndexInv, CountsOK
<1> QED
  BY <1>1 DEF IndexInv, RunsOK, Alone

\* The ways into a run and out of it, which write nothing.
LEMMA EnterKeeps ==
  ASSUME IndexInv, NEW p \in Runs,
         \/ \E cmd \in {"build", "refresh"} : \E tpl, force : Begin(p, cmd, tpl, force)
         \/ StandDown(p) \/ SeesStale(p) \/ Takeover(p)
  PROVE  IndexInv'
<1>1. RunOK(run[p], disk) /\ DOMAIN run[p] = RunFields /\ DiskOK(disk)
  BY DEF IndexInv, RunsOK, RunOK
<1>2. ASSUME NEW cmd \in {"build", "refresh"}, NEW tpl, NEW force, Begin(p, cmd, tpl, force) PROVE IndexInv'
  <2> DEFINE r == [Idle EXCEPT !.pc = "lock", !.cmd = cmd, !.tpl = tpl, !.force = force]
  <2>1. RunOK(r, disk) /\ r.pc = "lock"
    BY DEF RunOK, RunFields, Idle
  <2>2. run' = [run EXCEPT ![p] = r] /\ Spend(cmd) /\ UNCHANGED <<disk, serves, overlap>>
    BY <1>2 DEF Begin
  <2> HIDE DEF r
  <2> QED
    BY <1>1, <2>1, <2>2, RunGoesOn DEF WritingPcs
<1>3. CASE StandDown(p)
  <2>1. run' = [run EXCEPT ![p] = Idle] /\ UNCHANGED <<disk, serves, left, overlap>>
    BY <1>3 DEF StandDown
  <2> QED
    BY <1>1, <2>1, IdleIs, RunGoesOn DEF WritingPcs
<1>4. ASSUME NEW pc \in {"stale", "lock"}, Goto(p, pc), UNCHANGED <<disk, serves, left, overlap>>,
             run[p].pc # "idle"
      PROVE  IndexInv'
  <2> DEFINE r == [run[p] EXCEPT !.pc = pc]
  <2>1. RunOK(r, disk) /\ r.pc = pc
    BY <1>1, <1>4 DEF RunOK, RunFields
  <2>2. run' = [run EXCEPT ![p] = r]
    BY <1>4 DEF Goto
  <2> HIDE DEF r
  <2> QED
    BY <1>1, <1>4, <2>1, <2>2, RunGoesOn DEF WritingPcs
<1>5. CASE SeesStale(p) \/ Takeover(p)
  BY <1>4, <1>5 DEF SeesStale, Takeover, At
<1> QED
  BY <1>2, <1>3, <1>5

\* The lock is taken, or done without: from now on the run writes.
LEMMA LockKeeps ==
  ASSUME IndexInv, NEW p \in Runs, TakeLock(p) \/ LockUnavailable(p)
  PROVE  IndexInv'
<1>1. RunOK(run[p], disk) /\ DOMAIN run[p] = RunFields /\ DiskOK(disk)
  BY DEF IndexInv, RunsOK, RunOK
<1> DEFINE others == \E q \in Runs : Writing(q)
<1>2. /\ UNCHANGED <<disk, serves>> /\ (left' = left \/ Spend("slips"))
      /\ overlap' = (overlap \/ others)
  BY DEF TakeLock, LockUnavailable
<1>3. \E locked : run' = [run EXCEPT ![p].pc = "roots", ![p].locked = locked]
  <2>1. CASE TakeLock(p)
    BY <2>1 DEF TakeLock
  <2>2. CASE LockUnavailable(p)
    <3>1. run' = [run EXCEPT ![p].pc = "roots"]
      BY <2>2 DEF LockUnavailable, Goto
    <3>2. [run EXCEPT ![p].pc = "roots"] = [run EXCEPT ![p].pc = "roots", ![p].locked = run[p].locked]
      BY <1>1 DEF IndexInv, CountsOK, RunFields
    <3> QED
      BY <3>1, <3>2
  <2> QED
    BY <2>1, <2>2
<1>4. PICK locked : run' = [run EXCEPT ![p].pc = "roots", ![p].locked = locked]
  BY <1>3
<1> DEFINE r == [run[p] EXCEPT !.pc = "roots", !.locked = locked]
<1>5. RunOK(r, disk) /\ r.pc = "roots"
  BY <1>1 DEF RunOK, RunFields, TakeLock, LockUnavailable, At
<1>6. run' = [run EXCEPT ![p] = r]
  BY <1>1, <1>4 DEF IndexInv, CountsOK, RunFields
<1>7. ~overlap' => ~overlap /\ ~others
  BY <1>2, Zenon
<1>8. ~others => \A q \in Runs : run[q].pc \notin WritingPcs
  BY DEF Writing, WritingPcs
<1> HIDE DEF r, others
<1> QED
  BY <1>1, <1>2, <1>5, <1>6, <1>7, <1>8, RunGoesOn

\* The run resolves its roots, plans, embeds: in memory only.
LEMMA PlanningKeeps ==
  ASSUME IndexInv, NEW p \in Runs, Resolve(p) \/ Plan(p) \/ Embed(p) \/ EmbedFails(p) \/ JsonFails(p)
  PROVE  IndexInv'
<1>1. RunOK(run[p], disk) /\ DOMAIN run[p] = RunFields /\ DiskOK(disk)
  BY DEF IndexInv, RunsOK, RunOK
<1>2. UNCHANGED <<disk, serves, overlap>> /\ (left' = left \/ \E what : Spend(what))
  BY DEF Resolve, Plan, Embed, EmbedFails, JsonFails
<1>3. ASSUME NEW r, run' = [run EXCEPT ![p] = r], RunOK(r, disk), r.pc # "bin",
             run[p].pc \in WritingPcs
      PROVE  IndexInv'
  BY <1>1, <1>2, <1>3, RunGoesOn
<1>4. run[p].pc \in WritingPcs
  BY DEF Resolve, Plan, Embed, EmbedFails, JsonFails, At, WritingPcs
<1>5. Exit(p) => IndexInv'
  BY <1>3, <1>4, IdleIs DEF Exit
<1>6. CASE Resolve(p)
  <2> DEFINE rr == ResolveRoots(fs, run[p].cmd, recorded)
             r == [run[p] EXCEPT !.pc = "plan", !.rs = rr.rs]
  <2>1. Exit(p) \/ run' = [run EXCEPT ![p].pc = "plan", ![p].rs = rr.rs]
    BY <1>6 DEF Resolve
  <2> HIDE DEF rr
  <2>2. [run EXCEPT ![p].pc = "plan", ![p].rs = rr.rs] = [run EXCEPT ![p] = r]
    BY <1>1 DEF IndexInv, CountsOK, RunFields
  <2>3. RunOK(r, disk) /\ r.pc = "plan"
    BY <1>1, <1>4 DEF RunOK, RunFields, WritingPcs
  <2> HIDE DEF r
  <2> QED
    BY <1>3, <1>4, <1>5, <2>1, <2>2, <2>3
<1>7. CASE Plan(p)
  <2> DEFINE skills == HarvestSkills(fs, run[p].rs)
             src == Source(disk)
             fresh == run[p].cmd = "build" \/ src = "missing"
             old == IF fresh THEN NoIndex ELSE LoadFast(disk)
             rot == Rotates(run[p].cmd, src)
             r == [run[p] EXCEPT !.pc = "embed", !.skills = skills, !.old = old, !.backup = rot]
  <2>1. \/ Exit(p)
        \/ /\ run' = [run EXCEPT ![p].pc = "embed", ![p].skills = skills, ![p].old = old, ![p].backup = rot]
           /\ fresh \/ ~ Refused(p, src, skills)
    BY <1>7 DEF Plan
  <2>2. fresh \/ ~ Refused(p, src, skills) => old = NoIndex \/ (Good(old) /\ SpecForIndex(old))
    <3>1. CASE fresh
      BY <3>1
    <3>2. CASE ~ fresh
      <4>1. ~ Refused(p, src, skills) => SpecForIndex(LoadFast(disk))
        BY <3>2 DEF Refused
      <4>2. LoadFast(disk) = NoIndex \/ Good(LoadFast(disk))
        BY <1>1, Loads
      <4> QED
        BY <3>2, <4>1, <4>2
    <3> QED
      BY <3>1, <3>2
  <2>3. rot /\ run[p].cmd # "build" => disk.json.ok \/ disk.bin.ok
    BY DEF Rotates, Source, BinFresh
  <2> HIDE DEF skills, src, fresh, old, rot
  <2>4. [run EXCEPT ![p].pc = "embed", ![p].skills = skills, ![p].old = old, ![p].backup = rot]
        = [run EXCEPT ![p] = r]
    BY <1>1 DEF IndexInv, CountsOK, RunFields
  <2>5. /\ DOMAIN r = RunFields /\ r.pc = "embed" /\ r.old = old /\ r.backup = rot
        /\ r.cmd = run[p].cmd
    BY <1>1 DEF RunFields
  <2> HIDE DEF r
  <2>6. fresh \/ ~ Refused(p, src, skills) => RunOK(r, disk)
    BY <1>1, <1>4, <2>2, <2>3, <2>5 DEF RunOK, WritingPcs
  <2> QED
    BY <1>3, <1>4, <1>5, <2>1, <2>4, <2>5, <2>6
<1>8. CASE Embed(p)
  <2> DEFINE idx == IF run[p].old = NoIndex THEN Build(run[p].skills, run[p].tpl, serves)
                    ELSE ApplyRefresh(run[p].old, run[p].skills, serves)
             pc == IF run[p].backup THEN "backup" ELSE "json"
             r == [run[p] EXCEPT !.idx = idx, !.pc = pc]
  <2>1. At(p, "embed") /\ (Exit(p) \/ (run' = [run EXCEPT ![p].idx = idx, ![p].pc = pc] /\ idx # NoIndex))
    BY <1>8 DEF Embed
  <2>2. serves \in DOMAIN Dim
    BY DEF IndexInv, CountsOK
  <2>3. idx # NoIndex => Good(idx)
    <3>1. CASE run[p].old = NoIndex
      BY <2>2, <3>1, BuildIsGood
    <3>2. CASE run[p].old # NoIndex
      BY <1>1, <2>1, <2>2, <3>2, RefreshIsGood DEF RunOK, At
    <3> QED
      BY <3>1, <3>2
  <2> HIDE DEF idx
  <2>4. [run EXCEPT ![p].idx = idx, ![p].pc = pc] = [run EXCEPT ![p] = r]
    BY <1>1 DEF IndexInv, CountsOK, RunFields
  <2>5. /\ DOMAIN r = RunFields /\ r.pc = pc /\ r.idx = idx /\ r.backup = run[p].backup
        /\ r.cmd = run[p].cmd
    BY <1>1 DEF RunFields
  <2> HIDE DEF r
  <2>6. idx # NoIndex => RunOK(r, disk) /\ r.pc # "bin"
    BY <1>1, <2>1, <2>3, <2>5 DEF RunOK, At
  <2> QED
    BY <1>3, <1>4, <1>5, <2>1, <2>4, <2>6
<1>9. CASE EmbedFails(p) \/ JsonFails(p)
  BY <1>5, <1>9 DEF EmbedFails, JsonFails
<1> QED
  BY <1>6, <1>7, <1>8, <1>9

\* The backups are rotated, or half of that is done when the run dies.
LEMMA RotationKeeps ==
  ASSUME IndexInv, NEW p \in Runs, CopyBackup(p) \/ CopyFails(p) \/ PruneBackups(p) \/ Kill(p)
  PROVE  IndexInv'
<1>1. RunOK(run[p], disk) /\ DOMAIN run[p] = RunFields /\ DiskOK(disk)
  BY DEF IndexInv, RunsOK, RunOK
<1>2. UNCHANGED <<serves, overlap>> /\ (left' = left \/ \E what : Spend(what))
  BY DEF CopyBackup, CopyFails, PruneBackups, Kill
<1>3. disk' \in {disk, WithBackup(disk, TRUE, p), WithBackup(disk, FALSE, p), Pruned(disk, p)}
  BY DEF CopyBackup, CopyFails, PruneBackups, Kill
<1>4. DiskOK(disk') /\ disk'.json = disk.json /\ disk'.bin = disk.bin /\ disk'.fresh = disk.fresh
  <2>1. CASE disk' = disk
    BY <1>1, <2>1
  <2>2. ASSUME NEW ok \in BOOLEAN, disk' = WithBackup(disk, ok, p)
        PROVE  /\ DiskOK(disk') /\ disk'.json = disk.json /\ disk'.bin = disk.bin
               /\ disk'.fresh = disk.fresh
    BY <1>1, <2>2, WithBackupIs
  <2>3. CASE disk' = Pruned(disk, p)
    BY <1>1, <2>3, PrunedIs
  <2> QED
    BY <1>3, <2>1, <2>2, <2>3
<1>5. ASSUME NEW r, run' = [run EXCEPT ![p] = r], RunOK(r, disk), r.pc # "bin",
             r.pc \in WritingPcs => run[p].pc \in WritingPcs
      PROVE  IndexInv'
  BY <1>1, <1>2, <1>4, <1>5, RunGoesOn
<1>6. ASSUME NEW pc \in {"prune", "json"}, Goto(p, pc), run[p].pc \in {"backup", "prune"}
      PROVE  IndexInv'
  <2> DEFINE r == [run[p] EXCEPT !.pc = pc]
  <2>1. RunOK(r, disk) /\ r.pc = pc
    BY <1>1, <1>6 DEF RunOK, RunFields
  <2>2. run' = [run EXCEPT ![p] = r]
    BY <1>6 DEF Goto
  <2> HIDE DEF r
  <2> QED
    BY <1>5, <1>6, <2>1, <2>2 DEF WritingPcs
<1>7. Kill(p) => IndexInv'
  BY <1>5, IdleIs DEF Kill, WritingPcs
<1> QED
  BY <1>6, <1>7 DEF CopyBackup, CopyFails, PruneBackups, At

\* The JSON is saved: the sidecar is older from now on.
LEMMA SaveJsonKeeps ==
  ASSUME IndexInv, NEW p \in Runs, SaveJson(p)
  PROVE  IndexInv'
<1>1. RunOK(run[p], disk) /\ DOMAIN run[p] = RunFields /\ DiskOK(disk) /\ run[p].pc = "json"
      /\ Good(run[p].idx)
  BY DEF IndexInv, RunsOK, RunOK, SaveJson, At
<1>2. UNCHANGED <<serves, overlap, left>> /\ disk' = WithJson(disk, run[p].idx) /\ Goto(p, "bin")
  BY DEF SaveJson
<1>3. /\ DiskOK(disk') /\ disk'.json = Whole(run[p].idx) /\ disk'.bin = disk.bin
      /\ disk'.fresh = FALSE
  BY <1>1, <1>2, WithJsonIs
<1>4. disk'.json.ok /\ disk'.json.idx = run[p].idx
  BY <1>3 DEF Whole
<1> DEFINE r == [run[p] EXCEPT !.pc = "bin"]
<1>5. /\ DOMAIN run' = Runs /\ run'[p] = r /\ \A q \in Runs : q # p => run'[q] = run[q]
      /\ DOMAIN r = RunFields /\ r.pc = "bin" /\ r.idx = run[p].idx /\ r.cmd = run[p].cmd
  BY <1>1, <1>2 DEF IndexInv, CountsOK, Goto, RunFields
<1> HIDE DEF r
<1>6. CountsOK'
  BY <1>2, <1>5 DEF IndexInv, CountsOK
<1>7. RunsOK'
  BY <1>1, <1>4, <1>5 DEF IndexInv, RunsOK, RunOK
<1>8. Alone'
  <2> SUFFICES ASSUME ~overlap' PROVE Alone'
    BY DEF Alone
  <2>1. \A q \in Runs : run[q].pc \in WritingPcs => q = p
    BY <1>1, <1>2 DEF IndexInv, Alone, WritingPcs
  <2>2. \A q \in Runs : run'[q].pc \in WritingPcs => q = p
    BY <1>5, <2>1
  <2>3. \A q \in Runs : run'[q].pc = "bin" => disk'.json.idx = run'[q].idx
    BY <1>4, <1>5, <2>2 DEF WritingPcs
  <2> QED
    BY <1>3, <2>2, <2>3 DEF Alone
<1> QED
  BY <1>3, <1>6, <1>7, <1>8 DEF IndexInv

\* The sidecar is saved, or taken away, after its JSON.
LEMMA SaveBinKeeps ==
  ASSUME IndexInv, NEW p \in Runs, SaveBin(p) \/ SaveBinFails(p)
  PROVE  IndexInv'
<1>1. RunOK(run[p], disk) /\ DiskOK(disk) /\ run[p].pc = "bin" /\ Good(run[p].idx) /\ disk.json.ok
  BY DEF IndexInv, RunsOK, RunOK, SaveBin, SaveBinFails, At
<1>2. /\ UNCHANGED <<serves, overlap>> /\ (left' = left \/ Spend("slips"))
      /\ disk' \in {WithBin(disk, run[p].idx), WithoutBin(disk)} /\ run' = [run EXCEPT ![p] = Idle]
  BY DEF SaveBin, SaveBinFails, Exit
<1>3. /\ DiskOK(disk') /\ disk'.json = disk.json
      /\ disk'.bin = Whole(run[p].idx) \/ disk'.bin = Absent
  <2>1. CASE disk' = WithBin(disk, run[p].idx)
    BY <1>1, <2>1, WithBinIs
  <2>2. CASE disk' = WithoutBin(disk)
    BY <1>1, <2>2, WithoutBinIs
  <2> QED
    BY <1>2, <2>1, <2>2
<1>4. /\ DOMAIN run' = Runs /\ run'[p] = Idle /\ \A q \in Runs : q # p => run'[q] = run[q]
  BY <1>2 DEF IndexInv, CountsOK
<1>5. CountsOK'
  BY <1>2, <1>4, SpendKeeps DEF IndexInv, CountsOK
<1>6. RunsOK'
  BY <1>1, <1>3, <1>4, IdleIs DEF IndexInv, RunsOK, RunOK
<1>7. Alone'
  <2> SUFFICES ASSUME ~overlap' PROVE Alone'
    BY DEF Alone
  <2>1. disk.json.idx = run[p].idx
    BY <1>1, <1>2 DEF IndexInv, Alone
  <2>2. disk'.bin.ok => disk'.bin.idx = disk'.json.idx
    BY <1>3, <2>1 DEF Whole, Absent
  <2>3. \A q \in Runs : run'[q].pc \notin WritingPcs
    BY <1>1, <1>2, <1>4, IdleIs DEF IndexInv, Alone, WritingPcs
  <2> QED
    BY <2>2, <2>3 DEF Alone, WritingPcs
<1> QED
  BY <1>3, <1>5, <1>6, <1>7 DEF IndexInv

\* A power cut ends every run.
LEMMA PowerCutKeeps == ASSUME IndexInv, PowerCut PROVE IndexInv'
<1>1. /\ DiskOK(disk') /\ disk'.fresh = disk.fresh
      /\ disk'.json.ok => disk'.json = disk.json
      /\ disk'.bin.ok => disk'.bin = disk.bin
  BY TornIs DEF IndexInv, PowerCut
<1>2. run' = [q \in Runs |-> Idle] /\ UNCHANGED <<serves, overlap>> /\ Spend("tears")
  BY DEF PowerCut
<1>3. CountsOK' /\ RunsOK'
  BY <1>2, SpendKeeps, IdleIs DEF IndexInv, CountsOK, RunsOK
<1>4. Alone'
  BY <1>1, <1>2, IdleIs DEF IndexInv, Alone, WritingPcs
<1> QED
  BY <1>1, <1>3, <1>4 DEF IndexInv

\* A binary that knows no templates writes both files while nobody runs.
LEMMA ForeignKeeps == ASSUME IndexInv, ForeignRefresh PROVE IndexInv' /\ disk'.json.ok
<1> DEFINE old == LoadFast(disk)
           new == ApplyRefresh([old EXCEPT !.tpl = "raw"], HarvestSkills(fs, recorded), serves)
           foreign == [new EXCEPT !.tpl = old.tpl]
<1>1. /\ \A p \in Runs : run[p].pc = "idle"
      /\ old # NoIndex /\ new # NoIndex
      /\ disk' = WithBin(WithJson(disk, foreign), foreign)
      /\ UNCHANGED <<run, serves, overlap>> /\ Spend("foreign")
  BY DEF ForeignRefresh, At
<1>2. DiskOK(disk) /\ Good(old)
  BY <1>1, Loads DEF IndexInv
<1>3. serves \in DOMAIN Dim
  BY DEF IndexInv, CountsOK
<1>4. Good(foreign)
  <2> HIDE DEF old
  <2> QED
    BY <1>1, <1>2, <1>3, ForeignIsGood DEF Foreign
<1> HIDE DEF foreign
<1> DEFINE d == WithJson(disk, foreign)
<1>5. DiskOK(d) /\ d.json = Whole(foreign)
  BY <1>2, <1>4, WithJsonIs
<1>6. disk' = WithBin(d, foreign)
  BY <1>1
<1> HIDE DEF d
<1>7. DiskOK(disk') /\ disk'.json = Whole(foreign) /\ disk'.bin = Whole(foreign)
  BY <1>4, <1>5, <1>6, WithBinIs
<1>8. CountsOK' /\ RunsOK'
  BY <1>1, SpendKeeps DEF IndexInv, CountsOK, RunsOK, RunOK
<1>9. Alone'
  BY <1>1, <1>7 DEF Alone, WritingPcs
<1> QED
  BY <1>7, <1>8, <1>9 DEF IndexInv, Whole

LEMMA AroundKeeps == ASSUME IndexInv, Around PROVE IndexInv'
<1>1. CASE PowerCut
  BY <1>1, PowerCutKeeps
<1>2. CASE ForeignRefresh
  BY <1>2, ForeignKeeps
<1>3. CASE EmbedderSwapped
  <2>1. serves' \in DOMAIN Dim
    BY <1>3 DEF EmbedderSwapped, IndexInv, CountsOK
  <2> QED
    BY <1>3, <2>1, AroundGoesOn DEF EmbedderSwapped
<1>4. CASE LockAges \/ HandEdit
  BY <1>4, AroundGoesOn DEF LockAges, HandEdit, IndexInv, CountsOK
<1>5. CASE \E plugin \in Plugins : PluginUpdates(plugin) \/ PluginRemoved(plugin)
  BY <1>5, AroundGoesOn DEF PluginUpdates, PluginRemoved, Moves, IndexInv, CountsOK
<1>6. CASE \E p \in Paths : PluginUnpacks(p) \/ DirLost(p) \/ DirBack(p) \/ Edit(p)
  BY <1>6, AroundGoesOn DEF PluginUnpacks, DirLost, DirBack, Edit, Moves, IndexInv, CountsOK
<1> QED
  BY <1>1, <1>2, <1>3, <1>4, <1>5, <1>6 DEF Around

LEMMA IndexInvStep == IndexInv /\ [IndexNext]_indexVars => IndexInv'
<1> SUFFICES ASSUME IndexInv, [IndexNext]_indexVars PROVE IndexInv'
  OBVIOUS
<1>1. CASE Around
  BY <1>1, AroundKeeps
<1>2. ASSUME NEW p \in Runs, Step(p) PROVE IndexInv'
  BY <1>2, EnterKeeps, LockKeeps, PlanningKeeps, RotationKeeps, SaveJsonKeeps, SaveBinKeeps DEF Step
<1>3. ASSUME NEW p \in Runs, Kill(p) \/ \E cmd \in {"build", "refresh"} : \E tpl, force : Begin(p, cmd, tpl, force)
      PROVE  IndexInv'
  BY <1>3, EnterKeeps, RotationKeeps
<1>4. CASE UNCHANGED indexVars
  BY <1>4, AroundGoesOn DEF indexVars, IndexInv, CountsOK
<1> QED
  BY <1>1, <1>2, <1>3, <1>4 DEF IndexNext

LEMMA IndexInvAlways == IndexSpec => []IndexInv
BY IndexInvInit, IndexInvStep, PTL DEF IndexSpec

-----------------------------------------------------------------------------
\* As long as runs do not overlap, the hook loads what index.json says, from
\* whichever of the files: a sidecar that is fresh is the JSON's, whatever
\* fails, is killed or torn between the two writes.
THEOREM HookReadsTheJsonAlways == IndexSpec => []HookReadsTheJson
<1>1. IndexInv => HookReadsTheJson
  <2> SUFFICES ASSUME IndexInv, ~overlap, disk.json.ok PROVE LoadFast(disk) = disk.json.idx
    BY DEF HookReadsTheJson
  <2>1. disk.json # Absent
    BY DEF Absent
  <2> QED
    BY <2>1 DEF IndexInv, Alone, LoadFast, Source, BinFresh
<1> QED
  BY <1>1, IndexInvAlways, PTL

\* Whatever index is loaded, one that may be queried holds vectors of one
\* template and one dimension: also after a binary without templates, a swapped
\* embedder, a removal of every skill, or a repair from a sidecar or a backup.
\* Models of one dimension are not told apart, here as in the code.
THEOREM OneVectorSpaceAlways == IndexSpec => []OneVectorSpace
<1>1. IndexInv => OneVectorSpace
  BY Loads DEF IndexInv, OneVectorSpace, Good
<1> QED
  BY <1>1, IndexInvAlways, PTL

\* A write that leaves the JSON or the sidecar readable leaves the index loadable.
LEMMA StillLoads ==
  ASSUME DiskOK(disk'), disk'.json.ok \/ disk'.bin.ok
  PROVE  LoadFast(disk') # NoIndex
BY Loads DEF Copies

\* The last copy of the index the hook can load is taken by nothing but a power
\* cut, or a build that rotates a torn JSON over the backup.
LastCopyStep ==
  LoadFast(disk) # NoIndex =>
    \/ LoadFast(disk') # NoIndex
    \/ left'.tears # left.tears
    \/ \E p \in Runs : At(p, "prune") /\ run[p].cmd = "build"

LEMMA LastCopyOfARun ==
  ASSUME IndexInv, IndexInv', NEW p \in Runs, Step(p) \/ Kill(p), LoadFast(disk) # NoIndex
  PROVE  LastCopyStep
<1>1. RunOK(run[p], disk) /\ DiskOK(disk) /\ DiskOK(disk')
  BY DEF IndexInv, RunsOK
<1>2. CASE disk' = disk
  BY <1>2 DEF LastCopyStep
<1>3. CASE \E ok \in BOOLEAN : disk' = WithBackup(disk, ok, p)
  <2>1. Copies(disk) => Copies(disk')
    BY <1>1, <1>3, WithBackupIs DEF Copies
  <2> QED
    BY <1>1, <2>1, Loads DEF LastCopyStep
<1>4. CASE PruneBackups(p)
  <2>1. disk'.json = disk.json /\ disk'.bin = disk.bin
    BY <1>1, <1>4, PrunedIs DEF PruneBackups
  <2>2. run[p].cmd # "build" => disk.json.ok \/ disk.bin.ok
    BY <1>1, <1>4 DEF RunOK, PruneBackups, At
  <2> QED
    BY <1>1, <1>4, <2>1, <2>2, StillLoads DEF LastCopyStep, PruneBackups
<1>5. CASE SaveJson(p)
  <2>1. disk'.json = Whole(run[p].idx)
    BY <1>1, <1>5, WithJsonIs DEF SaveJson, RunOK, At
  <2> QED
    BY <1>1, <2>1, StillLoads DEF Whole, LastCopyStep
<1>6. CASE SaveBin(p)
  <2>1. disk'.bin = Whole(run[p].idx)
    BY <1>1, <1>6, WithBinIs DEF SaveBin, RunOK, At
  <2> QED
    BY <1>1, <2>1, StillLoads DEF Whole, LastCopyStep
<1>7. CASE SaveBinFails(p)
  <2>1. disk'.json = disk.json /\ disk.json.ok
    BY <1>1, <1>7, WithoutBinIs DEF SaveBinFails, RunOK, At
  <2> QED
    BY <1>1, <2>1, StillLoads DEF LastCopyStep
<1>8. Step(p) \/ Kill(p) =>
        \/ disk' = disk \/ (\E ok \in BOOLEAN : disk' = WithBackup(disk, ok, p))
        \/ PruneBackups(p) \/ SaveJson(p) \/ SaveBin(p) \/ SaveBinFails(p)
  BY DEF Step, Kill, TakeLock, LockUnavailable, StandDown, SeesStale, Takeover, Resolve, Plan,
         Embed, EmbedFails, CopyBackup, CopyFails, JsonFails
<1> QED
  BY <1>2, <1>3, <1>4, <1>5, <1>6, <1>7, <1>8

THEOREM LastCopySurvivesAlways == IndexSpec => LastCopySurvives
<1>1. IndexInv /\ IndexInv' /\ [IndexNext]_indexVars => [LastCopyStep]_indexVars
  <2> SUFFICES ASSUME IndexInv, IndexInv', [IndexNext]_indexVars, LoadFast(disk) # NoIndex
               PROVE  LastCopyStep
    BY DEF LastCopyStep
  <2>1. CASE PowerCut
    <3>1. left'.tears # left.tears
      BY <2>1 DEF PowerCut, Spend, IndexInv, CountsOK
    <3> QED
      BY <3>1 DEF LastCopyStep
  <2>2. CASE ForeignRefresh
    <3>1. disk'.json.ok /\ DiskOK(disk')
      BY <2>2, ForeignKeeps DEF IndexInv
    <3> QED
      BY <3>1, StillLoads DEF LastCopyStep
  <2>3. disk' = disk => LastCopyStep
    BY DEF LastCopyStep
  <2>4. CASE Around /\ ~ PowerCut /\ ~ ForeignRefresh
    BY <2>3, <2>4 DEF Around, LockAges, EmbedderSwapped, HandEdit, PluginUpdates, PluginRemoved,
                      PluginUnpacks, DirLost, DirBack, Edit, Moves
  <2>5. ASSUME NEW p \in Runs, Step(p) \/ Kill(p) PROVE LastCopyStep
    BY <2>5, LastCopyOfARun
  <2>6. ASSUME NEW p \in Runs, NEW cmd \in {"build", "refresh"}, NEW tpl, NEW force, Begin(p, cmd, tpl, force)
        PROVE  LastCopyStep
    BY <2>3, <2>6 DEF Begin
  <2>7. CASE UNCHANGED indexVars
    BY <2>3, <2>7 DEF indexVars
  <2> QED
    BY <2>1, <2>2, <2>4, <2>5, <2>6, <2>7 DEF IndexNext
<1>2. IndexSpec => [][LastCopyStep]_indexVars
  BY <1>1, IndexInvAlways, PTL DEF IndexSpec
<1> QED
  BY <1>2 DEF LastCopySurvives, LastCopyStep

-----------------------------------------------------------------------------
(* roots.json.                                                             *)

LEMMA SetToSeqIs ==
  ASSUME NEW S, IsFiniteSet(S)
  PROVE  SetToSeq(S) \in Seq(S)
<1> DEFINE n == Cardinality(S)
<1>1. n \in Nat /\ ExistsBijection(1 .. n, S)
  BY FS_CardinalityType
<1> HIDE DEF n
<1>2. \E f \in [1 .. n -> S] : IsInjective(f)
  BY <1>1 DEF ExistsBijection, Bijection, Injection, IsInjective
<1>3. SetToSeq(S) = CHOOSE f \in [1 .. n -> S] : IsInjective(f)
  BY DEF SetToSeq, n
<1>4. SetToSeq(S) \in [1 .. n -> S]
  BY <1>2, <1>3
<1> QED
  BY <1>1, <1>4

\* Each position kept is the one of its rank, so none of them is lost.
LEMMA NthOfItsRank ==
  ASSUME NEW S \in SUBSET Nat, IsFiniteSet(S), NEW i \in S
  PROVE  \E k \in 1 .. Cardinality(S) : Nth(S, k) = i
<1> DEFINE Up(x) == {j \in S : j <= x}
           rank == Cardinality(Up(i))
<1>1. \A x \in S : IsFiniteSet(Up(x)) /\ Cardinality(Up(x)) \in Nat
  BY FS_Subset, FS_CardinalityType
<1>2. Cardinality(S) \in Nat /\ rank <= Cardinality(S)
  BY FS_Subset, FS_CardinalityType
<1>3. rank # 0
  BY <1>1, FS_EmptySet
<1>4. ASSUME NEW x \in S, NEW y \in S, x <= y, Cardinality(Up(x)) = Cardinality(Up(y))
      PROVE  x = y
  <2>1. Up(x) \subseteq Up(y)
    <3>1. \A j \in S : j \in Int
      OBVIOUS
    <3>2. \A j \in S : j <= x => j <= y
      BY <1>4, <3>1
    <3> QED
      BY <3>2
  <2>2. Up(x) = Up(y)
    BY <1>1, <1>4, <2>1, FS_Subset
  <2> QED
    BY <1>4, <2>2
<1>5. \A x, y \in S : Cardinality(Up(x)) = Cardinality(Up(y)) => x = y
  BY <1>4
<1>6. Nth(S, rank) = CHOOSE x \in S : Cardinality(Up(x)) = rank
  BY DEF Nth
<1>7. Nth(S, rank) = i
  <2> HIDE DEF Up
  <2> QED
    BY <1>5, <1>6
<1> QED
  BY <1>1, <1>2, <1>3, <1>7

LEMMA OnlyAtIs ==
  ASSUME NEW V, NEW s \in Seq(V), NEW S \in SUBSET DOMAIN s
  PROVE  /\ OnlyAt(s, S) \in Seq(Among(OnlyAt(s, S)))
         /\ \A i \in S : s[i] \in Among(OnlyAt(s, S))
<1> DEFINE t == OnlyAt(s, S)
           n == Cardinality(S)
<1>1. IsFiniteSet(S) /\ S \in SUBSET Nat /\ n \in Nat
  <2>1. DOMAIN s = 1 .. Len(s) /\ Len(s) \in Nat
    OBVIOUS
  <2>2. IsFiniteSet(1 .. Len(s))
    BY <2>1, FS_Interval
  <2> QED
    BY <2>1, <2>2, FS_Subset, FS_CardinalityType
<1>2. DOMAIN t = 1 .. n /\ t = [k \in 1 .. n |-> s[Nth(S, k)]]
  BY DEF OnlyAt
<1>3. \A i \in S : \E k \in 1 .. n : Nth(S, k) = i
  BY <1>1, NthOfItsRank
<1> HIDE DEF t, n
<1>4. t \in [1 .. n -> Among(t)]
  BY <1>2 DEF Among
<1>5. t \in Seq(Among(t))
  BY <1>1, <1>4
<1>6. \A i \in S : s[i] \in Among(t)
  BY <1>2, <1>3 DEF Among
<1> QED
  BY <1>5, <1>6 DEF t

LEMMA JoinedIs ==
  ASSUME NEW V, NEW s \in Seq(V), NEW W, NEW t \in Seq(W)
  PROVE  /\ s \o t \in Seq(Among(s \o t))
         /\ Among(s) \cup Among(t) \subseteq Among(s \o t)
<1> DEFINE u == s \o t
<1>1. /\ u \in Seq(V \cup W) /\ Len(u) = Len(s) + Len(t)
      /\ \A i \in 1 .. Len(s) : u[i] = s[i]
      /\ \A i \in 1 .. Len(t) : u[Len(s) + i] = t[i]
  OBVIOUS
<1> HIDE DEF u
<1>2. u \in Seq(Among(u))
  BY <1>1, SeqOfItsOwn
<1>3. ASSUME NEW x \in Among(s) PROVE x \in Among(u)
  <2>1. PICK i \in 1 .. Len(s) : x = s[i]
    BY DEF Among
  <2>2. i \in DOMAIN u /\ u[i] = x
    BY <1>1, <2>1
  <2> QED
    BY <2>2 DEF Among
<1>4. ASSUME NEW x \in Among(t) PROVE x \in Among(u)
  <2>1. PICK i \in 1 .. Len(t) : x = t[i]
    BY DEF Among
  <2>2. Len(s) + i \in DOMAIN u /\ u[Len(s) + i] = x
    BY <1>1, <2>1
  <2> QED
    BY <2>2 DEF Among
<1> QED
  BY <1>2, <1>3, <1>4 DEF u

LEMMA DiscoverIs == \A f : Discover(f) \in Seq(Paths)
<1> TAKE f
<1> DEFINE user == {p \in Inside : PackOf[p] = UserPack /\ KindOf[p] = "skills" /\ IsDir(f, p)}
           plugins == IF FromManifest(f) # {} THEN FromManifest(f) ELSE ScanCache(f)
<1>1. user \subseteq Paths /\ plugins \subseteq Paths
  BY RootsAssumption DEF FromManifest, ScanCache
<1>2. Discover(f) = SetToSeq(user) \o SetToSeq(plugins \ user)
  BY DEF Discover
<1> HIDE DEF user, plugins
<1>3. IsFiniteSet(user) /\ IsFiniteSet(plugins \ user) /\ plugins \ user \subseteq Paths
  BY <1>1, RootsAssumption, FS_Subset
<1>4. SetToSeq(user) \in Seq(user) /\ SetToSeq(plugins \ user) \in Seq(plugins \ user)
  BY <1>3, SetToSeqIs
<1>5. ASSUME NEW A \in SUBSET Paths, NEW s \in Seq(A) PROVE s \in Seq(Paths)
  OBVIOUS
<1>6. SetToSeq(user) \in Seq(Paths) /\ SetToSeq(plugins \ user) \in Seq(Paths)
  BY <1>1, <1>3, <1>4, <1>5
<1> QED
  BY <1>2, <1>6

\* What resolveRoots writes down: all it found and all an operator's own roots
\* it knew, and for a refresh no pack without a root that had one.
LEMMA ResolvedIs ==
  ASSUME NEW f, NEW cmd, NEW known, known \in Seq(Among(known)),
         ResolveRoots(f, cmd, known).save
  PROVE  LET rs == ResolveRoots(f, cmd, known).rs
         IN  /\ rs \in Seq(Among(rs))
             /\ known # NoFile => \A p \in Among(known) : OperatorOwned(p) => p \in Among(rs)
             /\ known # NoFile /\ cmd = "refresh" =>
                  /\ Away(f, known) # {}
                  /\ \A p \in Away(f, known) : \E q \in Among(rs) : PackOf[q] = PackOf[p]
<1> DEFINE old == IF known = NoFile THEN <<>> ELSE known
           away == Away(f, old)
           found == Discover(f)
           carried == Carried(old, found)
           rs == found \o carried
           dead == IF cmd = "refresh" THEN {PackOf[p] : p \in away} ELSE {}
           kept == {i \in DOMAIN old : old[i] \notin Among(found) /\ OperatorOwned(old[i])}
<1>1. ResolveRoots(f, cmd, known) = Resolved(rs, PacksMissing(dead, rs) = {})
      /\ PacksMissing(dead, rs) = {}
  <2>1. /\ ~ Unresolved.save /\ ~ Resolved(known, FALSE).save
        /\ Resolved(rs, PacksMissing(dead, rs) = {}).save = (PacksMissing(dead, rs) = {})
    BY DEF Unresolved, Resolved
  <2> DEFINE new == Resolved(rs, PacksMissing(dead, rs) = {})
  <2>2. \/ ResolveRoots(f, cmd, known) = Unresolved
        \/ ResolveRoots(f, cmd, known) = Resolved(known, FALSE)
        \/ ResolveRoots(f, cmd, known) = new
    <3> HIDE DEF rs, dead
    <3> QED
      BY DEF ResolveRoots, rs, dead
  <2> HIDE DEF new
  <2>3. ResolveRoots(f, cmd, known) = new
    BY <2>1, <2>2
  <2> QED
    BY <2>1, <2>3 DEF new
<1>2. ResolveRoots(f, cmd, known).rs = rs
  BY <1>1 DEF Resolved
<1>3. \E V : old \in Seq(V)
  <2>1. <<>> \in Seq({})
    OBVIOUS
  <2> QED
    BY <2>1
<1>4. carried = OnlyAt(old, kept)
  BY DEF Carried
<1>5. kept \in SUBSET DOMAIN old
  OBVIOUS
<1>6. carried \in Seq(Among(carried)) /\ \A i \in kept : old[i] \in Among(carried)
  <2> HIDE DEF carried, kept, old
  <2> QED
    BY <1>3, <1>4, <1>5, OnlyAtIs
<1>7. found \in Seq(Paths)
  BY DiscoverIs
<1>8. rs \in Seq(Among(rs)) /\ Among(found) \cup Among(carried) \subseteq Among(rs)
  <2> HIDE DEF found, carried
  <2> QED
    BY <1>6, <1>7, JoinedIs
<1>9. ASSUME known # NoFile, NEW p \in Among(known), OperatorOwned(p) PROVE p \in Among(rs)
  <2>1. PICK i \in DOMAIN old : p = old[i]
    BY <1>9 DEF Among
  <2>2. p \in Among(found) \/ i \in kept
    BY <1>9, <2>1
  <2> HIDE DEF found, carried, kept, old, rs
  <2> QED
    BY <1>6, <1>8, <2>1, <2>2
<1>10. ASSUME known # NoFile, cmd = "refresh" PROVE Away(f, known) # {}
  <2>1. known # BadFile
    BY DEF ResolveRoots, Unresolved
  <2>2. Away(f, known) = {} => ResolveRoots(f, cmd, known) = Resolved(known, FALSE)
    BY <1>10, <2>1 DEF ResolveRoots
  <2> QED
    BY <2>2 DEF Resolved
<1>11. ASSUME known # NoFile, cmd = "refresh", NEW p \in Away(f, known)
       PROVE  \E q \in Among(rs) : PackOf[q] = PackOf[p]
  <2>1. PackOf[p] \in dead
    BY <1>11
  <2> HIDE DEF dead, rs
  <2> QED
    BY <1>1, <2>1 DEF PacksMissing
<1> HIDE DEF rs
<1> QED
  BY <1>2, <1>8, <1>9, <1>10, <1>11

RecordedOK == recorded \in Seq(Among(recorded))

\* Who writes roots.json: a run that resolves its roots, and a typo.
LEMMA RecordedChanges ==
  ASSUME [IndexNext]_indexVars
  PROVE  \/ recorded' = recorded
         \/ recorded' = BadFile
         \/ \E p \in Runs :
              LET r == ResolveRoots(fs, run[p].cmd, recorded)
              IN  run[p].pc = "roots" /\ r.save /\ recorded' = r.rs
<1>1. ASSUME NEW p \in Runs, Resolve(p)
      PROVE  \/ recorded' = recorded
             \/ LET r == ResolveRoots(fs, run[p].cmd, recorded)
                IN  run[p].pc = "roots" /\ r.save /\ recorded' = r.rs
  <2> DEFINE r == ResolveRoots(fs, run[p].cmd, recorded)
  <2>1. run[p].pc = "roots" /\ recorded' \in {IF r.save THEN r.rs ELSE recorded, recorded}
    BY <1>1 DEF Resolve, At
  <2> HIDE DEF r
  <2>2. recorded' = recorded \/ (run[p].pc = "roots" /\ r.save /\ recorded' = r.rs)
    BY <2>1
  <2> QED
    BY <2>2 DEF r
<1>2. CASE Around
  BY <1>2 DEF Around, LockAges, PowerCut, ForeignRefresh, EmbedderSwapped, HandEdit, PluginUpdates,
              PluginRemoved, PluginUnpacks, DirLost, DirBack, Edit, Moves
<1>3. ASSUME NEW p \in Runs, Step(p) \/ Kill(p), ~ Resolve(p) PROVE recorded' = recorded
  BY <1>3 DEF Step, Kill, TakeLock, LockUnavailable, StandDown, SeesStale, Takeover, Plan, Embed,
              EmbedFails, CopyBackup, CopyFails, PruneBackups, SaveJson, JsonFails, SaveBin,
              SaveBinFails
<1>4. ASSUME NEW p, NEW cmd, NEW tpl, NEW force, Begin(p, cmd, tpl, force) PROVE recorded' = recorded
  BY <1>4 DEF Begin
<1>5. CASE UNCHANGED indexVars
  BY <1>5 DEF indexVars
<1>6. ASSUME NEW p \in Runs, Step(p) \/ Kill(p)
      PROVE  \/ recorded' = recorded
             \/ LET r == ResolveRoots(fs, run[p].cmd, recorded)
                IN  run[p].pc = "roots" /\ r.save /\ recorded' = r.rs
  BY <1>1, <1>3, <1>6, Zenon
<1>7. IndexNext => \/ Around
                   \/ \E p \in Runs : Step(p) \/ Kill(p)
                   \/ \E p, cmd, tpl, force : Begin(p, cmd, tpl, force)
  BY DEF IndexNext
<1> QED
  BY <1>2, <1>4, <1>5, <1>6, <1>7, Zenon

LEMMA RecordedAlways == IndexSpec => []RecordedOK
<1>1. IndexInit => RecordedOK
  BY IndexAssumption DEF IndexInit, RecordedOK
<1>2. RecordedOK /\ [IndexNext]_indexVars => RecordedOK'
  <2> SUFFICES ASSUME RecordedOK, [IndexNext]_indexVars PROVE RecordedOK'
    OBVIOUS
  <2>1. BadFile \in Seq(Among(BadFile))
    <3>1. \A x : <<x>> \in Seq({x}) /\ Among(<<x>>) = {x}
      BY DEF Among
    <3> QED
      BY <3>1 DEF BadFile
  <2>2. ASSUME NEW cmd, ResolveRoots(fs, cmd, recorded).save,
               recorded' = ResolveRoots(fs, cmd, recorded).rs
        PROVE  RecordedOK'
    BY <2>2, ResolvedIs DEF RecordedOK
  <2> QED
    BY <2>1, <2>2, RecordedChanges DEF RecordedOK
<1> QED
  BY <1>1, <1>2, PTL DEF IndexSpec

\* A root the operator owns (a command or agent root, or one outside ~/.claude)
\* is there after every rediscovery, for whatever roots, packs and manifests;
\* and no refresh drops a root unless one of discovery's own is gone from disk
\* or superseded, nor as long as such a pack has no root again.
RootsStep ==
  recorded \notin {NoFile, BadFile} /\ recorded' # BadFile =>
    \A p \in Among(recorded) \ Among(recorded') :
      /\ ~ OperatorOwned(p)
      /\ \/ \E r \in Runs : At(r, "roots") /\ run[r].cmd = "build"
         \/ /\ Away(fs, recorded) # {}
            /\ \A a \in Away(fs, recorded) : \E q \in Among(recorded') : PackOf[q] = PackOf[a]

THEOREM RootsAreKeptAlways == IndexSpec => RootsAreKept
<1>1. IndexInv /\ RecordedOK /\ [IndexNext]_indexVars => [RootsStep]_indexVars
  <2> DEFINE rebuilt == \E r \in Runs : At(r, "roots") /\ run[r].cmd = "build"
             returned == /\ Away(fs, recorded) # {}
                         /\ \A a \in Away(fs, recorded) :
                              \E q \in Among(recorded') : PackOf[q] = PackOf[a]
  <2> SUFFICES ASSUME IndexInv, RecordedOK, [IndexNext]_indexVars,
                      recorded \notin {NoFile, BadFile}, recorded' # BadFile,
                      NEW p \in Among(recorded) \ Among(recorded')
               PROVE  ~ OperatorOwned(p) /\ (rebuilt \/ returned)
    BY DEF RootsStep
  <2>1. PICK r \in Runs : /\ run[r].pc = "roots"
                          /\ ResolveRoots(fs, run[r].cmd, recorded).save
                          /\ recorded' = ResolveRoots(fs, run[r].cmd, recorded).rs
    BY RecordedChanges
  <2>2. run[r].cmd \in {"build", "refresh"}
    BY <2>1 DEF IndexInv, RunsOK, RunOK
  <2>3. ~ OperatorOwned(p)
    BY <2>1, ResolvedIs DEF RecordedOK
  <2>4. CASE run[r].cmd = "refresh"
    <3>1. returned
      BY <2>1, <2>4, ResolvedIs DEF RecordedOK
    <3> QED
      BY <2>3, <3>1
  <2>5. CASE run[r].cmd = "build"
    BY <2>1, <2>3, <2>5 DEF At
  <2> QED
    BY <2>2, <2>4, <2>5
<1>2. IndexSpec => [][RootsStep]_indexVars
  BY <1>1, IndexInvAlways, RecordedAlways, PTL DEF IndexSpec
<1> QED
  BY <1>2 DEF RootsAreKept, RootsStep
=============================================================================
