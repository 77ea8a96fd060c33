---------------------------- MODULE Install_proofs ----------------------------
(***************************************************************************)
(* install and uninstall on one host: for any events, binary directories   *)
(* and configurations, any number of runs, failures, kills and rollbacks   *)
(* that strand something, and any edits of the operator between or during  *)
(* them.                                                                   *)
(***************************************************************************)
EXTENDS Install, FiniteSetTheorems, TLAPS
-----------------------------------------------------------------------------
(* Documents.                                                              *)

\* The entries of s that are ours, and what of a document is not its layout.
OursIn(s) == {i \in DOMAIN s : s[i].by = "us"}
Same(d, c) == d.hooks = c.hooks /\ d.line = c.line /\ d.own = c.own
\* Every entry of ours in a document has a step that records it.
RecordedIn(d, steps) ==
  /\ \A e \in Events : \A i \in OursIn(Entries(d, e)) :
       \E s \in steps : s.at = e /\ s.bin = Entries(d, e)[i].bin
  /\ d.line.by = "us" => \E s \in steps : s.at = "line" /\ s.bin = d.line.bin
\* No event has two.
Lone(d) == \A e \in Events : \A i, j \in OursIn(Entries(d, e)) : i = j
Untuned(d) == \A e \in Events : \A i \in OursIn(Entries(d, e)) : Entries(d, e)[i].as = "installed"
\* Of d the operator's part is what they made it, its line aside.
Keeps(d) == (\A e \in Events : Lists(theirs.hooks[e], Entries(d, e))) /\ d.own = theirs.own
TheirLine(l) == l = theirs.line /\ l.by # "us"

-----------------------------------------------------------------------------
(* What every variable can hold, where each run stands.                    *)

Content(f) == IF f = "settings" THEN Settings \cup {Missing}
              ELSE IF f = "delegate" THEN Line \cup {Missing} ELSE {Script, Missing}
IsFiles(fs) == fs = [f \in Files |-> fs[f]] /\ \A f \in Files : fs[f] \in Content(f)
IsRec(rec, f) ==
  /\ DOMAIN rec = {"before", "created", "after"}
  /\ rec.before \in Content(f) /\ rec.after \in Content(f) \ {Missing}
  /\ rec.created = (rec.before = Missing)
ManOK ==
  /\ DOMAIN man = {"steps", "files", "there"} /\ man.there \in BOOLEAN
  /\ man.steps \subseteq Steps
  /\ DOMAIN man.files \subseteq Files /\ \A f \in DOMAIN man.files : IsRec(man.files[f], f)
  /\ ~ man.there => man.steps = {} /\ DOMAIN man.files = {}

InstallPcs == {"tee", "delegate", "settings", "cli", "manifest", "unroll"}
UninstallPcs == {"deregister", "restore", "forget"}
InstallRun ==
  /\ op.pc \in InstallPcs
  /\ DOMAIN op = {"pc", "bin", "wire", "loaded", "doc", "before", "cli"}
  /\ op.bin \in Bins /\ op.wire \subseteq Events \cup {"line", "new"} /\ op.cli \in BOOLEAN
  /\ op.loaded \in Content("settings") /\ op.doc = AsDoc(op.loaded)
  /\ DOMAIN op.before \subseteq {op.bin, "delegate", "settings"}
  /\ \A f \in DOMAIN op.before : op.before[f] \in Content(f)
  /\ "settings" \in DOMAIN op.before =>
       op.pc \in {"cli", "manifest", "unroll"} /\ op.before["settings"] = op.loaded
  /\ files["settings"] = Missing => op.loaded = Missing
  /\ op.pc \in {"tee", "delegate"} \/ op.bin \in DOMAIN op.before \/ "delegate" \in DOMAIN op.before
       => "line" \in op.wire
  /\ op.wire = {"new"} => op.pc \in {"cli", "manifest", "unroll"} /\ DOMAIN op.before = {}
  /\ op.pc \in {"cli", "manifest"} => "settings" \in DOMAIN op.before \/ op.wire = {"new"}
  /\ op.cli => "new" \in op.wire /\ op.pc \in {"manifest", "unroll"}
  /\ op.cli => "settings" \in DOMAIN op.before \/ op.wire = {"new"}
  /\ op.pc = "cli" => "new" \in op.wire
  /\ op.pc = "tee" => DOMAIN op.before = {}
  /\ op.pc = "delegate" => "delegate" \notin DOMAIN op.before
\* The recorded entries are in d.
Located(d, steps) == \A s \in steps : s.at \in Events => Found(d, s.at, s.bin) # {}
UninstallRun ==
  /\ op.pc \in UninstallPcs
  /\ DOMAIN op = {"pc", "doc", "whole", "drop"}
  /\ op.doc \in Content("settings") /\ man.there
  /\ op.whole \subseteq DOMAIN man.files /\ op.drop \subseteq man.steps
  /\ \A f \in op.whole : BackupUsable(man.files[f], f)
  /\ op.pc = "forget" => op.whole = {}
  /\ op.doc # Missing => Located(op.doc, op.drop)
TheirTypes == [hooks : [Events -> Seq(Entry)], line : Line, own : Int,
               reg : SUBSET {"old", "new"}]
InstallTypes ==
  /\ IsFiles(files) /\ IsFiles(orig)
  /\ DOMAIN bak = {"settings", "delegate", "tee"} /\ \A f \in Files : bak[Base(f)] \in Content(f)
  /\ ManOK
  /\ op = NoRunNow \/ InstallRun \/ UninstallRun
  /\ theirs \in TheirTypes /\ reg \subseteq {"old", "new"} /\ touched \in BOOLEAN

-----------------------------------------------------------------------------
(* What is ours is recorded.                                               *)

Hooked == Events \cup {"line"}
ManOwn ==
  /\ \A s, t \in man.steps : s.at = t.at /\ s.at \in Hooked => s = t
  /\ \A s \in man.steps : s.at \in Hooked => "settings" \in DOMAIN man.files
  /\ "settings" \in DOMAIN man.files => RecordedIn(AsDoc(man.files["settings"].before), {})
  /\ \A b \in Bins \cap DOMAIN man.files : man.files[b].created /\ Recorded("line") # {}
  /\ \A s \in Recorded("line") : s.prior.by # "us"
Names(steps) == {s.at : s \in steps}
OwnIdle ==
  /\ RecordedIn(Doc, man.steps) /\ Lone(Doc)
  /\ reg \ theirs.reg \subseteq Names(man.steps)
  /\ \A b \in Bins : files[b] # Missing => b \in DOMAIN man.files
OwnInstall ==
  /\ RecordedIn(op.doc, man.steps) /\ Lone(op.doc) /\ Lone(Doc)
  /\ \A w \in op.wire : Recorded(w) = {}
  /\ RecordedIn(Doc, IF "settings" \in DOMAIN op.before THEN man.steps \cup NewSteps
                     ELSE man.steps)
  /\ reg \ theirs.reg \subseteq Names(man.steps) \cup (IF op.cli THEN {"new"} ELSE {})
  /\ \A b \in Bins : files[b] # Missing => b \in DOMAIN man.files \cup DOMAIN op.before
  /\ \A b \in Bins \cap DOMAIN op.before : op.before[b] = Missing
OwnUninstall ==
  /\ op.doc # Missing => RecordedIn(op.doc, op.drop) /\ Lone(op.doc)
  /\ RecordedIn(Doc, op.drop) /\ Lone(Doc)
  /\ op.doc = Missing \/ op.pc = "forget" => RecordedIn(Doc, {})
  /\ \A b \in Bins : files[b] # Missing => b \in op.whole
  /\ reg \ theirs.reg \subseteq Names(op.drop)
  /\ op.pc # "deregister" => reg \subseteq theirs.reg
OwnInv ==
  scar = {} =>
    /\ ManOwn
    /\ op.pc = "idle" => OwnIdle
    /\ op.pc \in InstallPcs => OwnInstall
    /\ op.pc \in UninstallPcs => OwnUninstall

-----------------------------------------------------------------------------
(* The operator's part is kept.                                            *)

\* No line and no registration of theirs is ever taken for ours.
RegInv ==
  /\ theirs.line.by # "us"
  /\ theirs.reg \subseteq reg /\ theirs.reg \cap Names(man.steps) = {}
  /\ op.pc \in InstallPcs /\ "new" \in op.wire => "new" \notin theirs.reg

\* A first install wires everything it can, so that a later one that wires more
\* of settings.json does it over an edit.
Skips(line) == line = NoLine \/ line.as = "unreadable"
FreshInv ==
  scar \subseteq {"install"} =>
    /\ op.pc \in {"idle", "deregister"} /\ man.there /\ ~ touched =>
         /\ \A w \in Events \cup {"new"} : Recorded(w) # {}
         /\ Recorded("line") # {} \/ Skips(Doc.line)
    /\ op.pc \in InstallPcs =>
         /\ man.there => touched
         /\ man.there /\ blind = "none" => op.wire = {"new"}
         /\ ~ man.there => Events \cup {"new"} \subseteq op.wire
         /\ ~ man.there /\ blind = "none" => op.doc.line.by # "us"
         /\ ~ touched /\ "line" \notin op.wire => Doc.line = op.doc.line /\ Skips(Doc.line)

\* What the record of settings.json says: what we added to the bytes we found.
Gives(after, before) ==
  /\ \A e \in Events : \A t \in Seq(Entry) :
       Lists(t, Entries(after, e)) => Lists(t, Entries(before, e))
  /\ after.own = before.own /\ before.line.by # "us"
  /\ IF after.line.by = "us" THEN \A s \in Recorded("line") : s.prior = before.line
     ELSE after.line = before.line
TheirMan ==
  "settings" \in DOMAIN man.files =>
    Gives(man.files["settings"].after, AsDoc(man.files["settings"].before))
TheirLines ==
  /\ man.there /\ Doc.line.by = "us" => Recorded("line") # {}
  /\ \A s \in Recorded("line") : files["delegate"] = s.prior
TheirInstall ==
  /\ ~ man.there /\ "settings" \notin DOMAIN op.before => Doc.line.by # "us"
  /\ op.pc \in {"settings", "cli", "manifest"} /\ "line" \in op.wire =>
       files["delegate"] = op.doc.line
  /\ "settings" \in DOMAIN op.before =>
       Same(Doc, Wired(op.doc)) /\ Keeps(op.doc) /\ TheirLine(op.doc.line)
TheirUninstall ==
  /\ op.doc # Missing /\ op.pc # "forget" =>
       /\ Same(Doc, op.doc) /\ Keeps(op.doc)
       /\ \A s \in op.drop : s.at = "line" => TheirLine(s.prior)
       /\ (\A s \in op.drop : s.at # "line") => TheirLine(op.doc.line)
  /\ "settings" \in op.whole =>
       LET before == AsDoc(man.files["settings"].before)
       IN  Keeps(before) /\ TheirLine(before.line)
  /\ op.doc = Missing \/ op.pc = "forget" => Keeps(Doc) /\ TheirLine(Doc.line)
TheirInv ==
  blind = "none" /\ scar \subseteq {"install"} =>
    /\ TheirMan
    /\ op.pc \in {"idle", "deregister"} \cup InstallPcs => TheirsKept /\ TheirLines
    /\ op.pc \in InstallPcs => TheirInstall
    /\ op.pc \in UninstallPcs => TheirUninstall

-----------------------------------------------------------------------------
(* The bytes come back.                                                    *)

BytesInv ==
  scar = {} /\ ~ touched =>
    /\ op.pc = "idle" /\ ~ man.there => files = orig
    /\ op.pc \in {"idle", "deregister"} /\ man.there =>
         /\ Untuned(Doc) /\ "settings" \in DOMAIN man.files
         /\ \A f \in Files :
              IF f \in DOMAIN man.files
              THEN /\ files[f] = man.files[f].after /\ orig[f] = man.files[f].before
                   /\ BackupUsable(man.files[f], f)
              ELSE files[f] = orig[f]
    /\ op.pc \in InstallPcs =>
         /\ ~ man.there /\ Untuned(Doc)
         /\ \A f \in Files :
              IF f \in DOMAIN op.before
              THEN /\ orig[f] = op.before[f]
                   /\ op.before[f] = Missing \/ bak[Base(f)] = op.before[f]
              ELSE files[f] = orig[f]
    /\ op.pc = "deregister" => op.whole = DOMAIN man.files
    /\ op.pc \in UninstallPcs =>
         /\ "settings" \in op.whole \/ op.doc = Missing
         /\ \A f \in op.whole : orig[f] = man.files[f].before
    /\ op.pc \in {"restore", "forget"} => \A f \in Files \ op.whole : files[f] = orig[f]

-----------------------------------------------------------------------------
(* Sequences.                                                              *)

LEMMA Removed ==
  ASSUME NEW S, NEW s \in Seq(S), NEW i \in DOMAIN s
  PROVE  /\ RemoveAt(s, i) \in Seq(S)
         /\ DOMAIN RemoveAt(s, i) = 1..(Len(s) - 1)
         /\ \A k \in 1..(Len(s) - 1) : RemoveAt(s, i)[k] = s[IF k < i THEN k ELSE k + 1]
<1> DEFINE a == SubSeq(s, 1, i - 1)
           b == SubSeq(s, i + 1, Len(s))
<1>1. i \in 1..Len(s) /\ Len(s) \in Nat
  OBVIOUS
<1>2. a \in Seq(S) /\ Len(a) = i - 1 /\ \A k \in 1..(i - 1) : a[k] = s[k]
  BY <1>1
<1>3. b \in Seq(S) /\ Len(b) = Len(s) - i /\ \A k \in 1..(Len(s) - i) : b[k] = s[k + i]
  BY <1>1
<1> HIDE DEF a, b
<1>4. /\ a \o b \in Seq(S) /\ Len(a \o b) = Len(s) - 1
      /\ \A k \in 1..(Len(s) - 1) : (a \o b)[k] = IF k <= i - 1 THEN a[k] ELSE b[k - (i - 1)]
  <2>1. /\ a \o b \in Seq(S) /\ Len(a \o b) = Len(a) + Len(b)
        /\ \A k \in 1..(Len(a) + Len(b)) :
             (a \o b)[k] = IF k <= Len(a) THEN a[k] ELSE b[k - Len(a)]
    BY <1>2, <1>3
  <2>2. Len(a) + Len(b) = Len(s) - 1
    BY <1>1, <1>2, <1>3
  <2> QED
    BY <1>2, <2>1, <2>2
<1>5. \A k \in 1..(Len(s) - 1) : (a \o b)[k] = s[IF k < i THEN k ELSE k + 1]
  <2> TAKE k \in 1..(Len(s) - 1)
  <2>1. CASE k < i
    BY <2>1, <1>1, <1>2, <1>4
  <2>2. CASE ~ k < i
    <3>1. k - (i - 1) \in 1..(Len(s) - i) /\ k - (i - 1) + i = k + 1
      BY <2>2, <1>1
    <3>2. (a \o b)[k] = b[k - (i - 1)]
      BY <2>2, <1>1, <1>4
    <3>3. b[k - (i - 1)] = s[k + 1]
      BY <3>1, <1>3
    <3> QED
      BY <2>2, <3>2, <3>3
  <2> QED
    BY <2>1, <2>2
<1>6. DOMAIN (a \o b) = 1..(Len(s) - 1)
  BY <1>4
<1>7. RemoveAt(s, i) = a \o b
  BY DEF RemoveAt, a, b
<1> QED
  BY <1>4, <1>5, <1>6, <1>7

LEMMA Appended ==
  ASSUME NEW S, NEW s \in Seq(S), NEW x \in S
  PROVE  /\ Append(s, x) \in Seq(S)
         /\ DOMAIN s = 1..Len(s) /\ Len(s) \in Nat
         /\ DOMAIN Append(s, x) = 1..(Len(s) + 1)
         /\ \A k \in DOMAIN s : Append(s, x)[k] = s[k]
         /\ Append(s, x)[Len(s) + 1] = x
OBVIOUS

\* What the operator's entries are does not depend on what stands between them.
LEMMA ListsUnder ==
  ASSUME NEW t, NEW s, NEW r, Lists(t, s), Mine(r) = Mine(s), \A i \in Mine(s) : r[i] = s[i]
  PROVE  Lists(t, r)
BY DEF Lists

LEMMA ListsAppendOther ==
  ASSUME NEW s \in Seq(Entry), NEW x \in Entry, x.by # "op", NEW t
  PROVE  Lists(t, s) <=> Lists(t, Append(s, x))
<1>1. Mine(Append(s, x)) = Mine(s)
  BY Appended DEF Mine
<1>2. \A i \in Mine(s) : Append(s, x)[i] = s[i]
  BY Appended DEF Mine
<1> QED
  BY <1>1, <1>2, ListsUnder

LEMMA ListsAppendMine ==
  ASSUME NEW s \in Seq(Entry), NEW x \in Entry, x.by = "op", NEW t \in Seq(Entry), Lists(t, s)
  PROVE  Lists(Append(t, x), Append(s, x))
<1> DEFINE u == Append(t, x)
           r == Append(s, x)
           n == Len(t) + 1
           m == Len(s) + 1
<1>1. PICK at \in [DOMAIN t -> Mine(s)] :
        /\ \A k \in DOMAIN t : t[k] = s[at[k]]
        /\ \A j, k \in DOMAIN t : j < k => at[j] < at[k]
        /\ \A i \in Mine(s) : \E k \in DOMAIN t : at[k] = i
  BY DEF Lists
<1>2. /\ DOMAIN s = 1..Len(s) /\ Len(s) \in Nat /\ DOMAIN r = DOMAIN s \cup {m}
      /\ r[m] = x /\ \A k \in DOMAIN s : r[k] = s[k]
  BY Appended
<1>3. /\ DOMAIN t = 1..Len(t) /\ Len(t) \in Nat /\ DOMAIN u = DOMAIN t \cup {n}
      /\ u[n] = x /\ \A k \in DOMAIN t : u[k] = t[k]
  BY Appended
<1> HIDE DEF u, r
<1>4. Mine(r) = Mine(s) \cup {m} /\ Mine(s) \subseteq DOMAIN s
  BY <1>2 DEF Mine
<1> DEFINE to == [k \in DOMAIN u |-> IF k \in DOMAIN t THEN at[k] ELSE m]
<1>5. to \in [DOMAIN u -> Mine(r)]
  BY <1>1, <1>3, <1>4
<1>6. \A k \in DOMAIN u : u[k] = r[to[k]]
  BY <1>1, <1>2, <1>3, <1>4
<1>7. ASSUME NEW j \in DOMAIN u, NEW k \in DOMAIN u, j < k PROVE to[j] < to[k]
  BY <1>7, <1>1, <1>2, <1>3, <1>4
<1>8. ASSUME NEW i \in Mine(r) PROVE \E k \in DOMAIN u : to[k] = i
  <2>1. CASE i \in Mine(s)
    <3>1. PICK k \in DOMAIN t : at[k] = i
      BY <1>1, <2>1
    <3> QED
      BY <3>1, <1>3
  <2>2. CASE i = m
    <3>1. n \in DOMAIN u /\ n \notin DOMAIN t
      BY <1>3
    <3> QED
      BY <3>1, <2>2
  <2> QED
    BY <2>1, <2>2, <1>4
<1> HIDE DEF to
<1> QED
  BY <1>5, <1>6, <1>7, <1>8 DEF Lists, u, r

LEMMA ListsRemoveOther ==
  ASSUME NEW s \in Seq(Entry), NEW i \in DOMAIN s, s[i].by # "op", NEW t \in Seq(Entry), Lists(t, s)
  PROVE  Lists(t, RemoveAt(s, i))
<1> DEFINE r == RemoveAt(s, i)
           Back(j) == IF j < i THEN j ELSE j - 1
<1>1. PICK at \in [DOMAIN t -> Mine(s)] :
        /\ \A k \in DOMAIN t : t[k] = s[at[k]]
        /\ \A j, k \in DOMAIN t : j < k => at[j] < at[k]
        /\ \A j \in Mine(s) : \E k \in DOMAIN t : at[k] = j
  BY DEF Lists
<1>2. /\ DOMAIN r = 1..(Len(s) - 1) /\ DOMAIN s = 1..Len(s) /\ Len(s) \in Nat
      /\ \A k \in DOMAIN r : r[k] = s[IF k < i THEN k ELSE k + 1]
  <2>1. DOMAIN s = 1..Len(s) /\ Len(s) \in Nat
    OBVIOUS
  <2>2. /\ DOMAIN r = 1..(Len(s) - 1)
        /\ \A k \in 1..(Len(s) - 1) : r[k] = s[IF k < i THEN k ELSE k + 1]
    BY Removed
  <2> HIDE DEF r
  <2> QED
    BY <2>1, <2>2
<1> HIDE DEF r
<1>3. i \notin Mine(s) /\ Mine(s) \subseteq DOMAIN s
  BY DEF Mine
<1>4. ASSUME NEW j \in Mine(s) PROVE Back(j) \in Mine(r) /\ r[Back(j)] = s[j]
  <2>1. j \in 1..Len(s) /\ j # i /\ i \in 1..Len(s) /\ s[j].by = "op"
    BY <1>2, <1>3 DEF Mine
  <2>2. Back(j) \in DOMAIN r /\ (IF Back(j) < i THEN Back(j) ELSE Back(j) + 1) = j
    BY <2>1, <1>2
  <2> QED
    BY <2>1, <2>2, <1>2 DEF Mine
<1>5. ASSUME NEW k \in Mine(r) PROVE \E j \in Mine(s) : Back(j) = k
  <2>1. k \in 1..(Len(s) - 1) /\ r[k] = s[IF k < i THEN k ELSE k + 1] /\ r[k].by = "op"
    BY <1>2 DEF Mine
  <2>2. (IF k < i THEN k ELSE k + 1) \in Mine(s)
    BY <2>1, <1>2 DEF Mine
  <2>3. Back(IF k < i THEN k ELSE k + 1) = k
    BY <2>1, <1>2
  <2> QED
    BY <2>2, <2>3
<1>6. \A j, k \in Mine(s) : j < k => Back(j) < Back(k)
  BY <1>2, <1>3
<1> HIDE DEF Back
<1> DEFINE to == [k \in DOMAIN t |-> Back(at[k])]
<1>7. to \in [DOMAIN t -> Mine(r)]
  BY <1>1, <1>4
<1>8. \A k \in DOMAIN t : t[k] = r[to[k]]
  BY <1>1, <1>4
<1>9. \A j, k \in DOMAIN t : j < k => to[j] < to[k]
  BY <1>1, <1>6
<1>10. \A j \in Mine(r) : \E k \in DOMAIN t : to[k] = j
  BY <1>1, <1>5
<1> HIDE DEF to
<1> QED
  BY <1>7, <1>8, <1>9, <1>10 DEF Lists, r

-----------------------------------------------------------------------------
(* Documents and files.                                                    *)

\* Contents are told apart by their fields.
LEMMA Apart ==
  /\ Missing \notin Settings /\ Missing \notin Line /\ Script # Missing
  /\ NoHooks \notin Seq(Entry) /\ NoLine \in Line /\ NoLine.by # "us"
  /\ \A bin \in Bins : Ours(bin) \in Line \cap Entry
  /\ Theirs \in Entry
<1>1. DOMAIN Missing = {"gone"} /\ DOMAIN Script = {"script"}
  BY DEF Missing, Script
<1>2. \A d \in Settings : DOMAIN d = {"hooks", "line", "own", "shape"}
  BY DEF Settings
<1>3. \A l \in Line : DOMAIN l = {"by", "bin", "as"}
  BY DEF Line, Entry, NoLine
<1>4. NoHooks \notin Seq(Entry)
  <2>1. 1 \in DOMAIN NoHooks /\ NoHooks[1].by = "nobody"
    <3>1. \A x : 1 \in DOMAIN <<x>> /\ <<x>>[1] = x
      OBVIOUS
    <3> DEFINE x == [by |-> "nobody", bin |-> "", as |-> ""]
    <3>2. x.by = "nobody" /\ NoHooks = <<x>>
      BY DEF NoHooks
    <3> HIDE DEF x
    <3> QED
      BY <3>1, <3>2
  <2>2. \A s \in Seq(Entry) : \A k \in DOMAIN s : s[k] \in Entry
    OBVIOUS
  <2>3. \A x \in Entry : x.by # "nobody"
    BY DEF Entry
  <2> QED
    BY <2>1, <2>2, <2>3
<1>5. NoLine \in Line /\ NoLine.by # "us"
  BY DEF NoLine, Line
<1>6. \A bin \in Bins : Ours(bin) \in Line \cap Entry
  BY DEF Ours, Line, Entry
<1>7. Theirs \in Entry
  BY DEF Theirs, Entry
<1> QED
  BY <1>1, <1>2, <1>3, <1>4, <1>5, <1>6, <1>7

LEMMA DocTyped ==
  ASSUME NEW c \in Content("settings")
  PROVE  /\ AsDoc(c) \in Settings
         /\ c = Missing => \A e \in Events : Entries(AsDoc(c), e) = <<>>
         /\ c = Missing => AsDoc(c).line = NoLine
<1>1. c \in Settings \/ c = Missing
  BY DEF Content
<1>2. CASE c # Missing
  BY <1>1, <1>2 DEF AsDoc
<1>3. CASE c = Missing
  BY <1>3, Apart DEF AsDoc, Settings, Entries, Has
<1> QED
  BY <1>2, <1>3

LEMMA EntriesTyped ==
  ASSUME NEW d \in Settings, NEW e \in Events
  PROVE  Entries(d, e) \in Seq(Entry)
<1>1. d.hooks[e] \in Seq(Entry) \cup {NoHooks} /\ <<>> \in Seq(Entry)
  BY DEF Settings
<1> QED
  BY <1>1 DEF Entries, Has

\* One array is replaced.
LEMMA ArraySet ==
  ASSUME NEW d \in Settings, NEW e \in Events, NEW s \in Seq(Entry),
         NEW c, c = [d EXCEPT !.hooks[e] = s]
  PROVE  /\ c \in Settings /\ c.line = d.line /\ c.own = d.own
         /\ Entries(c, e) = s /\ \A x \in Events \ {e} : Entries(c, x) = Entries(d, x)
<1>1. /\ c \in Settings /\ c.line = d.line /\ c.own = d.own
      /\ c.hooks[e] = s /\ \A x \in Events \ {e} : c.hooks[x] = d.hooks[x]
  BY DEF Settings
<1>2. Entries(c, e) = s
  BY <1>1, Apart DEF Entries, Has
<1>3. \A x \in Events \ {e} : Entries(c, x) = Entries(d, x)
  BY <1>1 DEF Entries, Has
<1> QED
  BY <1>1, <1>2, <1>3

\* What does not depend on the layout.
LEMMA SameDoc ==
  ASSUME NEW d, NEW c, Same(d, c)
  PROVE  /\ \A e \in Events : Entries(d, e) = Entries(c, e)
         /\ \A steps : RecordedIn(c, steps) => RecordedIn(d, steps)
         /\ Lone(c) => Lone(d)
         /\ Untuned(c) => Untuned(d)
         /\ Keeps(c) => Keeps(d)
<1>1. \A e \in Events : Entries(d, e) = Entries(c, e)
  BY DEF Same, Entries, Has
<1>2. d.line = c.line /\ d.own = c.own
  BY DEF Same
<1> QED
  BY <1>1, <1>2 DEF RecordedIn, Lone, Untuned, Keeps

LEMMA FileNames ==
  /\ Files = {"settings", "delegate"} \cup Bins
  /\ "settings" \notin Bins /\ "delegate" \notin Bins
  /\ Base("settings") = "settings" /\ Base("delegate") = "delegate"
  /\ \A b \in Bins : Base(b) = "tee"
BY InstallAssumption DEF Files, Base

LEMMA RelaidFiles ==
  ASSUME NEW fs, IsFiles(fs)
  PROVE  /\ IsFiles(Relaid(fs)) /\ \A f \in Files \ {"settings"} : Relaid(fs)[f] = fs[f]
         /\ Relaid(fs)["settings"] = Missing <=> fs["settings"] = Missing
         /\ Same(AsDoc(Relaid(fs)["settings"]), AsDoc(fs["settings"]))
<1>1. "settings" \in Files /\ fs = [f \in Files |-> fs[f]]
  BY FileNames DEF IsFiles
<1>2. CASE fs["settings"] = Missing
  BY <1>2 DEF Relaid, Same
<1>3. CASE fs["settings"] # Missing
  <2> DEFINE c == [fs["settings"] EXCEPT !.shape = "claude"]
             gs == [fs EXCEPT !["settings"] = c]
  <2>1. fs["settings"] \in Settings
    BY <1>1, <1>3 DEF IsFiles, Content
  <2>2. c \in Settings /\ Same(c, fs["settings"])
    BY <2>1 DEF Settings, Same
  <2>3. Relaid(fs) = gs
    BY <1>1, <1>3 DEF Relaid
  <2> HIDE DEF c
  <2>4. /\ gs = [f \in Files |-> gs[f]] /\ gs["settings"] = c
        /\ \A f \in Files \ {"settings"} : gs[f] = fs[f]
    BY <1>1
  <2> HIDE DEF gs
  <2>5. IsFiles(gs)
    BY <2>2, <2>4 DEF IsFiles, Content
  <2> QED
    BY <1>3, <2>2, <2>3, <2>4, <2>5, Apart DEF AsDoc
<1> QED
  BY <1>2, <1>3

LEMMA WiredDoc ==
  ASSUME NEW d \in Settings, op.bin \in Bins
  PROVE  /\ Wired(d) \in Settings /\ Wired(d).own = d.own
         /\ Wired(d).line = IF "line" \in op.wire THEN Ours(op.bin) ELSE d.line
         /\ \A e \in Events : Entries(Wired(d), e) = IF e \in op.wire
                                THEN Append(Entries(d, e), Ours(op.bin)) ELSE Entries(d, e)
<1> DEFINE new(e) == Append(Entries(d, e), Ours(op.bin))
           w == Wired(d)
<1>1. \A e \in Events : new(e) \in Seq(Entry)
  BY Apart, EntriesTyped
<1> HIDE DEF new
<1> DEFINE h == [e \in Events |-> IF e \in op.wire THEN new(e) ELSE d.hooks[e]]
           l == IF "line" \in op.wire THEN Ours(op.bin) ELSE d.line
<1>2. w = [d EXCEPT !.hooks = h, !.line = l]
  BY DEF Wired, new, Settings
<1>3. h \in [Events -> Seq(Entry) \cup {NoHooks}] /\ l \in Line
  BY <1>1, Apart DEF Settings
<1>4. /\ w \in Settings /\ w.own = d.own
      /\ w.line = IF "line" \in op.wire THEN Ours(op.bin) ELSE d.line
      /\ \A e \in Events : w.hooks[e] = IF e \in op.wire THEN new(e) ELSE d.hooks[e]
  <2> HIDE DEF h, l
  <2>1. w \in Settings /\ w.hooks = h /\ w.line = l /\ w.own = d.own
    BY <1>2, <1>3 DEF Settings
  <2> QED
    BY <2>1 DEF h, l
<1> HIDE DEF w
<1>5. \A e \in Events : Entries(w, e) = IF e \in op.wire THEN new(e) ELSE Entries(d, e)
  BY <1>1, <1>4, Apart DEF Entries, Has
<1> QED
  BY <1>4, <1>5 DEF w, new

LEMMA UnwiredDoc ==
  ASSUME NEW d \in Settings, op.drop \subseteq Steps, Located(d, op.drop)
  PROVE  /\ Unwired(d) \in Settings /\ Unwired(d).own = d.own
         /\ IF \A s \in op.drop : s.at # "line" THEN Unwired(d).line = d.line
            ELSE \E s \in op.drop : s.at = "line" /\ Unwired(d).line = s.prior
         /\ \A e \in Events :
              IF \A s \in op.drop : s.at # e THEN Entries(Unwired(d), e) = Entries(d, e)
              ELSE \E s \in op.drop, i \in DOMAIN Entries(d, e) :
                     /\ s.at = e /\ i \in Found(d, e, s.bin)
                     /\ Entries(Unwired(d), e) = RemoveAt(Entries(d, e), i)
<1> DEFINE u == Unwired(d)
           dropped(e) == {s \in op.drop : s.at = e}
           one(e) == CHOOSE s \in dropped(e) : TRUE
           place(e) == CHOOSE i \in Found(d, e, one(e).bin) : TRUE
           rest(e) == RemoveAt(d.hooks[e], place(e))
           array(e) == IF dropped(e) = {} THEN d.hooks[e]
                       ELSE IF rest(e) = <<>> /\ one(e).created THEN NoHooks ELSE rest(e)
           line == IF dropped("line") = {} THEN d.line ELSE one("line").prior
<1>1. \A e : dropped(e) # {} => one(e) \in op.drop /\ one(e).at = e
  OBVIOUS
<1> DEFINE h == [e \in Events |-> array(e)]
<1>2. u = [d EXCEPT !.hooks = h, !.line = line]
  BY DEF Unwired, Settings
<1>3. ASSUME NEW e \in Events, dropped(e) # {}
      PROVE  /\ place(e) \in Found(d, e, one(e).bin) /\ place(e) \in DOMAIN Entries(d, e)
             /\ d.hooks[e] = Entries(d, e) /\ rest(e) \in Seq(Entry)
  <2>1. Found(d, e, one(e).bin) # {}
    BY <1>1, <1>3 DEF Located
  <2>2. place(e) \in Found(d, e, one(e).bin)
    BY <2>1
  <2> HIDE DEF place
  <2>3. place(e) \in DOMAIN Entries(d, e)
    BY <2>2 DEF Found
  <2>4. d.hooks[e] = Entries(d, e)
    BY <2>3 DEF Entries
  <2>5. rest(e) \in Seq(Entry)
    BY <2>3, <2>4, EntriesTyped, Removed
  <2> QED
    BY <2>2, <2>3, <2>4, <2>5
<1>4. line \in Line
  BY <1>1 DEF Settings, Steps
<1> HIDE DEF rest, place, one, line
<1>5. \A e \in Events : array(e) \in Seq(Entry) \cup {NoHooks}
  BY <1>3 DEF Settings
<1> HIDE DEF array
<1>6. /\ u \in Settings /\ u.own = d.own /\ u.line = line
      /\ \A e \in Events : u.hooks[e] = array(e)
  <2>1. h \in [Events -> Seq(Entry) \cup {NoHooks}]
    BY <1>5
  <2> HIDE DEF h, u
  <2>2. u \in Settings /\ u.hooks = h /\ u.line = line /\ u.own = d.own
    BY <2>1, <1>2, <1>4 DEF Settings
  <2> QED
    BY <2>2 DEF h
<1> HIDE DEF u
<1>7. IF \A s \in op.drop : s.at # "line" THEN u.line = d.line
      ELSE \E s \in op.drop : s.at = "line" /\ u.line = s.prior
  BY <1>1, <1>6 DEF line
<1>8. ASSUME NEW e \in Events
      PROVE IF \A s \in op.drop : s.at # e THEN Entries(u, e) = Entries(d, e)
            ELSE \E s \in op.drop, i \in DOMAIN Entries(d, e) :
                   /\ s.at = e /\ i \in Found(d, e, s.bin)
                   /\ Entries(u, e) = RemoveAt(Entries(d, e), i)
  <2>1. CASE dropped(e) = {}
    BY <2>1, <1>6 DEF array, Entries, Has
  <2>2. CASE dropped(e) # {}
    <3>1. Entries(u, e) = rest(e)
      BY <2>2, <1>3, <1>6, Apart DEF array, Entries, Has
    <3>2. rest(e) = RemoveAt(Entries(d, e), place(e))
      BY <2>2, <1>3 DEF rest
    <3> QED
      BY <3>1, <3>2, <2>2, <1>1, <1>3
  <2> QED
    BY <2>1, <2>2
<1> QED
  BY <1>6, <1>7, <1>8 DEF u

-----------------------------------------------------------------------------
(* Our entries, as an array changes.                                       *)

\* r has no entry of ours that s does not have.
Fewer(r, s) ==
  \E m \in [OursIn(r) -> OursIn(s)] :
    /\ \A i \in OursIn(r) : r[i].bin = s[m[i]].bin
    /\ \A i, j \in OursIn(r) : m[i] = m[j] => i = j

LEMMA FewerUnder ==
  ASSUME NEW r, NEW s, OursIn(r) = OursIn(s), \A i \in OursIn(s) : r[i].bin = s[i].bin
  PROVE  Fewer(r, s)
<1> DEFINE m == [i \in OursIn(r) |-> i]
<1>1. m \in [OursIn(r) -> OursIn(s)]
  OBVIOUS
<1> QED
  BY <1>1 DEF Fewer

LEMMA FewerAppend ==
  ASSUME NEW s \in Seq(Entry), NEW x \in Entry, x.by = "op"
  PROVE  Fewer(Append(s, x), s)
<1>1. OursIn(Append(s, x)) = OursIn(s)
  BY Appended DEF OursIn
<1>2. \A i \in OursIn(s) : Append(s, x)[i] = s[i]
  BY Appended DEF OursIn
<1> QED
  BY <1>1, <1>2, FewerUnder

LEMMA FewerRemove ==
  ASSUME NEW s \in Seq(Entry), NEW i \in DOMAIN s
  PROVE  Fewer(RemoveAt(s, i), s)
<1> DEFINE r == RemoveAt(s, i)
           At(k) == IF k < i THEN k ELSE k + 1
<1>1. /\ DOMAIN r = 1..(Len(s) - 1) /\ DOMAIN s = 1..Len(s) /\ Len(s) \in Nat
      /\ \A k \in DOMAIN r : r[k] = s[At(k)]
  <2>1. DOMAIN s = 1..Len(s) /\ Len(s) \in Nat
    OBVIOUS
  <2>2. DOMAIN r = 1..(Len(s) - 1) /\ \A k \in 1..(Len(s) - 1) : r[k] = s[At(k)]
    BY Removed
  <2> HIDE DEF r, At
  <2> QED
    BY <2>1, <2>2
<1> HIDE DEF r
<1>2. \A k \in OursIn(r) : At(k) \in OursIn(s)
  BY <1>1 DEF OursIn
<1>3. \A j, k \in OursIn(r) : At(j) = At(k) => j = k
  BY <1>1 DEF OursIn
<1>4. \A k \in OursIn(r) : r[k] = s[At(k)]
  BY <1>1 DEF OursIn
<1> HIDE DEF At
<1> DEFINE m == [k \in OursIn(r) |-> At(k)]
<1>5. m \in [OursIn(r) -> OursIn(s)]
  BY <1>2
<1> QED
  BY <1>3, <1>4, <1>5 DEF Fewer, r

\* Taking out the only one leaves none.
LEMMA RemoveOnly ==
  ASSUME NEW s \in Seq(Entry), NEW i \in OursIn(s), \A j, k \in OursIn(s) : j = k
  PROVE  OursIn(RemoveAt(s, i)) = {}
<1>1. /\ DOMAIN RemoveAt(s, i) = 1..(Len(s) - 1) /\ DOMAIN s = 1..Len(s) /\ Len(s) \in Nat
      /\ \A k \in 1..(Len(s) - 1) : RemoveAt(s, i)[k] = s[IF k < i THEN k ELSE k + 1]
  <2>1. DOMAIN s = 1..Len(s) /\ Len(s) \in Nat /\ i \in DOMAIN s
    BY DEF OursIn
  <2> QED
    BY <2>1, Removed
<1> SUFFICES ASSUME NEW k \in OursIn(RemoveAt(s, i)) PROVE FALSE
  OBVIOUS
<1>2. k \in 1..(Len(s) - 1) /\ i \in 1..Len(s)
  BY <1>1 DEF OursIn
<1>3. (IF k < i THEN k ELSE k + 1) \in OursIn(s)
  BY <1>1, <1>2 DEF OursIn
<1>4. (IF k < i THEN k ELSE k + 1) # i
  BY <1>2
<1> QED
  BY <1>3, <1>4

LEMMA FewerOurs ==
  ASSUME NEW d, NEW c, d.line.by = "us" => d.line = c.line,
         \A e \in Events : Fewer(Entries(d, e), Entries(c, e))
  PROVE  /\ \A steps : RecordedIn(c, steps) => RecordedIn(d, steps)
         /\ Lone(c) => Lone(d)
<1>1. ASSUME NEW steps, RecordedIn(c, steps) PROVE RecordedIn(d, steps)
  <2>1. ASSUME NEW e \in Events, NEW i \in OursIn(Entries(d, e))
        PROVE  \E s \in steps : s.at = e /\ s.bin = Entries(d, e)[i].bin
    <3>1. PICK j \in OursIn(Entries(c, e)) : Entries(d, e)[i].bin = Entries(c, e)[j].bin
      BY DEF Fewer
    <3> QED
      BY <3>1, <1>1 DEF RecordedIn
  <2> QED
    BY <2>1, <1>1 DEF RecordedIn
<1>2. Lone(c) => Lone(d)
  BY DEF Lone, Fewer
<1> QED
  BY <1>1, <1>2

\* More steps record no less.
LEMMA RecordedMore ==
  ASSUME NEW d, NEW steps, NEW more, RecordedIn(d, steps), steps \subseteq more
  PROVE  RecordedIn(d, more)
BY DEF RecordedIn

-----------------------------------------------------------------------------
(* What the operator does.                                                 *)

\* settings.json becomes d, and what they made of it is noted.
DocEdit(d) ==
  /\ d \in Settings /\ files["settings"] # Missing
  /\ files' = [files EXCEPT !["settings"] = d]
  /\ \A e \in Events : Fewer(Entries(d, e), Entries(Doc, e))
  /\ \/ d.line = Doc.line /\ theirs'.line = theirs.line
     \/ d.line = theirs'.line /\ d.line.by = "op"
  /\ \A e \in Events : Lists(theirs.hooks[e], Entries(Doc, e)) =>
                       Lists(theirs'.hooks[e], Entries(d, e))
  /\ Doc.own = theirs.own => d.own = theirs'.own
  /\ theirs' \in TheirTypes /\ theirs'.reg = theirs.reg
  /\ touched' = TRUE /\ blind' = IF Escapes THEN "mid-run" ELSE blind
  /\ UNCHANGED <<bak, man, reg, op, orig, scar>>

\* What is the same of any two documents that have the same arrays and line.
LEMMA ArraysKept ==
  ASSUME NEW d, NEW c, \A e \in Events : Entries(d, e) = Entries(c, e)
  PROVE  /\ \A e \in Events : Fewer(Entries(d, e), Entries(c, e))
         /\ \A e \in Events : \A t : Lists(t, Entries(c, e)) => Lists(t, Entries(d, e))
BY FewerUnder

LEMMA DocNow ==
  ASSUME InstallTypes
  PROVE  /\ Doc \in Settings /\ files["settings"] \in Content("settings")
         /\ files["settings"] # Missing => files["settings"] = Doc
         /\ \A e \in Events : Entries(Doc, e) \in Seq(Entry)
<1>1. files["settings"] \in Content("settings")
  BY FileNames DEF InstallTypes, IsFiles
<1> QED
  BY <1>1, DocTyped, EntriesTyped DEF Doc, AsDoc

LEMMA SetsOptionIs == ASSUME InstallTypes, SetsOption PROVE \E d : DocEdit(d)
<1> DEFINE d == [Doc EXCEPT !.own = Doc.own + 1]
<1>1. /\ d \in Settings /\ d.line = Doc.line /\ d.hooks = Doc.hooks /\ d.own = Doc.own + 1
      /\ Doc.own \in Int
  BY DocNow DEF Settings
<1>2. Edited(d) /\ theirs' = [theirs EXCEPT !.own = theirs.own + 1]
  BY DEF SetsOption, Now
<1> HIDE DEF d
<1>3. \A e \in Events : Entries(d, e) = Entries(Doc, e)
  BY <1>1 DEF Entries, Has
<1>4. /\ theirs' \in TheirTypes /\ theirs'.hooks = theirs.hooks
      /\ theirs'.line = theirs.line /\ theirs'.own = theirs.own + 1 /\ theirs'.reg = theirs.reg
  BY <1>2 DEF InstallTypes, TheirTypes
<1>5. DocEdit(d)
  BY <1>1, <1>2, <1>3, <1>4, ArraysKept DEF DocEdit, Edited
<1> QED
  BY <1>5

LEMMA SetsLineIs == ASSUME InstallTypes, SetsLine PROVE \E d : DocEdit(d)
<1> DEFINE l == [by |-> "op", bin |-> "", as |-> "tuned"]
           d == [Doc EXCEPT !.line = l]
<1>1. l \in Line /\ l.by = "op"
  BY DEF Line, Entry
<1>2. Edited(d) /\ theirs' = [theirs EXCEPT !.line = l]
  BY DEF SetsLine, Now
<1> HIDE DEF l
<1>3. d \in Settings /\ d.line = l /\ d.hooks = Doc.hooks /\ d.own = Doc.own
  BY <1>1, DocNow DEF Settings
<1> HIDE DEF d
<1>4. \A e \in Events : Entries(d, e) = Entries(Doc, e)
  BY <1>3 DEF Entries, Has
<1>5. /\ theirs' \in TheirTypes /\ theirs'.hooks = theirs.hooks
      /\ theirs'.line = l /\ theirs'.own = theirs.own /\ theirs'.reg = theirs.reg
  BY <1>1, <1>2 DEF InstallTypes, TheirTypes
<1>6. DocEdit(d)
  BY <1>1, <1>2, <1>3, <1>4, <1>5, ArraysKept DEF DocEdit, Edited
<1> QED
  BY <1>6

\* An edit of one array.
LEMMA ArrayEdit ==
  ASSUME InstallTypes, NEW e \in Events, NEW s \in Seq(Entry),
         Edited([Doc EXCEPT !.hooks[e] = s]), Fewer(s, Entries(Doc, e)),
         NEW t \in Seq(Entry),
         theirs' = [theirs EXCEPT !.hooks[e] = t],
         Lists(theirs.hooks[e], Entries(Doc, e)) => Lists(t, s)
  PROVE  \E d : DocEdit(d)
<1> DEFINE d == [Doc EXCEPT !.hooks[e] = s]
<1>1. /\ d \in Settings /\ d.line = Doc.line /\ d.own = Doc.own
      /\ Entries(d, e) = s /\ \A x \in Events \ {e} : Entries(d, x) = Entries(Doc, x)
  BY DocNow, ArraySet
<1>2. Edited(d)
  OBVIOUS
<1> HIDE DEF d
<1>3. \A x \in Events : Fewer(Entries(d, x), Entries(Doc, x))
  BY <1>1, FewerUnder
<1>4. /\ theirs' \in TheirTypes
      /\ theirs'.hooks[e] = t /\ \A x \in Events \ {e} : theirs'.hooks[x] = theirs.hooks[x]
      /\ theirs'.line = theirs.line /\ theirs'.own = theirs.own /\ theirs'.reg = theirs.reg
  BY DEF InstallTypes, TheirTypes
<1>5. \A x \in Events : Lists(theirs.hooks[x], Entries(Doc, x)) =>
                        Lists(theirs'.hooks[x], Entries(d, x))
  BY <1>1, <1>4
<1>6. DocEdit(d)
  BY <1>1, <1>2, <1>3, <1>4, <1>5 DEF DocEdit, Edited
<1> QED
  BY <1>6

LEMMA AddsHookIs ==
  ASSUME InstallTypes, NEW e \in Events, AddsHook(e) PROVE \E d : DocEdit(d)
<1> DEFINE s == Append(Entries(Doc, e), Theirs)
           t == Append(theirs.hooks[e], Theirs)
<1>1. Entries(Doc, e) \in Seq(Entry) /\ Theirs \in Entry /\ Theirs.by = "op"
  BY DocNow, Apart DEF Theirs
<1>2. theirs.hooks[e] \in Seq(Entry)
  BY DEF InstallTypes, TheirTypes
<1>3. s \in Seq(Entry) /\ t \in Seq(Entry)
  BY <1>1, <1>2
<1>4. Fewer(s, Entries(Doc, e))
  BY <1>1, FewerAppend
<1>5. Lists(theirs.hooks[e], Entries(Doc, e)) => Lists(t, s)
  BY <1>1, <1>2, ListsAppendMine
<1>6. Edited([Doc EXCEPT !.hooks[e] = s]) /\ theirs' = [theirs EXCEPT !.hooks[e] = t]
  BY DEF AddsHook, Now
<1> HIDE DEF s, t
<1> QED
  BY <1>3, <1>4, <1>5, <1>6, ArrayEdit

\* An entry of ours is retuned or taken out, and nothing of theirs changes.
LEMMA TheirsAside ==
  ASSUME InstallTypes, NEW e \in Events, UNCHANGED theirs
  PROVE  theirs.hooks[e] \in Seq(Entry) /\ theirs' = [theirs EXCEPT !.hooks[e] = theirs.hooks[e]]
BY DEF InstallTypes, TheirTypes

LEMMA OursListed ==
  ASSUME NEW d \in Settings, NEW e \in Events, NEW i \in DOMAIN Entries(d, e)
  PROVE  d.hooks[e] = Entries(d, e) /\ d.hooks[e] \in Seq(Entry)
BY EntriesTyped DEF Entries

LEMMA RetunesIs ==
  ASSUME InstallTypes, NEW e \in Events, NEW as \in {"tuned", "shared", "unreadable"}, Retunes(e, as)
  PROVE  \E d : DocEdit(d)
<1>1. PICK i \in DOMAIN Entries(Doc, e) :
        /\ Doc.hooks[e][i].by = "us" /\ Edited([Doc EXCEPT !.hooks[e][i].as = as])
        /\ UNCHANGED theirs
  BY DEF Retunes, Now
<1> DEFINE r == Doc.hooks[e]
           x == [r[i] EXCEPT !.as = as]
           s == [r EXCEPT ![i] = x]
<1>2. Doc \in Settings /\ r = Entries(Doc, e) /\ r \in Seq(Entry)
  BY DocNow, OursListed
<1>3. x \in Entry /\ x.by = "us" /\ x.bin = r[i].bin
  <2>1. r[i] \in Entry /\ r[i].by = "us"
    BY <1>1, <1>2
  <2> HIDE DEF r
  <2> QED
    BY <2>1 DEF Entry
<1>4. [Doc EXCEPT !.hooks[e][i].as = as] = [Doc EXCEPT !.hooks[e] = s]
  BY <1>2 DEF Settings
<1> HIDE DEF x
<1>5. /\ s \in Seq(Entry) /\ DOMAIN s = DOMAIN r
      /\ \A k \in DOMAIN r : s[k] = IF k = i THEN x ELSE r[k]
  BY <1>2, <1>3
<1>6. Edited([Doc EXCEPT !.hooks[e] = s])
  BY <1>1, <1>4
<1> HIDE DEF s, r
<1>7. r[i].by = "us"
  BY <1>1 DEF r
<1>8. OursIn(s) = OursIn(r) /\ \A k \in OursIn(r) : s[k].bin = r[k].bin
  BY <1>3, <1>5, <1>7 DEF OursIn
<1>9. Mine(s) = Mine(r) /\ \A k \in Mine(r) : s[k] = r[k]
  BY <1>3, <1>5, <1>7 DEF Mine
<1>10. Fewer(s, Entries(Doc, e))
  BY <1>2, <1>8, FewerUnder
<1>11. Lists(theirs.hooks[e], Entries(Doc, e)) => Lists(theirs.hooks[e], s)
  BY <1>2, <1>9, ListsUnder
<1> QED
  BY <1>1, <1>5, <1>6, <1>10, <1>11, TheirsAside, ArrayEdit

LEMMA RemovesOursIs ==
  ASSUME InstallTypes, NEW e \in Events, RemovesOurs(e) PROVE \E d : DocEdit(d)
<1>1. PICK i \in DOMAIN Entries(Doc, e) :
        /\ Doc.hooks[e][i].by = "us"
        /\ Edited([Doc EXCEPT !.hooks[e] = RemoveAt(Doc.hooks[e], i)])
        /\ UNCHANGED theirs
  BY DEF RemovesOurs, Now
<1> DEFINE r == Entries(Doc, e)
           s == RemoveAt(r, i)
<1>2. Doc \in Settings /\ Doc.hooks[e] = r /\ r \in Seq(Entry) /\ theirs.hooks[e] \in Seq(Entry)
  BY DocNow, OursListed DEF InstallTypes, TheirTypes
<1>3. s \in Seq(Entry)
  BY <1>2, Removed
<1>4. Fewer(s, r)
  BY <1>2, FewerRemove
<1>5. Lists(theirs.hooks[e], r) => Lists(theirs.hooks[e], s)
  BY <1>1, <1>2, ListsRemoveOther
<1>6. Edited([Doc EXCEPT !.hooks[e] = s])
  BY <1>1, <1>2
<1> HIDE DEF s
<1> QED
  BY <1>1, <1>3, <1>4, <1>5, <1>6, TheirsAside, ArrayEdit

LEMMA OperatorIs ==
  ASSUME InstallTypes, Operator
  PROVE  (\E d : DocEdit(d)) \/ \E name \in {"old", "new"} : Deregisters(name)
BY SetsOptionIs, SetsLineIs, AddsHookIs, RetunesIs, RemovesOursIs DEF Operator

-----------------------------------------------------------------------------
(* The types are kept.                                                     *)

LEMMA OpKinds ==
  ASSUME InstallTypes
  PROVE  /\ op.pc \in {"idle"} \cup InstallPcs \cup UninstallPcs
         /\ op.pc = "idle" => op = NoRunNow
         /\ op.pc \in InstallPcs => InstallRun
         /\ op.pc \in UninstallPcs => UninstallRun
<1>1. NoRunNow.pc = "idle"
  BY DEF NoRunNow
<1>2. InstallRun => op.pc \in InstallPcs
  BY DEF InstallRun
<1>3. UninstallRun => op.pc \in UninstallPcs
  BY DEF UninstallRun
<1> QED
  BY <1>1, <1>2, <1>3 DEF InstallTypes, InstallPcs, UninstallPcs

LEMMA TypesKept ==
  ASSUME InstallTypes, IsFiles(files'), UNCHANGED <<bak, man, orig>>,
         theirs' \in TheirTypes, reg' \subseteq {"old", "new"}, touched' \in BOOLEAN,
         op' = NoRunNow \/ InstallRun' \/ UninstallRun'
  PROVE  InstallTypes'
BY DEF InstallTypes, ManOK


\* What the types say of one file.
LEMMA FileTyped ==
  ASSUME InstallTypes, NEW f \in Files
  PROVE  files[f] \in Content(f) /\ orig[f] \in Content(f) /\ bak[Base(f)] \in Content(f)
BY DEF InstallTypes, IsFiles

LEMMA PutIs ==
  ASSUME InstallTypes, InstallRun, NEW f \in Files, NEW content \in Content(f),
         NEW next, Put(f, content, next)
  PROVE  /\ IsFiles(files') /\ files'[f] = content /\ \A g \in Files \ {f} : files'[g] = files[g]
         /\ DOMAIN bak' = {"settings", "delegate", "tee"}
         /\ \A g \in Files : bak'[Base(g)] \in Content(g)
         /\ \A g \in Files : Base(g) # Base(f) => bak'[Base(g)] = bak[Base(g)]
         /\ files[f] # Missing /\ ~ FirstCopyKept(f) => bak'[Base(f)] = files[f]
         /\ files[f] = Missing => bak' = bak
         /\ DOMAIN op' = {"pc", "bin", "wire", "loaded", "doc", "before", "cli"}
         /\ op'.pc = next /\ op'.bin = op.bin /\ op'.wire = op.wire /\ op'.loaded = op.loaded
         /\ op'.doc = op.doc /\ op'.cli = op.cli
         /\ DOMAIN op'.before = DOMAIN op.before \cup {f}
         /\ op'.before[f] = files[f]
         /\ \A g \in DOMAIN op.before \ {f} : op'.before[g] = op.before[g]
<1>1. IsFiles(files') /\ files'[f] = content /\ \A g \in Files \ {f} : files'[g] = files[g]
  <2>1. IsFiles(files) /\ files' = [files EXCEPT ![f] = content]
    BY DEF InstallTypes, Put
  <2> QED
    BY <2>1 DEF IsFiles
<1>2. files[f] \in Content(f) /\ \A g \in Files : bak[Base(g)] \in Content(g)
  BY DEF InstallTypes, IsFiles
<1>3. \A g \in Files : Base(g) \in DOMAIN bak /\ (Base(g) = Base(f) => Content(g) = Content(f))
  BY FileNames DEF InstallTypes, Content
<1>4. /\ DOMAIN bak' = {"settings", "delegate", "tee"}
      /\ \A g \in Files : Base(g) # Base(f) => bak'[Base(g)] = bak[Base(g)]
      /\ files[f] # Missing /\ ~ FirstCopyKept(f) => bak'[Base(f)] = files[f]
      /\ bak'[Base(f)] = bak[Base(f)] \/ bak'[Base(f)] = files[f]
      /\ files[f] = Missing => bak' = bak
  BY <1>3 DEF Put, InstallTypes
<1>5. \A g \in Files : bak'[Base(g)] \in Content(g)
  BY <1>2, <1>3, <1>4
<1> DEFINE b == [g \in DOMAIN op.before \cup {f} |-> IF g = f THEN files[f] ELSE op.before[g]]
<1>6. op' = [op EXCEPT !.pc = next, !.before = b]
  BY DEF Put
<1>7. /\ DOMAIN b = DOMAIN op.before \cup {f} /\ b[f] = files[f]
      /\ \A g \in DOMAIN op.before \ {f} : b[g] = op.before[g]
  OBVIOUS
<1> HIDE DEF b
<1>8. /\ DOMAIN op' = {"pc", "bin", "wire", "loaded", "doc", "before", "cli"}
      /\ op'.pc = next /\ op'.bin = op.bin /\ op'.wire = op.wire /\ op'.loaded = op.loaded
      /\ op'.doc = op.doc /\ op'.cli = op.cli /\ op'.before = b
  BY <1>6 DEF InstallRun
<1> QED
  BY <1>1, <1>4, <1>5, <1>7, <1>8

\* Only the stage changes.
LEMMA ThenIs ==
  ASSUME NEW pc, Then(pc)
  PROVE  /\ InstallRun =>
              /\ DOMAIN op' = DOMAIN op /\ op'.pc = pc /\ op'.bin = op.bin /\ op'.wire = op.wire
              /\ op'.loaded = op.loaded /\ op'.doc = op.doc /\ op'.before = op.before
              /\ op'.cli = op.cli
         /\ UninstallRun =>
              /\ DOMAIN op' = DOMAIN op /\ op'.pc = pc /\ op'.doc = op.doc
              /\ op'.whole = op.whole /\ op'.drop = op.drop
BY DEF Then, InstallRun, UninstallRun

LEMMA StartInstallIs ==
  ASSUME NEW bin \in Bins, NEW cli \in BOOLEAN, StartInstall(bin, cli)
  PROVE  /\ op.pc = "idle" /\ op'.wire # {}
         /\ op'.wire \subseteq Events \cup {"line", "new"}
         /\ DOMAIN op' = {"pc", "bin", "wire", "loaded", "doc", "before", "cli"}
         /\ op'.bin = bin /\ op'.loaded = files["settings"] /\ op'.doc = Doc
         /\ DOMAIN op'.before = {} /\ op'.cli = FALSE
         /\ op'.pc \in {"tee", "settings", "cli"}
         /\ "line" \in op'.wire <=> op'.pc = "tee"
         /\ op'.wire = {"new"} <=> op'.pc = "cli"
<1> DEFINE status == InstallStatus(Doc, bin, cli)
           wire == {s \in DOMAIN status : status[s] = "wire"}
           pc == CASE "line" \in wire -> "tee" [] wire = {"new"} -> "cli" [] OTHER -> "settings"
<1>1. DOMAIN status = Events \cup {"line", "new"}
  BY DEF InstallStatus
<1>2. /\ op.pc = "idle" /\ wire # {}
      /\ op' = [pc |-> pc, bin |-> bin, wire |-> wire, loaded |-> files["settings"],
                doc |-> Doc, before |-> <<>>, cli |-> FALSE]
  BY DEF StartInstall, Doing
<1>3. /\ pc \in {"tee", "settings", "cli"} /\ ("line" \in wire <=> pc = "tee")
      /\ wire = {"new"} <=> pc = "cli"
  OBVIOUS
<1> HIDE DEF status, wire, pc
<1>4. DOMAIN <<>> = {}
  OBVIOUS
<1>5. /\ DOMAIN op' = {"pc", "bin", "wire", "loaded", "doc", "before", "cli"}
      /\ op'.pc = pc /\ op'.bin = bin /\ op'.wire = wire /\ op'.loaded = files["settings"]
      /\ op'.doc = Doc /\ op'.before = <<>> /\ op'.cli = FALSE
  BY <1>2
<1>6. wire = {s \in Events \cup {"line", "new"} : status[s] = "wire"}
  BY <1>1 DEF wire
<1> QED
  BY <1>2, <1>3, <1>4, <1>5, <1>6 DEF status

LEMMA TypesStartInstall ==
  ASSUME InstallTypes, NEW bin \in Bins, NEW cli \in BOOLEAN, StartInstall(bin, cli)
  PROVE  InstallTypes'
<1>1. InstallRun'
  <2>1. /\ op'.wire \subseteq Events \cup {"line", "new"}
        /\ DOMAIN op' = {"pc", "bin", "wire", "loaded", "doc", "before", "cli"}
        /\ op'.bin = bin /\ op'.loaded = files["settings"] /\ op'.doc = Doc
        /\ DOMAIN op'.before = {} /\ op'.cli = FALSE
        /\ op'.pc \in {"tee", "settings", "cli"}
        /\ "line" \in op'.wire <=> op'.pc = "tee"
        /\ op'.wire = {"new"} <=> op'.pc = "cli"
    BY StartInstallIs
  <2>2. op'.loaded \in Content("settings") /\ files'["settings"] = files["settings"]
        /\ op'.doc = AsDoc(op'.loaded)
    BY <2>1, DocNow DEF StartInstall, Doc
  <2>3. op'.pc = "cli" => "new" \in op'.wire
    BY <2>1
  <2> QED
    BY <2>1, <2>2, <2>3 DEF InstallRun, InstallPcs
<1>2. UNCHANGED <<files, bak, man, reg, theirs>>
  BY DEF StartInstall
<1>3. IsFiles(orig') /\ touched' \in BOOLEAN
  BY DEF StartInstall, InstallTypes
<1> QED
  BY <1>1, <1>2, <1>3 DEF InstallTypes, ManOK, IsFiles

LEMMA TypesWriteTee == ASSUME InstallTypes, WriteTee PROVE InstallTypes'
<1>1. op.pc = "tee" /\ InstallRun /\ op.bin \in Files /\ Script \in Content(op.bin)
      /\ op.bin \notin {"settings", "delegate"} /\ op.bin \in Bins
  BY OpKinds, FileNames DEF WriteTee, Doing, InstallPcs, InstallRun, Content
<1>2. Put(op.bin, Script, "delegate") /\ UNCHANGED <<man, reg, theirs, orig, touched>>
  BY DEF WriteTee
<1>3. InstallRun'
  <2>1. /\ IsFiles(files') /\ files'["settings"] = files["settings"]
        /\ DOMAIN op' = {"pc", "bin", "wire", "loaded", "doc", "before", "cli"}
        /\ op'.pc = "delegate" /\ op'.bin = op.bin /\ op'.wire = op.wire /\ op'.loaded = op.loaded
        /\ op'.doc = op.doc /\ op'.cli = op.cli
        /\ DOMAIN op'.before = DOMAIN op.before \cup {op.bin}
        /\ op'.before[op.bin] = files[op.bin]
        /\ \A g \in DOMAIN op.before \ {op.bin} : op'.before[g] = op.before[g]
    <3>1. "settings" \in Files \ {op.bin}
      BY <1>1, FileNames
    <3> DEFINE f == op.bin
    <3>2. /\ f \in Files /\ InstallRun /\ Script \in Content(f) /\ Put(f, Script, "delegate")
          /\ "settings" \in Files \ {f}
      BY <1>1, <1>2, <3>1
    <3> HIDE DEF f
    <3>3. /\ IsFiles(files') /\ files'["settings"] = files["settings"]
          /\ DOMAIN op' = {"pc", "bin", "wire", "loaded", "doc", "before", "cli"}
          /\ op'.pc = "delegate" /\ op'.bin = op.bin /\ op'.wire = op.wire
          /\ op'.loaded = op.loaded /\ op'.doc = op.doc /\ op'.cli = op.cli
      BY <3>2, PutIs
    <3>4. /\ DOMAIN op'.before = DOMAIN op.before \cup {f} /\ op'.before[f] = files[f]
          /\ \A g \in DOMAIN op.before \ {f} : op'.before[g] = op.before[g]
      BY <3>2, PutIs
    <3> QED
      BY <3>3, <3>4 DEF f
  <2>2. files[op.bin] \in Content(op.bin)
    BY <1>1, FileTyped
  <2> QED
    BY <1>1, <2>1, <2>2 DEF InstallRun, InstallPcs
<1>4. /\ IsFiles(files') /\ DOMAIN bak' = {"settings", "delegate", "tee"}
      /\ \A g \in Files : bak'[Base(g)] \in Content(g)
  BY <1>1, <1>2, PutIs
<1> QED
  BY <1>2, <1>3, <1>4 DEF InstallTypes, ManOK

LEMMA TypesWriteDelegate == ASSUME InstallTypes, WriteDelegate PROVE InstallTypes'
<1>1. op.pc = "delegate" /\ InstallRun /\ "delegate" \in Files
  BY OpKinds, FileNames DEF WriteDelegate, Doing, InstallPcs
<1>2. op.doc.line \in Content("delegate")
  BY <1>1, DocTyped DEF InstallRun, Content, Settings
<1>3. Put("delegate", op.doc.line, "settings") /\ UNCHANGED <<man, reg, theirs, orig, touched>>
  BY DEF WriteDelegate
<1>4. InstallRun'
  <2>1. /\ files'["settings"] = files["settings"]
        /\ DOMAIN op' = {"pc", "bin", "wire", "loaded", "doc", "before", "cli"}
        /\ op'.pc = "settings" /\ op'.bin = op.bin /\ op'.wire = op.wire /\ op'.loaded = op.loaded
        /\ op'.doc = op.doc /\ op'.cli = op.cli
        /\ DOMAIN op'.before = DOMAIN op.before \cup {"delegate"}
        /\ op'.before["delegate"] = files["delegate"]
        /\ \A g \in DOMAIN op.before \ {"delegate"} : op'.before[g] = op.before[g]
    <3>1. "settings" \in Files \ {"delegate"}
      BY FileNames
    <3> QED
      BY <1>1, <1>2, <1>3, <3>1, PutIs
  <2>2. files["delegate"] \in Content("delegate")
    BY <1>1, FileTyped
  <2> QED
    BY <1>1, <2>1, <2>2 DEF InstallRun, InstallPcs
<1>5. /\ IsFiles(files') /\ DOMAIN bak' = {"settings", "delegate", "tee"}
      /\ \A g \in Files : bak'[Base(g)] \in Content(g)
  BY <1>1, <1>2, <1>3, PutIs
<1> QED
  BY <1>3, <1>4, <1>5 DEF InstallTypes, ManOK

\* What is about to be edited is what was loaded.
LEMMA WriteSettingsIs ==
  ASSUME InstallTypes, WriteSettings
  PROVE  /\ op.pc = "settings" /\ InstallRun /\ "settings" \in Files
         /\ files["settings"] = op.loaded /\ op.doc = Doc /\ op.doc \in Settings
         /\ Wired(op.doc) \in Settings /\ Wired(op.doc) # Missing
         /\ "settings" \notin DOMAIN op.before
         /\ Put("settings", Wired(op.doc), IF "new" \in op.wire THEN "cli" ELSE "manifest")
<1>1. op.pc = "settings" /\ InstallRun /\ "settings" \in Files
  BY OpKinds, FileNames DEF WriteSettings, Doing, InstallPcs
<1>2. files["settings"] = op.loaded
  BY <1>1 DEF InstallRun, WriteSettings, Moved
<1>3. op.doc = Doc /\ op.doc \in Settings /\ "settings" \notin DOMAIN op.before
  BY <1>1, <1>2, DocTyped DEF InstallRun, Doc
<1>4. Wired(op.doc) \in Settings /\ Wired(op.doc) # Missing
  BY <1>1, <1>3, WiredDoc, Apart DEF InstallRun
<1> QED
  BY <1>1, <1>2, <1>3, <1>4 DEF WriteSettings

LEMMA TypesWriteSettings == ASSUME InstallTypes, WriteSettings PROVE InstallTypes'
<1> DEFINE next == IF "new" \in op.wire THEN "cli" ELSE "manifest"
<1>1. /\ op.pc = "settings" /\ InstallRun /\ "settings" \in Files
      /\ files["settings"] = op.loaded /\ Wired(op.doc) \in Content("settings")
      /\ Wired(op.doc) # Missing /\ Put("settings", Wired(op.doc), next)
  BY WriteSettingsIs DEF Content
<1>2. UNCHANGED <<man, reg, theirs, orig, touched>>
  BY DEF WriteSettings
<1>3. InstallRun'
  <2>1. /\ files'["settings"] # Missing
        /\ DOMAIN op' = {"pc", "bin", "wire", "loaded", "doc", "before", "cli"}
        /\ op'.pc = next /\ op'.bin = op.bin /\ op'.wire = op.wire /\ op'.loaded = op.loaded
        /\ op'.doc = op.doc /\ op'.cli = op.cli
        /\ DOMAIN op'.before = DOMAIN op.before \cup {"settings"}
        /\ op'.before["settings"] = files["settings"]
        /\ \A g \in DOMAIN op.before \ {"settings"} : op'.before[g] = op.before[g]
    BY <1>1, PutIs
  <2>2. /\ next \in {"cli", "manifest"} /\ (next = "cli" => "new" \in op.wire)
        /\ op.wire # {"new"}
    BY <1>1 DEF InstallRun
  <2> HIDE DEF next
  <2>3. \A f \in DOMAIN op'.before : op'.before[f] \in Content(f)
    BY <1>1, <2>1 DEF InstallRun
  <2>4. /\ op.bin \in Bins /\ op.wire \subseteq Events \cup {"line", "new"} /\ op.cli = FALSE
        /\ op.loaded \in Content("settings") /\ op.doc = AsDoc(op.loaded)
        /\ DOMAIN op.before \subseteq {op.bin, "delegate", "settings"}
        /\ op.bin \in DOMAIN op.before \/ "delegate" \in DOMAIN op.before => "line" \in op.wire
    BY <1>1 DEF InstallRun
  <2>5. "settings" \in DOMAIN op'.before /\ op'.before["settings"] = op'.loaded
    BY <1>1, <2>1
  <2>6. op'.bin \in DOMAIN op'.before \/ "delegate" \in DOMAIN op'.before => "line" \in op'.wire
    BY <2>1, <2>4, FileNames
  <2> QED
    BY <2>1, <2>2, <2>3, <2>4, <2>5, <2>6 DEF InstallRun, InstallPcs
<1>4. /\ IsFiles(files') /\ DOMAIN bak' = {"settings", "delegate", "tee"}
      /\ \A g \in Files : bak'[Base(g)] \in Content(g)
  BY <1>1, PutIs
<1> QED
  BY <1>2, <1>3, <1>4 DEF InstallTypes, ManOK

LEMMA TypesUnroll == ASSUME InstallTypes, SettingsMoved \/ InstallFails PROVE InstallTypes'
<1>1. InstallRun /\ Then("unroll") /\ UNCHANGED <<files, bak, man, reg, theirs, orig, touched>>
  BY OpKinds DEF SettingsMoved, InstallFails, Doing, InstallPcs
<1>2. InstallRun'
  BY <1>1, ThenIs DEF InstallRun, InstallPcs
<1> QED
  BY <1>1, <1>2, TypesKept DEF InstallTypes

LEMMA RegisterIs ==
  ASSUME InstallTypes, Register
  PROVE  /\ op.pc = "cli" /\ InstallRun /\ files' = Relaid(files) /\ reg' = reg \cup {"new"}
         /\ DOMAIN op' = DOMAIN op /\ op'.pc = "manifest" /\ op'.bin = op.bin
         /\ op'.wire = op.wire /\ op'.loaded = op.loaded /\ op'.doc = op.doc
         /\ op'.before = op.before /\ op'.cli = TRUE
<1>1. op.pc = "cli" /\ InstallRun /\ files' = Relaid(files) /\ reg' = reg \cup {"new"}
  BY OpKinds DEF Register, Doing, InstallPcs
<1>2. op' = [op EXCEPT !.pc = "manifest", !.cli = TRUE]
  BY DEF Register
<1> QED
  BY <1>1, <1>2 DEF InstallRun

LEMMA TypesRegister == ASSUME InstallTypes, Register PROVE InstallTypes'
<1>1. IsFiles(files') /\ (files'["settings"] = Missing <=> files["settings"] = Missing)
  <2>1. files' = Relaid(files) /\ IsFiles(files)
    BY RegisterIs DEF InstallTypes
  <2> QED
    BY <2>1, RelaidFiles
<1>2. InstallRun'
  BY <1>1, RegisterIs DEF InstallRun, InstallPcs
<1>3. UNCHANGED <<bak, man, theirs, orig, touched>> /\ reg' \subseteq {"old", "new"}
  BY DEF Register, InstallTypes
<1> QED
  BY <1>1, <1>2, <1>3, TypesKept DEF InstallTypes

LEMMA NewStepsTyped == ASSUME InstallRun PROVE NewSteps \subseteq Steps
<1>1. op.doc.line \in Line /\ NoLine \in Line /\ op.bin \in Bins
  BY DocTyped, Apart DEF InstallRun, Settings
<1>2. \A e \in op.wire \cap Events :
        [at |-> e, bin |-> op.bin, prior |-> NoLine, created |-> ~ Has(op.doc, e)] \in Steps
  BY <1>1 DEF Steps
<1>3. \A s \in op.wire \cap {"line", "new"} :
        [at |-> s, bin |-> op.bin, prior |-> op.doc.line, created |-> FALSE] \in Steps
  BY <1>1 DEF Steps
<1> QED
  BY <1>2, <1>3 DEF NewSteps

LEMMA SaveManifestIs ==
  ASSUME InstallTypes, SaveManifest
  PROVE  /\ op.pc = "manifest" /\ InstallRun /\ op' = NoRunNow /\ op'.pc = "idle"
         /\ DOMAIN man' = {"steps", "files", "there"} /\ man'.there = TRUE
         /\ man'.steps = NewSteps \cup man.steps
         /\ DOMAIN man'.files = DOMAIN op.before \cup DOMAIN man.files
         /\ \A f \in DOMAIN op.before : man'.files[f] = FileRec(f) /\ files[f] # Missing
         /\ \A f \in DOMAIN man.files \ DOMAIN op.before : man'.files[f] = man.files[f]
<1>1. op.pc = "manifest" /\ InstallRun /\ op' = NoRunNow /\ NoRunNow.pc = "idle"
  BY OpKinds DEF SaveManifest, Doing, InstallPcs, NoRunNow
<1> DEFINE recs == [f \in DOMAIN op.before \cup DOMAIN man.files |->
                      IF f \in DOMAIN op.before THEN FileRec(f) ELSE man.files[f]]
<1>2. man' = [there |-> TRUE, steps |-> NewSteps \cup man.steps, files |-> recs]
  BY DEF SaveManifest, AllSteps
<1>3. /\ DOMAIN recs = DOMAIN op.before \cup DOMAIN man.files
      /\ \A f \in DOMAIN op.before : recs[f] = FileRec(f)
      /\ \A f \in DOMAIN man.files \ DOMAIN op.before : recs[f] = man.files[f]
  OBVIOUS
<1> HIDE DEF recs
<1>4. \A f \in DOMAIN op.before : files[f] # Missing
  BY DEF SaveManifest
<1> QED
  BY <1>1, <1>2, <1>3, <1>4

LEMMA TypesSaveManifest == ASSUME InstallTypes, SaveManifest PROVE InstallTypes'
<1>1. UNCHANGED <<files, bak, reg, theirs, orig, touched>> /\ op' = NoRunNow
  BY DEF SaveManifest
<1>2. ASSUME NEW f \in DOMAIN op.before PROVE IsRec(FileRec(f), f)
  <2>5. f \in Files /\ op.before[f] \in Content(f)
    BY <1>2, SaveManifestIs, FileNames DEF InstallRun
  <2>6. f \in DOMAIN man.files => IsRec(man.files[f], f)
    BY DEF InstallTypes, ManOK
  <2>1. /\ f \in Files /\ op.before[f] \in Content(f)
        /\ f \in DOMAIN man.files => IsRec(man.files[f], f)
    BY <2>5, <2>6
  <2>0. files[f] \in Content(f) \ {Missing}
    BY <1>2, <2>1, SaveManifestIs, FileTyped
  <2> DEFINE fresh == [before |-> op.before[f], created |-> op.before[f] = Missing,
                       after |-> files[f]]
             kept  == [man.files[f] EXCEPT !.after = files[f]]
  <2>2. IsRec(fresh, f)
    BY <2>0, <2>1 DEF IsRec
  <2>3. f \in DOMAIN man.files => IsRec(kept, f)
    BY <2>0, <2>1 DEF IsRec
  <2>4. FileRec(f) = IF f = "settings" /\ f \in DOMAIN man.files THEN kept ELSE fresh
    BY DEF FileRec, Hashed, FromDisk
  <2> QED
    BY <2>2, <2>3, <2>4
<1>3. ManOK'
  <2>1. man'.steps \subseteq Steps
    BY SaveManifestIs, NewStepsTyped DEF InstallTypes, ManOK
  <2>2. DOMAIN man'.files \subseteq Files
    <3>1. DOMAIN op.before \subseteq Files
      BY SaveManifestIs, FileNames DEF InstallRun
    <3> QED
      BY <3>1, SaveManifestIs DEF InstallTypes, ManOK
  <2>3. ASSUME NEW f \in DOMAIN man'.files PROVE IsRec(man'.files[f], f)
    <3>1. CASE f \in DOMAIN op.before
      BY <1>2, <3>1, SaveManifestIs
    <3>2. CASE f \notin DOMAIN op.before
      <4>1. f \in DOMAIN man.files /\ man'.files[f] = man.files[f]
        BY <3>2, SaveManifestIs
      <4> QED
        BY <4>1 DEF InstallTypes, ManOK
    <3> QED
      BY <3>1, <3>2
  <2> QED
    BY <2>1, <2>2, <2>3, SaveManifestIs DEF ManOK
<1> QED
  BY <1>1, <1>3 DEF InstallTypes

\* Some of what a run wrote is put back.
LEMMA PutBackIs ==
  ASSUME InstallTypes, InstallRun, NEW fs, fs \subseteq DOMAIN op.before,
         files' = PutBack(fs)
  PROVE  /\ IsFiles(files') /\ \A f \in fs : files'[f] = op.before[f]
         /\ \A f \in Files \ fs : f # "settings" => files'[f] = files[f]
         /\ "settings" \notin fs => Same(Doc', Doc)
         /\ ~ op.cli => \A f \in Files \ fs : files'[f] = files[f]
<1> DEFINE now == IF op.cli THEN Relaid(files) ELSE files
<1>1. /\ IsFiles(now) /\ \A f \in Files \ {"settings"} : now[f] = files[f]
      /\ Same(AsDoc(now["settings"]), AsDoc(files["settings"]))
  BY RelaidFiles DEF InstallTypes, Same
<1>2. files' = [f \in Files |-> IF f \in fs THEN op.before[f] ELSE now[f]]
  BY DEF PutBack
<1>3. fs \subseteq Files /\ \A f \in fs : op.before[f] \in Content(f)
  BY FileNames DEF InstallRun
<1>4. ~ op.cli => now = files
  OBVIOUS
<1> HIDE DEF now
<1>5. \A f \in Files : files'[f] = IF f \in fs THEN op.before[f] ELSE now[f]
  BY <1>2
<1>6. IsFiles(files')
  BY <1>1, <1>2, <1>3 DEF IsFiles
<1>7. "settings" \notin fs => Doc' = AsDoc(now["settings"])
  BY <1>5, FileNames DEF Doc
<1> QED
  BY <1>1, <1>3, <1>4, <1>5, <1>6, <1>7 DEF Doc

LEMMA TypesRollBack == ASSUME InstallTypes, RollBack \/ RollBackStrands PROVE InstallTypes'
<1>1. InstallRun /\ op' = NoRunNow /\ UNCHANGED <<bak, man, theirs, orig, touched>>
  BY OpKinds DEF RollBack, RollBackStrands, Doing, InstallPcs
<1>2. \E fs : fs \subseteq DOMAIN op.before /\ files' = PutBack(fs)
  BY DEF RollBack, RollBackStrands
<1>3. reg' \subseteq reg
  BY DEF RollBack, RollBackStrands
<1>4. IsFiles(files')
  BY <1>1, <1>2, PutBackIs
<1> QED
  BY <1>1, <1>3, <1>4, TypesKept DEF InstallTypes

\* What an uninstall decides before it changes anything.
LEMMA UndoHook ==
  ASSUME NEW d, NEW s, s.at \in Events
  PROVE  /\ Undo(d, s) \in {"remove", "edited"} => Found(d, s.at, s.bin) # {}
         /\ Undo(d, s) = "not wired" => Found(d, s.at, s.bin) = {}
         /\ Undo(d, s) = "edited" => \E i \in Found(d, s.at, s.bin) : Entries(d, s.at)[i].as # "installed"
         /\ Undo(d, s) # "drift" => ~ Undetermined(d, s.at, s.bin)
         /\ Undo(d, s) \in {"remove", "edited", "not wired", "drift"}
<1> DEFINE found == Found(d, s.at, s.bin)
           unclear == Undetermined(d, s.at, s.bin)
           tuned == \E i \in found : Entries(d, s.at)[i].as # "installed"
<1>1. Undo(d, s) = IF Cardinality(found) > 1 \/ unclear THEN "drift"
                   ELSE IF found = {} THEN "not wired" ELSE IF tuned THEN "edited" ELSE "remove"
  BY InstallAssumption DEF Undo
<1> HIDE DEF found, unclear, tuned
<1>2. /\ Undo(d, s) \in {"remove", "edited"} => found # {}
      /\ Undo(d, s) = "not wired" => found = {}
      /\ Undo(d, s) = "edited" => tuned
      /\ Undo(d, s) # "drift" => ~ unclear
      /\ Undo(d, s) \in {"remove", "edited", "not wired", "drift"}
  BY <1>1
<1> QED
  BY <1>2 DEF found, unclear, tuned

LEMMA UndoOther ==
  ASSUME NEW d, NEW s, s.at \notin Events
  PROVE  /\ Undo(d, s) \in {"remove", "not wired", "drift"}
         /\ s.at # "line" => (Undo(d, s) = "remove" <=> s.at \in reg) /\ Undo(d, s) # "drift"
         /\ s.at = "line" => /\ Undo(d, s) = "remove" => InLine(d, s.bin)
                             /\ Undo(d, s) = "not wired" => d.line = NoLine
BY DEF Undo

LEMMA StartUninstallIs ==
  ASSUME InstallTypes, StartUninstall
  PROVE  /\ op.pc = "idle" /\ man.there /\ op'.pc = "deregister" /\ op'.doc = Doc
         /\ DOMAIN op' = {"pc", "doc", "whole", "drop"}
         /\ op'.whole = {f \in DOMAIN man.files : ByteOK(f)}
         /\ op'.drop = {s \in man.steps : Undo(Doc, s) \in {"remove", "edited"}}
         /\ \A s \in man.steps : Undo(Doc, s) # "drift"
         /\ UNCHANGED <<files, bak, man, reg, theirs, orig, blind, touched, scar>>
<1> DEFINE whole == {f \in DOMAIN man.files : ByteOK(f)}
           drop == {s \in man.steps : Undo(Doc, s) \in {"remove", "edited"}}
<1>1. /\ op.pc = "idle" /\ man.there
      /\ op' = [pc |-> "deregister", doc |-> Doc, whole |-> whole, drop |-> drop]
      /\ \A s \in man.steps : Undo(Doc, s) # "drift"
      /\ UNCHANGED <<files, bak, man, reg, theirs, orig, blind, touched, scar>>
  BY DEF StartUninstall, Doing
<1> HIDE DEF whole, drop
<1>2. /\ DOMAIN op' = {"pc", "doc", "whole", "drop"} /\ op'.pc = "deregister"
      /\ op'.doc = Doc /\ op'.whole = whole /\ op'.drop = drop
  BY <1>1
<1> QED
  BY <1>1, <1>2 DEF whole, drop

LEMMA TypesStartUninstall == ASSUME InstallTypes, StartUninstall PROVE InstallTypes'
<1>1. /\ man.there /\ op'.pc = "deregister" /\ op'.doc = Doc
      /\ DOMAIN op' = {"pc", "doc", "whole", "drop"}
      /\ op'.whole = {f \in DOMAIN man.files : ByteOK(f)}
      /\ op'.drop = {s \in man.steps : Undo(Doc, s) \in {"remove", "edited"}}
      /\ UNCHANGED <<files, bak, man, reg, theirs, orig, touched>>
  BY StartUninstallIs
<1>2. op'.doc \in Content("settings")
  BY <1>1, DocNow DEF Content
<1>3. \A f \in op'.whole : f \in DOMAIN man.files /\ BackupUsable(man.files[f], f)
  BY <1>1 DEF ByteOK
<1>4. \A f \in op'.whole : BackupUsable(man.files[f], f)'
  BY <1>1, <1>3 DEF BackupUsable
<1>5. Located(op'.doc, op'.drop)
  BY <1>1, UndoHook DEF Located
<1>6. UninstallRun'
  BY <1>1, <1>2, <1>3, <1>4, <1>5 DEF UninstallRun, UninstallPcs
<1> QED
  BY <1>1, <1>6, TypesKept DEF InstallTypes

LEMMA DeregisterIs ==
  ASSUME InstallTypes, Deregister
  PROVE  /\ op.pc = "deregister" /\ UninstallRun /\ op'.pc = "restore"
         /\ DOMAIN op' = DOMAIN op /\ op'.doc = op.doc /\ op'.whole = op.whole /\ op'.drop = op.drop
         /\ reg' = reg \ (Names(op.drop) \cap {"old", "new"})
         /\ files' = files \/ files' = Relaid(files)
         /\ UNCHANGED <<bak, man, theirs, orig, blind, touched, scar>>
<1>1. op.pc = "deregister" /\ UninstallRun
  BY OpKinds DEF Deregister, Doing, UninstallPcs
<1> QED
  BY <1>1, ThenIs DEF Deregister, Names

LEMMA TypesDeregister == ASSUME InstallTypes, Deregister PROVE InstallTypes'
<1>1. /\ UninstallRun /\ op'.pc = "restore"
      /\ DOMAIN op' = DOMAIN op /\ op'.doc = op.doc /\ op'.whole = op.whole /\ op'.drop = op.drop
      /\ UNCHANGED <<bak, man, theirs, orig, touched>> /\ reg' \subseteq reg
      /\ files' = files \/ files' = Relaid(files)
  BY DeregisterIs
<1>2. \A f \in op.whole : BackupUsable(man.files[f], f)'
  BY <1>1 DEF UninstallRun, BackupUsable
<1>3. UninstallRun'
  BY <1>1, <1>2 DEF UninstallRun, UninstallPcs
<1>4. IsFiles(files')
  BY <1>1, RelaidFiles DEF InstallTypes
<1> QED
  BY <1>1, <1>3, <1>4, TypesKept DEF InstallTypes

\* A run that stops where it stands.
LEMMA TypesStop ==
  ASSUME InstallTypes, DeregisterFails \/ RestoreFails \/ KillRun
  PROVE  InstallTypes'
<1>1. op' = NoRunNow /\ UNCHANGED <<files, bak, man, reg, theirs, orig, touched>>
  BY DEF DeregisterFails, RestoreFails, KillRun
<1> QED
  BY <1>1, TypesKept DEF InstallTypes

LEMMA RestoreFileIs ==
  ASSUME InstallTypes, NEW f \in Files, RestoreFile(f)
  PROVE  /\ op.pc = "restore" /\ UninstallRun /\ f \in op.whole /\ f \in DOMAIN man.files
         /\ \A g \in op.whole : Order(f) <= Order(g)
         /\ op'.pc = "restore" /\ DOMAIN op' = DOMAIN op /\ op'.drop = op.drop
         /\ op'.whole = op.whole \ {f}
         /\ op'.doc = IF f = "settings" THEN Missing ELSE op.doc
         /\ IsFiles(files') /\ files'[f] = man.files[f].before
         /\ \A g \in Files \ {f} : files'[g] = files[g]
         /\ UNCHANGED <<bak, man, reg, theirs, orig, blind, touched, scar>>
<1>1. op.pc = "restore" /\ UninstallRun /\ f \in op.whole /\ f \in DOMAIN man.files
  BY OpKinds DEF RestoreFile, Doing, UninstallPcs, UninstallRun
<1> DEFINE content == IF man.files[f].created THEN Missing ELSE bak[Base(f)]
           doc == IF f = "settings" THEN Missing ELSE op.doc
<1>2. /\ files' = [files EXCEPT ![f] = content]
      /\ op' = [op EXCEPT !.whole = op.whole \ {f}, !.doc = doc]
  BY DEF RestoreFile
<1>3. IsRec(man.files[f], f) /\ BackupUsable(man.files[f], f)
  BY <1>1 DEF InstallTypes, ManOK, UninstallRun
<1>4. content = man.files[f].before /\ content \in Content(f)
  BY <1>3 DEF IsRec, BackupUsable
<1> HIDE DEF content
<1>5. IsFiles(files) 
  BY DEF InstallTypes
<1>6. files'[f] = content /\ \A g \in Files \ {f} : files'[g] = files[g]
  BY <1>2, <1>5 DEF IsFiles
<1>7. IsFiles(files')
  BY <1>2, <1>4, <1>5, <1>6 DEF IsFiles
<1>8. /\ op'.pc = "restore" /\ DOMAIN op' = DOMAIN op /\ op'.drop = op.drop
      /\ op'.whole = op.whole \ {f} /\ op'.doc = doc
  BY <1>1, <1>2 DEF UninstallRun
<1> QED
  BY <1>1, <1>4, <1>6, <1>7, <1>8 DEF RestoreFile

LEMMA TypesRestoreFile ==
  ASSUME InstallTypes, NEW f \in Files, RestoreFile(f) PROVE InstallTypes'
<1>1. /\ UninstallRun /\ op'.pc = "restore" /\ DOMAIN op' = DOMAIN op /\ op'.drop = op.drop
      /\ op'.whole = op.whole \ {f}
      /\ op'.doc = IF f = "settings" THEN Missing ELSE op.doc
      /\ IsFiles(files') /\ UNCHANGED <<bak, man, reg, theirs, orig, touched>>
  BY RestoreFileIs
<1>2. \A g \in op'.whole : BackupUsable(man.files[g], g)'
  BY <1>1 DEF UninstallRun, BackupUsable
<1>3. op'.doc \in Content("settings") /\ (op'.doc # Missing => op'.doc = op.doc)
  BY <1>1 DEF UninstallRun, Content
<1>4. op'.whole \subseteq DOMAIN man.files
  BY <1>1 DEF UninstallRun
<1>5. UninstallRun'
  BY <1>1, <1>2, <1>3, <1>4 DEF UninstallRun, UninstallPcs
<1> QED
  BY <1>1, <1>5, TypesKept DEF InstallTypes

LEMMA RemoveEntriesIs ==
  ASSUME InstallTypes, RemoveEntries
  PROVE  LET writes == op.doc # Missing /\ \E s \in op.drop : s.at \in Events \cup {"line"}
         IN  /\ op.pc = "restore" /\ UninstallRun /\ op.whole = {}
             /\ op'.pc = "forget" /\ DOMAIN op' = DOMAIN op /\ op'.doc = op.doc
             /\ op'.whole = {} /\ op'.drop = op.drop
             /\ ~ writes => files' = files
             /\ writes => /\ op.doc \in Settings /\ Unwired(op.doc) \in Settings
                          /\ Located(op.doc, op.drop) /\ op.drop \subseteq Steps
                          /\ files'["settings"] = Unwired(op.doc) /\ Doc' = Unwired(op.doc)
                          /\ \A f \in Files \ {"settings"} : files'[f] = files[f]
             /\ IsFiles(files')
             /\ UNCHANGED <<bak, man, reg, theirs, orig, blind, touched, scar>>
<1> DEFINE writes == op.doc # Missing /\ \E s \in op.drop : s.at \in Events \cup {"line"}
<1>1. op.pc = "restore" /\ UninstallRun /\ op.whole = {} /\ Then("forget")
  BY OpKinds DEF RemoveEntries, Doing, UninstallPcs
<1>2. /\ op'.pc = "forget" /\ DOMAIN op' = DOMAIN op /\ op'.doc = op.doc
      /\ op'.whole = {} /\ op'.drop = op.drop
  BY <1>1, ThenIs
<1>3. IsFiles(files) /\ "settings" \in Files
  BY FileNames DEF InstallTypes
<1>4. /\ files' = IF writes THEN [files EXCEPT !["settings"] = Unwired(op.doc)] ELSE files
      /\ UNCHANGED <<bak, man, reg, theirs, orig, blind, touched, scar>>
  BY DEF RemoveEntries
<1>5. ASSUME writes
      PROVE  /\ op.doc \in Settings /\ Unwired(op.doc) \in Settings
             /\ Located(op.doc, op.drop) /\ op.drop \subseteq Steps
             /\ files'["settings"] = Unwired(op.doc) /\ Doc' = Unwired(op.doc)
             /\ \A f \in Files \ {"settings"} : files'[f] = files[f]
             /\ IsFiles(files')
  <2>1. op.doc \in Settings /\ Located(op.doc, op.drop) /\ op.drop \subseteq Steps
    BY <1>1, <1>5 DEF UninstallRun, Content, InstallTypes, ManOK
  <2> DEFINE u == Unwired(op.doc)
  <2>2. u \in Settings /\ u # Missing
    BY <2>1, UnwiredDoc, Apart
  <2>3. files' = [files EXCEPT !["settings"] = u]
    BY <1>4, <1>5
  <2> HIDE DEF u
  <2>4. files'["settings"] = u /\ \A f \in Files \ {"settings"} : files'[f] = files[f]
    BY <1>3, <2>3 DEF IsFiles
  <2>5. IsFiles(files')
    BY <1>3, <2>2, <2>3, <2>4 DEF IsFiles, Content
  <2>6. Doc' = u
    BY <2>2, <2>4 DEF Doc, AsDoc
  <2> QED
    BY <2>1, <2>2, <2>4, <2>5, <2>6 DEF u
<1>6. ~ writes => files' = files /\ IsFiles(files')
  BY <1>3, <1>4
<1> QED
  BY <1>1, <1>2, <1>4, <1>5, <1>6

LEMMA TypesRemoveEntries == ASSUME InstallTypes, RemoveEntries PROVE InstallTypes'
<1>1. /\ UninstallRun /\ op'.pc = "forget" /\ DOMAIN op' = DOMAIN op /\ op'.doc = op.doc
      /\ op'.whole = {} /\ op'.drop = op.drop /\ IsFiles(files')
      /\ UNCHANGED <<bak, man, reg, theirs, orig, touched>>
  BY RemoveEntriesIs
<1>2. UninstallRun'
  BY <1>1 DEF UninstallRun, UninstallPcs
<1> QED
  BY <1>1, <1>2, TypesKept DEF InstallTypes

LEMMA ForgetInstallIs ==
  ASSUME InstallTypes, ForgetInstall
  PROVE  /\ op.pc = "forget" /\ UninstallRun /\ op' = NoRunNow /\ op'.pc = "idle"
         /\ DOMAIN man' = {"steps", "files", "there"} /\ man'.there = FALSE
         /\ man'.steps = {} /\ DOMAIN man'.files = {}
         /\ DOMAIN bak' = DOMAIN bak /\ \A b \in DOMAIN bak : bak'[b] = Missing
         /\ UNCHANGED <<files, reg, theirs, orig, blind, touched, scar>>
<1>1. op.pc = "forget" /\ UninstallRun /\ NoRunNow.pc = "idle"
  BY OpKinds DEF ForgetInstall, Doing, UninstallPcs, NoRunNow
<1>2. DOMAIN <<>> = {}
  OBVIOUS
<1> QED
  BY <1>1, <1>2 DEF ForgetInstall, NoManifest

LEMMA TypesForgetInstall == ASSUME InstallTypes, ForgetInstall PROVE InstallTypes'
<1>1. ManOK'
  BY ForgetInstallIs DEF ManOK
<1>2. \A f \in Files : Base(f) \in DOMAIN bak /\ Missing \in Content(f)
  BY FileNames DEF InstallTypes, Content
<1>3. \A f \in Files : bak'[Base(f)] \in Content(f)
  BY <1>2, ForgetInstallIs
<1> QED
  BY <1>1, <1>3, ForgetInstallIs DEF InstallTypes

\* The operator's edits.
LEMMA DocEditIs ==
  ASSUME InstallTypes, NEW d, DocEdit(d)
  PROVE  /\ IsFiles(files') /\ files'["settings"] = d /\ Doc' = d
         /\ \A f \in Files \ {"settings"} : files'[f] = files[f]
<1>1. IsFiles(files) /\ d \in Settings /\ files' = [files EXCEPT !["settings"] = d]
  BY DEF InstallTypes, DocEdit
<1>2. files'["settings"] = d /\ \A f \in Files \ {"settings"} : files'[f] = files[f]
  BY <1>1, FileNames DEF IsFiles
<1>3. IsFiles(files')
  BY <1>1, <1>2 DEF IsFiles, Content
<1> QED
  BY <1>1, <1>2, <1>3, Apart DEF Doc, AsDoc

\* Whatever the run in progress is, its own record is not the operator's to edit.
LEMMA RunGoesOn ==
  ASSUME InstallTypes, UNCHANGED <<op, bak, man>>, files'["settings"] = Missing => files["settings"] = Missing
  PROVE  op' = NoRunNow \/ InstallRun' \/ UninstallRun'
<1>1. CASE InstallRun
  BY <1>1 DEF InstallRun
<1>2. CASE UninstallRun
  BY <1>2 DEF UninstallRun, BackupUsable
<1> QED
  BY <1>1, <1>2 DEF InstallTypes

LEMMA TypesDocEdit == ASSUME InstallTypes, NEW d, DocEdit(d) PROVE InstallTypes'
<1>1. UNCHANGED <<bak, man, reg, op, orig>> /\ theirs' \in TheirTypes /\ touched' = TRUE
      /\ files["settings"] # Missing
  BY DEF DocEdit
<1>2. d # Missing
  BY Apart DEF DocEdit
<1>3. op' = NoRunNow \/ InstallRun' \/ UninstallRun'
  BY <1>1, <1>2, DocEditIs, RunGoesOn
<1> QED
  BY <1>1, <1>3, DocEditIs, TypesKept DEF InstallTypes

LEMMA DeregistersIs ==
  ASSUME InstallTypes, NEW name \in {"old", "new"}, Deregisters(name)
  PROVE  /\ files' = Relaid(files) /\ IsFiles(files') /\ name \in reg /\ reg' = reg \ {name}
         /\ theirs' \in TheirTypes /\ theirs'.hooks = theirs.hooks /\ theirs'.line = theirs.line
         /\ theirs'.own = theirs.own /\ theirs'.reg = theirs.reg \ {name}
         /\ touched' = TRUE /\ UNCHANGED <<bak, man, op, orig, blind, scar>>
<1>1. files' = Relaid(files) /\ IsFiles(files')
  BY RelaidFiles DEF InstallTypes, Deregisters
<1>2. theirs \in TheirTypes /\ theirs' = [theirs EXCEPT !.reg = theirs.reg \ {name}]
  BY DEF InstallTypes, Deregisters
<1>3. /\ theirs' \in TheirTypes /\ theirs'.hooks = theirs.hooks /\ theirs'.line = theirs.line
      /\ theirs'.own = theirs.own /\ theirs'.reg = theirs.reg \ {name}
  BY <1>2 DEF TheirTypes
<1> QED
  BY <1>1, <1>3 DEF Deregisters

LEMMA TypesDeregisters ==
  ASSUME InstallTypes, NEW name \in {"old", "new"}, Deregisters(name) PROVE InstallTypes'
<1>1. files'["settings"] = Missing <=> files["settings"] = Missing
  BY DeregistersIs, RelaidFiles DEF InstallTypes
<1>2. op' = NoRunNow \/ InstallRun' \/ UninstallRun'
  BY <1>1, DeregistersIs, RunGoesOn
<1> QED
  BY <1>2, DeregistersIs, TypesKept DEF InstallTypes

LEMMA TypesOperator == ASSUME InstallTypes, Operator PROVE InstallTypes'
BY OperatorIs, TypesDocEdit, TypesDeregisters

LEMMA TypesStep == ASSUME InstallTypes, [InstallNext]_installVars PROVE InstallTypes'
<1>1. CASE UNCHANGED installVars
  <2>1. UNCHANGED <<files, bak, man, reg, op, theirs, orig, touched>>
    BY <1>1 DEF installVars
  <2>2. op' = NoRunNow \/ InstallRun' \/ UninstallRun'
    BY <2>1, RunGoesOn
  <2> QED
    BY <2>1, <2>2, TypesKept DEF InstallTypes
<1>2. CASE InstallStep
  BY <1>2, TypesStartInstall, TypesWriteTee, TypesWriteDelegate, TypesWriteSettings, TypesUnroll,
     TypesRegister, TypesSaveManifest, TypesRollBack DEF InstallStep
<1>3. CASE UninstallStep
  BY <1>3, TypesStartUninstall, TypesDeregister, TypesStop, TypesRestoreFile,
     TypesRemoveEntries, TypesForgetInstall DEF UninstallStep
<1>4. CASE KillRun
  BY <1>4, TypesStop
<1>5. CASE Operator
  BY <1>5, TypesOperator
<1> QED
  BY <1>1, <1>2, <1>3, <1>4, <1>5 DEF InstallNext

-----------------------------------------------------------------------------
(* What each step of a run leaves.                                         *)

\* One file of an install is written.
Wrote(f, content) ==
  /\ InstallRun /\ f \in Files /\ IsFiles(files') /\ files'[f] = content
  /\ \A g \in Files \ {f} : files'[g] = files[g]
  /\ DOMAIN bak' = {"settings", "delegate", "tee"}
  /\ \A g \in Files : Base(g) # Base(f) => bak'[Base(g)] = bak[Base(g)]
  /\ files[f] # Missing /\ ~ FirstCopyKept(f) => bak'[Base(f)] = files[f]
  /\ files[f] = Missing => bak' = bak
  /\ op'.pc \in InstallPcs /\ op'.bin = op.bin /\ op'.wire = op.wire /\ op'.loaded = op.loaded
  /\ op'.doc = op.doc /\ op'.cli = op.cli
  /\ DOMAIN op'.before = DOMAIN op.before \cup {f} /\ op'.before[f] = files[f]
  /\ \A g \in DOMAIN op.before \ {f} : op'.before[g] = op.before[g]
  /\ UNCHANGED <<man, reg, theirs, orig, blind, touched, scar>>

LEMMA WroteTee ==
  ASSUME InstallTypes, WriteTee
  PROVE  /\ Wrote(op.bin, Script) /\ op.pc = "tee" /\ op'.pc = "delegate" /\ op.bin \in Bins
         /\ "line" \in op.wire /\ DOMAIN op.before = {}
<1>1. op.pc = "tee" /\ InstallRun /\ op.bin \in Files /\ Script \in Content(op.bin)
      /\ op.bin \in Bins /\ "line" \in op.wire /\ DOMAIN op.before = {}
  BY OpKinds, FileNames DEF WriteTee, Doing, InstallPcs, InstallRun, Content
<1>2. Put(op.bin, Script, "delegate") /\ UNCHANGED <<man, reg, theirs, orig, blind, touched, scar>>
  BY DEF WriteTee
<1> QED
  BY <1>1, <1>2, PutIs DEF Wrote, InstallPcs

LEMMA WroteDelegate ==
  ASSUME InstallTypes, WriteDelegate
  PROVE  /\ Wrote("delegate", op.doc.line) /\ op.pc = "delegate" /\ op'.pc = "settings"
         /\ "line" \in op.wire /\ "delegate" \notin DOMAIN op.before
<1>1. op.pc = "delegate" /\ InstallRun /\ "delegate" \in Files /\ "line" \in op.wire
      /\ "delegate" \notin DOMAIN op.before
  BY OpKinds, FileNames DEF WriteDelegate, Doing, InstallPcs, InstallRun
<1>2. op.doc.line \in Content("delegate")
  BY <1>1, DocTyped DEF InstallRun, Content, Settings
<1>3. /\ Put("delegate", op.doc.line, "settings")
      /\ UNCHANGED <<man, reg, theirs, orig, blind, touched, scar>>
  BY DEF WriteDelegate
<1> QED
  BY <1>1, <1>2, <1>3, PutIs DEF Wrote, InstallPcs

LEMMA WroteSettings ==
  ASSUME InstallTypes, WriteSettings
  PROVE  /\ Wrote("settings", Wired(op.doc)) /\ op.pc = "settings"
         /\ op'.pc \in {"cli", "manifest"} /\ Doc' = Wired(op.doc) /\ op.doc = Doc
         /\ op.doc \in Settings /\ "settings" \notin DOMAIN op.before
         /\ files["settings"] = op.loaded /\ op.bin \in Bins
<1>1. /\ Wired(op.doc) \in Content("settings") /\ Wired(op.doc) # Missing
      /\ Put("settings", Wired(op.doc), IF "new" \in op.wire THEN "cli" ELSE "manifest")
  BY WriteSettingsIs DEF Content
<1>2. UNCHANGED <<man, reg, theirs, orig, blind, touched, scar>>
  BY DEF WriteSettings
<1> DEFINE next == IF "new" \in op.wire THEN "cli" ELSE "manifest"
<1>3. next \in {"cli", "manifest"}
  OBVIOUS
<1>4. Put("settings", Wired(op.doc), next)
  BY <1>1
<1> HIDE DEF next
<1>5. Wrote("settings", Wired(op.doc)) /\ op'.pc = next
  BY <1>1, <1>2, <1>3, <1>4, WriteSettingsIs, PutIs DEF Wrote, InstallPcs
<1>6. Doc' = Wired(op.doc)
  BY <1>1, <1>5 DEF Wrote, Doc, AsDoc
<1> QED
  BY <1>3, <1>5, <1>6, WriteSettingsIs DEF InstallRun

LEMMA UnrollIs ==
  ASSUME InstallTypes, SettingsMoved \/ InstallFails
  PROVE  /\ InstallRun /\ op'.pc = "unroll" /\ DOMAIN op' = DOMAIN op
         /\ op'.bin = op.bin /\ op'.wire = op.wire /\ op'.loaded = op.loaded /\ op'.doc = op.doc
         /\ op'.before = op.before /\ op'.cli = op.cli
         /\ UNCHANGED <<files, bak, man, reg, theirs, orig, blind, touched, scar>>
<1>1. /\ InstallRun /\ Then("unroll")
      /\ UNCHANGED <<files, bak, man, reg, theirs, orig, blind, touched, scar>>
  BY OpKinds DEF SettingsMoved, InstallFails, Doing, InstallPcs
<1> QED
  BY <1>1, ThenIs

LEMMA RegisterLeaves ==
  ASSUME InstallTypes, Register
  PROVE  /\ Same(Doc', Doc) /\ \A f \in Files \ {"settings"} : files'[f] = files[f]
         /\ "new" \in op.wire /\ UNCHANGED <<bak, man, theirs, orig, blind, touched, scar>>
<1>1. files' = Relaid(files) /\ IsFiles(files) /\ op.pc = "cli" /\ InstallRun
  BY RegisterIs DEF InstallTypes
<1>2. Doc' = AsDoc(files'["settings"])
  BY DEF Doc
<1>3. Same(Doc', Doc) /\ \A f \in Files \ {"settings"} : files'[f] = files[f]
  BY <1>1, <1>2, RelaidFiles DEF Doc
<1>4. "new" \in op.wire
  BY <1>1 DEF InstallRun
<1> QED
  BY <1>3, <1>4 DEF Register

LEMMA RollBackIs ==
  ASSUME InstallTypes, RollBack
  PROVE  /\ op.pc = "unroll" /\ InstallRun /\ op' = NoRunNow /\ op'.pc = "idle"
         /\ reg' = IF op.cli THEN reg \ {"new"} ELSE reg
         /\ \A f \in DOMAIN op.before : files'[f] = op.before[f]
         /\ \A f \in Files \ DOMAIN op.before : f # "settings" => files'[f] = files[f]
         /\ "settings" \in DOMAIN op.before => Doc' = op.doc
         /\ "settings" \notin DOMAIN op.before => Same(Doc', Doc)
         /\ ~ op.cli => \A f \in Files \ DOMAIN op.before : files'[f] = files[f]
         /\ UNCHANGED <<bak, man, theirs, orig, blind, touched, scar>>
<1>1. op.pc = "unroll" /\ InstallRun /\ op' = NoRunNow /\ NoRunNow.pc = "idle"
  BY OpKinds DEF RollBack, Doing, InstallPcs, NoRunNow
<1>2. files' = PutBack(DOMAIN op.before)
  BY DEF RollBack
<1>3. /\ \A f \in DOMAIN op.before : files'[f] = op.before[f]
      /\ \A f \in Files \ DOMAIN op.before : f # "settings" => files'[f] = files[f]
      /\ "settings" \notin DOMAIN op.before => Same(Doc', Doc)
      /\ ~ op.cli => \A f \in Files \ DOMAIN op.before : files'[f] = files[f]
  BY <1>1, <1>2, PutBackIs
<1>4. "settings" \in DOMAIN op.before => Doc' = op.doc
  BY <1>1, <1>3 DEF InstallRun, Doc
<1> QED
  BY <1>1, <1>3, <1>4 DEF RollBack

\* A registry command of the uninstall re-lays settings.json out, no more.
LEMMA DeregisterLeaves ==
  ASSUME InstallTypes, Deregister
  PROVE  Same(Doc', Doc) /\ \A f \in Files \ {"settings"} : files'[f] = files[f]
<1>1. IsFiles(files) /\ (files' = files \/ files' = Relaid(files))
  BY DeregisterIs DEF InstallTypes
<1>2. Doc' = AsDoc(files'["settings"])
  BY DEF Doc
<1> QED
  BY <1>1, <1>2, RelaidFiles DEF Doc, Same

LEMMA DeregistersLeaves ==
  ASSUME InstallTypes, NEW name \in {"old", "new"}, Deregisters(name)
  PROVE  Same(Doc', Doc) /\ \A f \in Files \ {"settings"} : files'[f] = files[f]
<1>1. IsFiles(files) /\ files' = Relaid(files)
  BY DeregistersIs DEF InstallTypes
<1>2. Doc' = AsDoc(files'["settings"])
  BY DEF Doc
<1> QED
  BY <1>1, <1>2, RelaidFiles DEF Doc

LEMMA RestoreLeaves ==
  ASSUME InstallTypes, NEW f \in Files, RestoreFile(f)
  PROVE  /\ f # "settings" => Doc' = Doc
         /\ f = "settings" => Doc' = AsDoc(man.files["settings"].before)
BY RestoreFileIs, FileNames DEF Doc

\* The steps a new manifest adds: one for each that was wired.
LEMMA NewStepsAre ==
  /\ \A s \in NewSteps : s.at \in op.wire /\ s.bin = op.bin
  /\ \A s \in NewSteps : s.at = "line" => s.prior = op.doc.line
  /\ \A w \in op.wire \cap (Events \cup {"line", "new"}) : \E s \in NewSteps : s.at = w /\ s.bin = op.bin
  /\ \A s, t \in NewSteps : s.at = t.at => s = t
<1> DEFINE hook(e) == [at |-> e, bin |-> op.bin, prior |-> NoLine, created |-> ~ Has(op.doc, e)]
           other(s) == [at |-> s, bin |-> op.bin, prior |-> op.doc.line, created |-> FALSE]
<1>1. NewSteps = {hook(e) : e \in op.wire \cap Events} \cup {other(s) : s \in op.wire \cap {"line", "new"}}
  BY DEF NewSteps
<1>2. \A e : hook(e).at = e /\ hook(e).bin = op.bin
  OBVIOUS
<1>3. \A s : other(s).at = s /\ other(s).bin = op.bin /\ other(s).prior = op.doc.line
  OBVIOUS
<1> HIDE DEF hook, other
<1>4. Events \cap {"line", "new"} = {}
  BY InstallAssumption
<1> QED
  BY <1>1, <1>2, <1>3, <1>4

LEMMA NewStepsSame ==
  ASSUME op'.wire = op.wire, op'.bin = op.bin, op'.doc = op.doc
  PROVE  NewSteps' = NewSteps
BY DEF NewSteps

\* No entry of ours, and so none to record.
LEMMA NoneOfOurs ==
  ASSUME NEW d, RecordedIn(d, {})
  PROVE  /\ \A steps : RecordedIn(d, steps)
         /\ Lone(d) /\ \A e \in Events : OursIn(Entries(d, e)) = {}
         /\ d.line.by # "us"
BY DEF RecordedIn, Lone

\* What an install wires, and why it leaves the rest.
LEMMA FoundCard ==
  ASSUME NEW d \in Settings, NEW e \in Events, NEW bin
  PROVE  Cardinality(Found(d, e, bin)) \in Nat /\ (Cardinality(Found(d, e, bin)) = 0 <=> Found(d, e, bin) = {})
<1>1. Entries(d, e) \in Seq(Entry)
  BY EntriesTyped
<1>2. Found(d, e, bin) \subseteq 1..Len(Entries(d, e)) /\ Len(Entries(d, e)) \in Nat
  BY <1>1 DEF Found
<1>3. IsFiniteSet(1..Len(Entries(d, e)))
  BY <1>2, FS_Interval
<1>4. IsFiniteSet(Found(d, e, bin))
  BY <1>2, <1>3, FS_Subset
<1> QED
  BY <1>4, FS_CardinalityType, FS_EmptySet

LEMMA StatusHook ==
  ASSUME NEW d \in Settings, NEW e \in Events, NEW bin
  PROVE  /\ HookStatus(d, e, bin) = "wire" =>
              Recorded(e) = {} /\ Found(d, e, bin) = {} /\ ~ Undetermined(d, e, bin)
         /\ HookStatus(d, e, bin) \in {"wire", "managed", "conflict", "drift"}
         /\ HookStatus(d, e, bin) = "managed" => Recorded(e) # {}
<1> DEFINE found == Found(d, e, bin)
           unclear == Undetermined(d, e, bin)
<1>1. Cardinality(found) \in Nat /\ (Cardinality(found) = 0 <=> found = {})
  BY FoundCard
<1>2. HookStatus(d, e, bin) =
        CASE Cardinality(found) > 1 -> "conflict"
          [] Cardinality(found) = 1 -> IF Recorded(e) = {} THEN "conflict" ELSE "managed"
          [] found = {} -> IF unclear \/ Recorded(e) # {} THEN "drift" ELSE "wire"
  BY DEF HookStatus
<1> HIDE DEF found, unclear
<1>3. /\ HookStatus(d, e, bin) = "wire" => Recorded(e) = {} /\ found = {} /\ ~ unclear
      /\ HookStatus(d, e, bin) \in {"wire", "managed", "conflict", "drift"}
      /\ HookStatus(d, e, bin) = "managed" => Recorded(e) # {}
  BY <1>1, <1>2
<1> QED
  BY <1>3 DEF found, unclear

LEMMA StatusLine ==
  ASSUME NEW d, NEW bin
  PROVE  /\ LineStatus(d, bin) = "wire" =>
              /\ Recorded("line") = {} /\ ~ InLine(d, bin)
              /\ d.line # NoLine /\ d.line.as # "unreadable"
         /\ LineStatus(d, bin) \in {"wire", "managed", "skip", "conflict", "drift"}
         /\ LineStatus(d, bin) = "managed" => Recorded("line") # {}
         /\ LineStatus(d, bin) = "skip" => Skips(d.line)
BY DEF LineStatus, Skips

LEMMA StatusCli ==
  ASSUME NEW cli \in BOOLEAN
  PROVE  /\ CliStatus(cli) = "wire" => Recorded("new") = {} /\ "new" \notin reg
         /\ CliStatus(cli) \in {"wire", "managed", "conflict", "drift", "undelegated"}
         /\ CliStatus(cli) = "managed" => Recorded("new") # {}
BY DEF CliStatus

LEMMA StartWires ==
  ASSUME InstallTypes, NEW bin \in Bins, NEW cli \in BOOLEAN, StartInstall(bin, cli)
  PROVE  /\ \A w \in op'.wire : Recorded(w) = {}
         /\ "new" \in op'.wire => "new" \notin reg
         /\ "line" \in op'.wire => Doc.line # NoLine /\ Doc.line.as # "unreadable"
         /\ \A w \in (Events \cup {"new"}) \ op'.wire : Recorded(w) # {}
         /\ "line" \in op'.wire \/ Recorded("line") # {} \/ Skips(Doc.line)
         /\ blind' = "none" =>
              /\ blind = "none" /\ ~ ("line" \in op'.wire /\ Doc.line.by = "us")
              /\ man.there /\ touched => op'.wire = {"new"}
<1> DEFINE status == InstallStatus(Doc, bin, cli)
<1>1. /\ op'.wire \subseteq Events \cup {"line", "new"}
      /\ \A s \in Events \cup {"line", "new"} : s \in op'.wire <=> status[s] = "wire"
      /\ ~ RefusesInstall(status)
      /\ blind' = "none" =>
           /\ blind = "none" /\ ~ ("line" \in op'.wire /\ Doc.line.by = "us")
           /\ man.there /\ touched => op'.wire = {"new"}
  <2> DEFINE wire == {s \in DOMAIN status : status[s] = "wire"}
             pc == CASE "line" \in wire -> "tee" [] wire = {"new"} -> "cli" [] OTHER -> "settings"
  <2>1. DOMAIN status = Events \cup {"line", "new"}
    BY DEF InstallStatus
  <2>2. /\ op' = [pc |-> pc, bin |-> bin, wire |-> wire, loaded |-> files["settings"],
                  doc |-> Doc, before |-> <<>>, cli |-> FALSE]
        /\ ~ RefusesInstall(status)
        /\ blind' = IF blind # "none" THEN blind
                    ELSE IF "line" \in wire /\ Doc.line.by = "us" THEN "wrapped"
                    ELSE IF man.there /\ touched /\ wire # {"new"} THEN "rewired" ELSE "none"
    BY DEF StartInstall
  <2> HIDE DEF status, pc
  <2>3. op'.wire = wire
    BY <2>2
  <2> QED
    BY <2>1, <2>2, <2>3
<1>2. Doc \in Settings
  BY DocNow
<1>3. /\ DOMAIN status = Events \cup {"line", "new"}
      /\ \A e \in Events : status[e] = HookStatus(Doc, e, bin)
      /\ status["line"] = LineStatus(Doc, bin) /\ status["new"] = CliStatus(cli)
  BY InstallAssumption DEF InstallStatus
<1> HIDE DEF status
<1>4. \A s \in Events \cup {"line", "new"} : status[s] \notin {"conflict", "drift", "undelegated"}
  BY <1>1, <1>3 DEF RefusesInstall
<1>5. ASSUME NEW e \in Events
      PROVE  /\ e \in op'.wire => Recorded(e) = {}
             /\ e \notin op'.wire => Recorded(e) # {}
  BY <1>1, <1>2, <1>3, <1>4, StatusHook
<1>6. /\ "line" \in op'.wire => /\ Recorded("line") = {} /\ Doc.line # NoLine
                                /\ Doc.line.as # "unreadable"
      /\ "line" \notin op'.wire => Recorded("line") # {} \/ Skips(Doc.line)
  BY <1>1, <1>3, <1>4, StatusLine
<1>7. /\ "new" \in op'.wire => Recorded("new") = {} /\ "new" \notin reg
      /\ "new" \notin op'.wire => Recorded("new") # {}
  BY <1>1, <1>3, <1>4, StatusCli
<1> QED
  BY <1>1, <1>5, <1>6, <1>7

-----------------------------------------------------------------------------
(* Where a host starts, and whose the registrations are.                   *)

\* Nothing of ours is in a document that is the operator's alone.
LEMMA InitIs ==
  ASSUME InstallInit
  PROVE  /\ InstallTypes /\ op.pc = "idle" /\ blind = "none" /\ scar = {} /\ orig = files
         /\ \A f \in Files \ {"settings"} : files[f] = Missing
         /\ DOMAIN man.files = {} /\ touched = man.there
         /\ \A s \in man.steps : s.at \in {"old", "new"}
         /\ RecordedIn(Doc, {}) /\ OpLine = Doc.line
         /\ \A e \in Events : theirs.hooks[e] = Entries(Doc, e)
         /\ theirs.line = Doc.line /\ theirs.own = Doc.own /\ theirs.reg = reg \ Names(man.steps)
<1>1. PICK c \in InstallStarts :
        /\ files = [f \in Files |-> IF f = "settings" THEN c.settings ELSE Missing]
        /\ man = c.man /\ reg = c.reg /\ touched = c.man.there
  BY DEF InstallInit
<1>2. /\ c.settings = Missing \/ TheirsAlone(c.settings)
      /\ \/ c.man = NoManifest
         \/ /\ c.man = [NoManifest EXCEPT !.steps = c.man.steps, !.there = TRUE]
            /\ c.man.steps \subseteq {s \in Steps : s.at \in {"old", "new"}}
      /\ c.reg \subseteq {"old", "new"}
  BY InstallAssumption
<1>3. /\ files["settings"] = c.settings /\ \A f \in Files \ {"settings"} : files[f] = Missing
      /\ c.settings \in Content("settings")
  BY <1>1, <1>2, FileNames DEF Content, TheirsAlone
<1>4. IsFiles(files)
  <2>1. \A f \in Files : files[f] \in Content(f)
    BY <1>3 DEF Content
  <2> QED
    BY <2>1, <1>1 DEF IsFiles
<1>5. Doc \in Settings /\ Doc = AsDoc(c.settings)
  BY <1>3, DocTyped DEF Doc
<1>6. RecordedIn(Doc, {})
  <2>1. CASE c.settings = Missing
    <3>1. Doc.line.by # "us" /\ \A e \in Events : Entries(Doc, e) = <<>>
      BY <1>3, <1>5, <2>1, DocTyped, Apart
    <3> QED
      BY <3>1 DEF RecordedIn, OursIn
  <2>2. CASE c.settings # Missing
    <3>1. Doc = c.settings /\ TheirsAlone(Doc)
      BY <1>2, <1>5, <2>2 DEF AsDoc
    <3>2. \A e \in Events : OursIn(Entries(Doc, e)) = {}
      BY <3>1 DEF TheirsAlone, OursIn, Entries
    <3> QED
      BY <3>1, <3>2 DEF RecordedIn, TheirsAlone
  <2> QED
    BY <2>1, <2>2
<1>7. OpLine = Doc.line /\ Doc.line \in Line
  BY <1>5, <1>6, NoneOfOurs DEF OpLine, Settings
<1> DEFINE hooks == [e \in Events |-> Entries(Doc, e)]
           names == {s.at : s \in man.steps}
<1>8. theirs = [hooks |-> hooks, line |-> OpLine, own |-> Doc.own, reg |-> reg \ names]
  BY DEF InstallInit
<1>9. hooks \in [Events -> Seq(Entry)] /\ \A e \in Events : hooks[e] = Entries(Doc, e)
  BY <1>5, EntriesTyped
<1>10. Doc.own \in Int /\ reg \ names \subseteq {"old", "new"} /\ reg \subseteq {"old", "new"}
  BY <1>1, <1>2, <1>5 DEF Settings
<1>11. names = Names(man.steps)
  BY DEF Names
<1> HIDE DEF hooks, names
<1>12. theirs \in TheirTypes /\ theirs.hooks = hooks /\ theirs.line = Doc.line
       /\ theirs.own = Doc.own /\ theirs.reg = reg \ names
  BY <1>7, <1>8, <1>9, <1>10 DEF TheirTypes
<1>13. ManOK /\ DOMAIN man.files = {} /\ \A s \in man.steps : s.at \in {"old", "new"}
  <2>1. DOMAIN <<>> = {}
    OBVIOUS
  <2>2. /\ DOMAIN man = {"steps", "files", "there"} /\ man.files = <<>> /\ man.there \in BOOLEAN
        /\ man.steps \subseteq {s \in Steps : s.at \in {"old", "new"}}
        /\ ~ man.there => man.steps = {}
    <3>1. CASE c.man = NoManifest
      BY <1>1, <3>1 DEF NoManifest
    <3>2. CASE c.man # NoManifest
      <4>1. /\ man = [NoManifest EXCEPT !.steps = man.steps, !.there = TRUE]
            /\ man.steps \subseteq {s \in Steps : s.at \in {"old", "new"}}
        BY <1>1, <1>2, <3>2
      <4> QED
        BY <4>1 DEF NoManifest
    <3> QED
      BY <3>1, <3>2
  <2> QED
    BY <2>1, <2>2 DEF ManOK
<1>14. /\ op = NoRunNow /\ op.pc = "idle" /\ blind = "none" /\ scar = {} /\ orig = files
       /\ bak = [b \in {"settings", "delegate", "tee"} |-> Missing]
  BY DEF InstallInit, NoRunNow
<1>15. DOMAIN bak = {"settings", "delegate", "tee"} /\ \A f \in Files : bak[Base(f)] \in Content(f)
  BY <1>14, FileNames DEF Content
<1>16. touched = man.there
  BY <1>1
<1>17. InstallTypes
  BY <1>4, <1>10, <1>12, <1>13, <1>14, <1>15, <1>16 DEF InstallTypes, ManOK
<1> QED
  BY <1>3, <1>6, <1>7, <1>9, <1>11, <1>12, <1>13, <1>14, <1>16, <1>17

LEMMA RegInit == ASSUME InstallInit PROVE RegInv
<1>1. op.pc = "idle" /\ theirs.reg = reg \ Names(man.steps) /\ theirs.line.by # "us"
  BY InitIs, NoneOfOurs
<1> QED
  BY <1>1 DEF RegInv, InstallPcs

\* Nothing is registered or recorded, and nothing more is to be.
LEMMA RegSame ==
  ASSUME RegInv, UNCHANGED man, theirs'.reg = theirs.reg, theirs.reg \subseteq reg',
         theirs'.line.by # "us",
         op'.pc \in InstallPcs => op.pc \in InstallPcs /\ op'.wire = op.wire
  PROVE  RegInv'
BY DEF RegInv

LEMMA RegInstall == ASSUME InstallTypes, RegInv, InstallStep PROVE RegInv'
<1>1. ASSUME NEW bin \in Bins, NEW cli \in BOOLEAN, StartInstall(bin, cli) PROVE RegInv'
  <2>1. "new" \in op'.wire => "new" \notin reg
    BY <1>1, StartWires
  <2> QED
    BY <1>1, <2>1 DEF RegInv, StartInstall
<1>2. CASE WriteTee
  BY <1>2, WroteTee, RegSame DEF Wrote, RegInv, InstallRun
<1>3. CASE WriteDelegate
  BY <1>3, WroteDelegate, RegSame DEF Wrote, RegInv, InstallRun
<1>4. CASE WriteSettings
  BY <1>4, WroteSettings, RegSame DEF Wrote, RegInv, InstallRun
<1>5. CASE SettingsMoved \/ InstallFails
  BY <1>5, UnrollIs, RegSame DEF RegInv, InstallRun
<1>6. CASE Register
  BY <1>6, RegisterIs, RegisterLeaves, RegSame DEF RegInv, InstallRun
<1>7. CASE SaveManifest
  <2>1. /\ op.pc = "manifest" /\ op'.pc = "idle" /\ man'.steps = NewSteps \cup man.steps
        /\ UNCHANGED <<reg, theirs>>
    BY <1>7, SaveManifestIs DEF SaveManifest
  <2>2. op.wire \subseteq Events \cup {"line", "new"} /\ theirs.reg \subseteq {"old", "new"}
    BY <1>7, SaveManifestIs DEF InstallRun, InstallTypes, TheirTypes
  <2>5. \A w \in op.wire : w \notin theirs.reg
    BY <2>1, <2>2, InstallAssumption DEF RegInv, InstallPcs
  <2>3. \A s \in NewSteps : s.at \notin theirs.reg
    BY <2>5, NewStepsAre
  <2>4. theirs.reg \cap Names(man'.steps) = {}
    BY <2>1, <2>3 DEF RegInv, Names
  <2> QED
    BY <2>1, <2>4 DEF RegInv, InstallPcs
<1>8. CASE RollBack
  <2>1. op.cli => "new" \notin theirs.reg
    BY <1>8, RollBackIs DEF RegInv, InstallRun
  <2> QED
    BY <1>8, <2>1, RollBackIs, RegSame DEF RegInv, InstallPcs
<1>9. CASE RollBackStrands
  <2>1. InstallRun /\ op'.pc = "idle" /\ UNCHANGED <<man, theirs>>
    BY <1>9, OpKinds DEF RollBackStrands, Doing, InstallPcs, NoRunNow
  <2>2. op.cli => "new" \notin theirs.reg
    BY <2>1 DEF RegInv, InstallRun
  <2>3. reg' = reg \/ (op.cli /\ reg' = reg \ {"new"})
    BY <1>9 DEF RollBackStrands
  <2> QED
    BY <2>1, <2>2, <2>3, RegSame DEF RegInv, InstallPcs
<1> QED
  BY <1>1, <1>2, <1>3, <1>4, <1>5, <1>6, <1>7, <1>8, <1>9 DEF InstallStep

LEMMA RegUninstall == ASSUME InstallTypes, RegInv, UninstallStep PROVE RegInv'
<1>1. CASE StartUninstall
  BY <1>1, StartUninstallIs, RegSame DEF RegInv, InstallPcs
<1>2. CASE Deregister
  <2>1. op.drop \subseteq man.steps /\ op'.pc = "restore" /\ UNCHANGED <<man, theirs>>
        /\ reg' = reg \ (Names(op.drop) \cap {"old", "new"})
    BY <1>2, DeregisterIs DEF UninstallRun
  <2>2. Names(op.drop) \subseteq Names(man.steps)
    BY <2>1 DEF Names
  <2>3. theirs.reg \subseteq reg'
    BY <2>1, <2>2 DEF RegInv
  <2> QED
    BY <2>1, <2>3, RegSame DEF InstallPcs, RegInv
<1>3. CASE DeregisterFails \/ RestoreFails
  <2>1. op'.pc = "idle" /\ UNCHANGED <<man, reg, theirs>>
    BY <1>3 DEF DeregisterFails, RestoreFails, NoRunNow
  <2> QED
    BY <2>1, RegSame DEF RegInv, InstallPcs
<1>4. ASSUME NEW f \in Files, RestoreFile(f) PROVE RegInv'
  BY <1>4, RestoreFileIs, RegSame DEF RegInv, InstallPcs
<1>5. CASE RemoveEntries
  BY <1>5, RemoveEntriesIs, RegSame DEF RegInv, InstallPcs
<1>6. CASE ForgetInstall
  BY <1>6, ForgetInstallIs DEF RegInv, InstallPcs, Names
<1> QED
  BY <1>1, <1>2, <1>3, <1>4, <1>5, <1>6 DEF UninstallStep

LEMMA RegStep == ASSUME InstallTypes, RegInv, [InstallNext]_installVars PROVE RegInv'
<1>1. CASE UNCHANGED installVars
  BY <1>1 DEF installVars, RegInv
<1>2. CASE KillRun
  <2>1. op'.pc = "idle" /\ UNCHANGED <<man, reg, theirs>>
    BY <1>2 DEF KillRun, NoRunNow
  <2> QED
    BY <2>1, RegSame DEF RegInv, InstallPcs
<1>3. ASSUME NEW d, DocEdit(d) PROVE RegInv'
  BY <1>3, RegSame DEF DocEdit, RegInv
<1>4. ASSUME NEW name \in {"old", "new"}, Deregisters(name) PROVE RegInv'
  BY <1>4, DeregistersIs DEF RegInv
<1>5. CASE Operator
  BY <1>3, <1>4, <1>5, OperatorIs
<1> QED
  BY <1>1, <1>2, <1>5, RegInstall, RegUninstall DEF InstallNext

-----------------------------------------------------------------------------
(* What is ours is recorded.                                               *)

LEMMA OwnInit == ASSUME InstallInit PROVE OwnInv
<1>1. /\ op.pc = "idle" /\ \A s \in man.steps : s.at \in {"old", "new"}
      /\ DOMAIN man.files = {} /\ RecordedIn(Doc, {}) /\ theirs.reg = reg \ Names(man.steps)
      /\ \A f \in Files \ {"settings"} : files[f] = Missing
  BY InitIs
<1>2. ManOwn
  BY <1>1, InstallAssumption DEF ManOwn, Hooked, Recorded
<1>3. OwnIdle
  BY <1>1, NoneOfOurs, FileNames DEF OwnIdle
<1> QED
  BY <1>1, <1>2, <1>3 DEF OwnInv, InstallPcs, UninstallPcs

\* Only edits, which add nothing of ours.
LEMMA OwnEdited ==
  ASSUME OwnInv, UNCHANGED <<op, man, scar>>, \A b \in Bins : files'[b] = files[b],
         \A steps : RecordedIn(Doc, steps) => RecordedIn(Doc', steps), Lone(Doc) => Lone(Doc'),
         reg' \ theirs'.reg \subseteq reg \ theirs.reg
  PROVE  OwnInv'
<1> SUFFICES ASSUME scar = {} PROVE OwnInv'
  BY DEF OwnInv
<1>1. ManOwn'
  BY DEF OwnInv, ManOwn, Recorded
<1>2. op.pc = "idle" => OwnIdle'
  BY DEF OwnInv, OwnIdle, Names
<1>3. NewSteps' = NewSteps
  BY NewStepsSame
<1>4. op.pc \in InstallPcs => OwnInstall'
  BY <1>3 DEF OwnInv, OwnInstall, Names, Recorded
<1>5. op.pc \in UninstallPcs => OwnUninstall'
  BY DEF OwnInv, OwnUninstall, Names
<1> QED
  BY <1>1, <1>2, <1>4, <1>5 DEF OwnInv

LEMMA OwnOperator == ASSUME InstallTypes, OwnInv, Operator PROVE OwnInv'
<1>1. ASSUME NEW d, DocEdit(d) PROVE OwnInv'
  <2>1. Doc' = d /\ \A b \in Bins : files'[b] = files[b]
    BY <1>1, DocEditIs, FileNames
  <2>2. /\ \A e \in Events : Fewer(Entries(d, e), Entries(Doc, e))
        /\ d.line.by = "us" => d.line = Doc.line
    BY <1>1 DEF DocEdit
  <2>3. (\A steps : RecordedIn(Doc, steps) => RecordedIn(d, steps)) /\ (Lone(Doc) => Lone(d))
    BY <2>2, FewerOurs
  <2> QED
    BY <1>1, <2>1, <2>3, OwnEdited DEF DocEdit
<1>2. ASSUME NEW name \in {"old", "new"}, Deregisters(name) PROVE OwnInv'
  <2>1. Same(Doc', Doc) /\ \A b \in Bins : files'[b] = files[b]
    BY <1>2, DeregistersLeaves, FileNames
  <2>2. reg' \ theirs'.reg \subseteq reg \ theirs.reg /\ UNCHANGED <<op, man, scar>>
    BY <1>2, DeregistersIs
  <2> QED
    BY <2>1, <2>2, SameDoc, OwnEdited
<1> QED
  BY <1>1, <1>2, OperatorIs

LEMMA OwnStartInstall ==
  ASSUME InstallTypes, OwnInv, scar = {}, NEW bin \in Bins, NEW cli \in BOOLEAN,
         StartInstall(bin, cli)
  PROVE  ManOwn' /\ OwnInstall' /\ op'.pc \in InstallPcs
<1>1. /\ op.pc = "idle" /\ op'.doc = Doc /\ DOMAIN op'.before = {} /\ op'.cli = FALSE
      /\ op'.pc \in InstallPcs /\ \A w \in op'.wire : Recorded(w) = {}
  BY StartInstallIs, StartWires DEF InstallPcs
<1>2. UNCHANGED <<files, man, reg, theirs>>
  BY DEF StartInstall
<1>3. ManOwn /\ OwnIdle
  BY <1>1 DEF OwnInv
<1>4. ManOwn'
  BY <1>2, <1>3 DEF ManOwn, Recorded
<1>5. Doc' = Doc /\ \A w : Recorded(w)' = Recorded(w)
  BY <1>2 DEF Doc, Recorded
<1>6. OwnInstall'
  BY <1>1, <1>2, <1>3, <1>5 DEF OwnIdle, OwnInstall, Names
<1> QED
  BY <1>1, <1>4, <1>6

\* Where an install goes on, ManOwn goes with the manifest.
LEMMA ManOwnSame == ASSUME ManOwn, UNCHANGED man PROVE ManOwn'
BY DEF ManOwn, Recorded

LEMMA OwnWrote ==
  ASSUME InstallTypes, ManOwn, OwnInstall, NEW f \in {"delegate"} \cup Bins, NEW c, Wrote(f, c),
         f \in Bins => files[f] = Missing
  PROVE  OwnInstall'
<1>1. /\ UNCHANGED <<man, reg, theirs>> /\ op'.doc = op.doc /\ op'.wire = op.wire
      /\ op'.cli = op.cli /\ op'.bin = op.bin
      /\ \A g \in Files \ {f} : files'[g] = files[g]
      /\ DOMAIN op'.before = DOMAIN op.before \cup {f} /\ op'.before[f] = files[f]
      /\ \A g \in DOMAIN op.before \ {f} : op'.before[g] = op.before[g]
  BY DEF Wrote
<1>2. Doc' = Doc /\ f # "settings"
  BY <1>1, FileNames DEF Doc
<1>3. NewSteps' = NewSteps /\ \A w : Recorded(w)' = Recorded(w)
  BY <1>1, NewStepsSame DEF Recorded
<1>4. \A b \in Bins : files'[b] # Missing => b \in DOMAIN man'.files \cup DOMAIN op'.before
  BY <1>1, FileNames DEF OwnInstall
<1>5. \A b \in Bins \cap DOMAIN op'.before : op'.before[b] = Missing
  BY <1>1 DEF OwnInstall
<1> QED
  BY <1>1, <1>2, <1>3, <1>4, <1>5 DEF OwnInstall, Names

\* A document is wired only where nothing of ours was recorded, so stood.
LEMMA WiredOwn ==
  ASSUME InstallRun, ManOwn, OwnInstall
  PROVE  RecordedIn(Wired(op.doc), man.steps \cup NewSteps) /\ Lone(Wired(op.doc))
<1> DEFINE d == op.doc
           c == Wired(op.doc)
           new == Ours(op.bin)
<1>1. d \in Settings /\ op.bin \in Bins /\ op.wire \subseteq Events \cup {"line", "new"}
  BY DocTyped DEF InstallRun
<1>2. /\ c.line = IF "line" \in op.wire THEN new ELSE d.line
      /\ \A e \in Events : Entries(c, e) = IF e \in op.wire THEN Append(Entries(d, e), new)
                                           ELSE Entries(d, e)
  BY <1>1, WiredDoc
<1>3. new.by = "us" /\ new.bin = op.bin /\ new \in Entry
  BY <1>1, Apart DEF Ours
<1>4. RecordedIn(d, man.steps) /\ Lone(d) /\ \A w \in op.wire : Recorded(w) = {}
  BY DEF OwnInstall
<1>5. \A e \in Events : Entries(d, e) \in Seq(Entry)
  BY <1>1, EntriesTyped
<1> HIDE DEF c, d, new
<1>6. ASSUME NEW e \in Events, e \in op.wire PROVE OursIn(Entries(d, e)) = {}
  BY <1>4, <1>6 DEF RecordedIn, Recorded
<1>7. ASSUME NEW e \in Events, e \in op.wire
      PROVE  \A i \in OursIn(Entries(c, e)) : Entries(c, e)[i] = new /\ i = Len(Entries(d, e)) + 1
  <2> DEFINE s == Entries(d, e)
  <2>1. s \in Seq(Entry) /\ OursIn(s) = {} /\ Entries(c, e) = Append(s, new)
    BY <1>2, <1>5, <1>6, <1>7
  <2> HIDE DEF s
  <2>2. \A i \in OursIn(Append(s, new)) : Append(s, new)[i] = new /\ i = Len(s) + 1
    BY <1>3, <2>1, Appended DEF OursIn
  <2> QED
    BY <2>1, <2>2 DEF s
<1>8. ASSUME NEW e \in Events, NEW i \in OursIn(Entries(c, e))
      PROVE  \E s \in man.steps \cup NewSteps : s.at = e /\ s.bin = Entries(c, e)[i].bin
  <2>1. CASE e \in op.wire
    BY <1>3, <1>7, <1>8, <2>1, NewStepsAre
  <2>2. CASE e \notin op.wire
    BY <1>2, <1>4, <1>8, <2>2 DEF RecordedIn
  <2> QED
    BY <2>1, <2>2
<1>9. c.line.by = "us" => \E s \in man.steps \cup NewSteps : s.at = "line" /\ s.bin = c.line.bin
  BY <1>2, <1>3, <1>4, NewStepsAre DEF RecordedIn
<1>10. Lone(c)
  BY <1>2, <1>4, <1>7 DEF Lone
<1> QED
  BY <1>8, <1>9, <1>10 DEF RecordedIn, c

LEMMA OwnWriteSettings ==
  ASSUME InstallTypes, ManOwn, OwnInstall, WriteSettings PROVE OwnInstall'
<1>1. /\ InstallRun /\ UNCHANGED <<man, reg, theirs>> /\ op'.doc = op.doc /\ op'.wire = op.wire
      /\ op'.cli = op.cli /\ op'.bin = op.bin
      /\ \A g \in Files \ {"settings"} : files'[g] = files[g]
      /\ DOMAIN op'.before = DOMAIN op.before \cup {"settings"}
      /\ \A g \in DOMAIN op.before \ {"settings"} : op'.before[g] = op.before[g]
      /\ Doc' = Wired(op.doc)
  BY WroteSettings DEF Wrote
<1>2. NewSteps' = NewSteps /\ \A w : Recorded(w)' = Recorded(w)
  BY <1>1, NewStepsSame DEF Recorded
<1>3. RecordedIn(Doc', man'.steps \cup NewSteps') /\ Lone(Doc')
  BY <1>1, <1>2, WiredOwn
<1>4. /\ \A b \in Bins : files'[b] # Missing => b \in DOMAIN man'.files \cup DOMAIN op'.before
      /\ \A b \in Bins \cap DOMAIN op'.before : op'.before[b] = Missing
  BY <1>1, FileNames DEF OwnInstall
<1> QED
  BY <1>1, <1>2, <1>3, <1>4 DEF OwnInstall, Names

LEMMA OwnRegister ==
  ASSUME InstallTypes, OwnInstall, Register PROVE OwnInstall'
<1>1. /\ op'.bin = op.bin /\ op'.wire = op.wire /\ op'.doc = op.doc /\ op'.before = op.before
      /\ op'.cli = TRUE /\ reg' = reg \cup {"new"} /\ UNCHANGED <<man, theirs>>
      /\ Same(Doc', Doc) /\ \A b \in Bins : files'[b] = files[b]
  BY RegisterIs, RegisterLeaves, FileNames
<1>2. NewSteps' = NewSteps /\ \A w : Recorded(w)' = Recorded(w)
  BY <1>1, NewStepsSame DEF Recorded
<1>3. (\A steps : RecordedIn(Doc, steps) => RecordedIn(Doc', steps)) /\ (Lone(Doc) => Lone(Doc'))
  BY <1>1, SameDoc
<1> QED
  BY <1>1, <1>2, <1>3 DEF OwnInstall, Names

LEMMA OwnUnroll ==
  ASSUME InstallTypes, OwnInstall, SettingsMoved \/ InstallFails PROVE OwnInstall'
<1>1. /\ op'.bin = op.bin /\ op'.wire = op.wire /\ op'.doc = op.doc /\ op'.before = op.before
      /\ op'.cli = op.cli /\ UNCHANGED <<files, man, reg, theirs>>
  BY UnrollIs
<1>2. NewSteps' = NewSteps /\ Doc' = Doc /\ \A w : Recorded(w)' = Recorded(w)
  BY <1>1, NewStepsSame DEF Recorded, Doc
<1> QED
  BY <1>1, <1>2 DEF OwnInstall, Names

LEMMA OwnSaveManifest ==
  ASSUME InstallTypes, ManOwn, OwnInstall, SaveManifest PROVE ManOwn' /\ OwnIdle'
<1>1. /\ op.pc = "manifest" /\ InstallRun /\ man'.steps = NewSteps \cup man.steps
      /\ DOMAIN man'.files = DOMAIN op.before \cup DOMAIN man.files
      /\ \A f \in DOMAIN op.before : man'.files[f] = FileRec(f)
      /\ \A f \in DOMAIN man.files \ DOMAIN op.before : man'.files[f] = man.files[f]
      /\ UNCHANGED <<files, reg, theirs>>
  BY SaveManifestIs DEF SaveManifest
<1>2. /\ op.wire \subseteq Events \cup {"line", "new"} /\ \A w \in op.wire : Recorded(w) = {}
      /\ op.wire # {"new"} => "settings" \in DOMAIN op.before
  BY <1>1 DEF InstallRun, OwnInstall
<1>3. \A s, t \in man'.steps : s.at = t.at /\ s.at \in Hooked => s = t
  BY <1>1, <1>2, NewStepsAre DEF ManOwn, Recorded
<1>4. ASSUME NEW s \in man'.steps, s.at \in Hooked PROVE "settings" \in DOMAIN man'.files
  <2>1. CASE s \in man.steps
    BY <1>1, <1>4, <2>1 DEF ManOwn
  <2>2. CASE s \in NewSteps
    <3>1. s.at \in op.wire /\ s.at # "new"
      BY <1>4, <2>2, NewStepsAre, InstallAssumption DEF Hooked
    <3> QED
      BY <1>1, <1>2, <3>1
  <2> QED
    BY <1>1, <2>1, <2>2
<1>5. ASSUME "settings" \in DOMAIN man'.files
      PROVE  RecordedIn(AsDoc(man'.files["settings"].before), {})
  <2>1. CASE "settings" \in DOMAIN man.files
    <3>1. IsRec(man.files["settings"], "settings")
      BY <2>1 DEF InstallTypes, ManOK
    <3>2. "settings" \in DOMAIN op.before =>
            FileRec("settings") = [man.files["settings"] EXCEPT !.after = files["settings"]]
      BY <2>1 DEF FileRec, Hashed, FromDisk
    <3>3. man'.files["settings"].before = man.files["settings"].before
      BY <1>1, <2>1, <3>1, <3>2 DEF IsRec
    <3> QED
      BY <2>1, <3>3 DEF ManOwn
  <2>2. CASE "settings" \notin DOMAIN man.files
    <3>1. "settings" \in DOMAIN op.before
      BY <1>1, <1>5, <2>2
    <3>2. FileRec("settings").before = op.before["settings"]
      BY <2>2 DEF FileRec
    <3>3. AsDoc(man'.files["settings"].before) = op.doc
      BY <1>1, <3>1, <3>2 DEF InstallRun
    <3>4. \A s \in man.steps : s.at \notin Hooked
      BY <2>2 DEF ManOwn
    <3>5. RecordedIn(op.doc, {})
      BY <3>4 DEF OwnInstall, RecordedIn, Hooked
    <3> QED
      BY <3>3, <3>5
  <2> QED
    BY <2>1, <2>2
<1>6. ASSUME NEW b \in Bins \cap DOMAIN man'.files
      PROVE  man'.files[b].created /\ \E s \in man'.steps : s.at = "line"
  <2>1. CASE b \in DOMAIN op.before
    <3>1. b = op.bin /\ "line" \in op.wire /\ op.before[b] = Missing /\ b # "settings"
      BY <1>1, <1>6, <2>1, FileNames DEF InstallRun, OwnInstall
    <3>2. FileRec(b).created = (op.before[b] = Missing)
      BY <3>1 DEF FileRec
    <3>3. \E s \in NewSteps : s.at = "line"
      BY <1>2, <3>1, NewStepsAre
    <3> QED
      BY <1>1, <2>1, <3>1, <3>2, <3>3
  <2>2. CASE b \notin DOMAIN op.before
    BY <1>1, <1>6, <2>2 DEF ManOwn, Recorded
  <2> QED
    BY <2>1, <2>2
<1>7. ASSUME NEW s \in man'.steps, s.at = "line" PROVE s.prior.by # "us"
  <2>1. CASE s \in man.steps
    BY <1>7, <2>1 DEF ManOwn, Recorded
  <2>2. CASE s \in NewSteps
    <3>1. s.prior = op.doc.line /\ "line" \in op.wire
      BY <1>7, <2>2, NewStepsAre
    <3> QED
      BY <1>2, <3>1 DEF OwnInstall, RecordedIn, Recorded
  <2> QED
    BY <1>1, <2>1, <2>2
<1>8. ManOwn'
  BY <1>3, <1>4, <1>5, <1>6, <1>7 DEF ManOwn, Recorded
<1>9. RecordedIn(Doc, man'.steps)
  BY <1>1, RecordedMore DEF OwnInstall
<1>10. reg \ theirs.reg \subseteq Names(man'.steps)
  <2>1. op.cli => \E s \in NewSteps : s.at = "new"
    BY <1>1, NewStepsAre DEF InstallRun
  <2> QED
    BY <1>1, <2>1 DEF OwnInstall, Names
<1>11. Doc' = Doc
  BY <1>1 DEF Doc
<1>12. OwnIdle'
  BY <1>1, <1>9, <1>10, <1>11 DEF OwnIdle, OwnInstall
<1> QED
  BY <1>8, <1>12

LEMMA OwnRollBack == ASSUME InstallTypes, OwnInstall, RollBack PROVE OwnIdle'
<1>1. InstallRun /\ UNCHANGED <<man, theirs>> /\ reg' = IF op.cli THEN reg \ {"new"} ELSE reg
  BY RollBackIs
<1>2. RecordedIn(Doc', man.steps) /\ Lone(Doc')
  <2>1. CASE "settings" \in DOMAIN op.before
    BY <2>1, RollBackIs DEF OwnInstall
  <2>2. CASE "settings" \notin DOMAIN op.before
    BY <2>2, RollBackIs, SameDoc DEF OwnInstall
  <2> QED
    BY <2>1, <2>2
<1>3. reg' \ theirs'.reg \subseteq Names(man'.steps)
  BY <1>1 DEF OwnInstall
<1>4. ASSUME NEW b \in Bins, files'[b] # Missing PROVE b \in DOMAIN man.files
  BY <1>4, RollBackIs, FileNames DEF OwnInstall
<1> QED
  BY <1>1, <1>2, <1>3, <1>4 DEF OwnIdle

LEMMA OwnInstallStep == ASSUME InstallTypes, OwnInv, scar' = {}, scar = {}, InstallStep PROVE OwnInv'
<1>1. ASSUME NEW bin \in Bins, NEW cli \in BOOLEAN, StartInstall(bin, cli) PROVE OwnInv'
  BY <1>1, OwnStartInstall DEF OwnInv, InstallPcs, UninstallPcs
<1>2. ASSUME InstallRun, op'.pc \in InstallPcs, UNCHANGED man, OwnInstall => OwnInstall' PROVE OwnInv'
  <2>1. ManOwn /\ OwnInstall
    BY <1>2 DEF OwnInv, InstallRun
  <2> QED
    BY <1>2, <2>1, ManOwnSame DEF OwnInv, InstallPcs, UninstallPcs
<1>3. InstallRun => ManOwn /\ OwnInstall
  BY DEF OwnInv, InstallRun
<1>4. CASE WriteTee
  <2>1. /\ Wrote(op.bin, Script) /\ op.bin \in Bins /\ "line" \in op.wire /\ DOMAIN op.before = {}
        /\ InstallRun
    BY <1>4, WroteTee DEF Wrote
  <2>2. files[op.bin] = Missing
    BY <1>3, <2>1 DEF OwnInstall, ManOwn
  <2>3. OwnInstall'
    BY <1>3, <2>1, <2>2, OwnWrote
  <2> QED
    BY <1>2, <2>1, <2>3 DEF Wrote
<1>5. CASE WriteDelegate
  <2>1. Wrote("delegate", op.doc.line) /\ InstallRun /\ "delegate" \notin Bins
    BY <1>5, WroteDelegate, FileNames DEF Wrote
  <2>2. OwnInstall'
    BY <1>3, <2>1, OwnWrote
  <2> QED
    BY <1>2, <2>1, <2>2 DEF Wrote
<1>6. CASE WriteSettings
  <2>1. Wrote("settings", Wired(op.doc)) /\ InstallRun
    BY <1>6, WroteSettings DEF Wrote
  <2>2. OwnInstall'
    BY <1>3, <1>6, <2>1, OwnWriteSettings
  <2> QED
    BY <1>2, <2>1, <2>2 DEF Wrote
<1>7. CASE SettingsMoved \/ InstallFails
  BY <1>2, <1>7, UnrollIs, OwnUnroll DEF InstallPcs
<1>8. CASE Register
  BY <1>2, <1>8, RegisterIs, RegisterLeaves, OwnRegister DEF InstallPcs
<1>9. CASE SaveManifest
  <2>1. InstallRun /\ op'.pc = "idle"
    BY <1>9, SaveManifestIs
  <2> QED
    BY <1>3, <1>9, <2>1, OwnSaveManifest DEF OwnInv, InstallPcs, UninstallPcs
<1>10. CASE RollBack
  <2>1. InstallRun /\ op'.pc = "idle" /\ UNCHANGED man
    BY <1>10, RollBackIs
  <2> QED
    BY <1>3, <1>10, <2>1, OwnRollBack, ManOwnSame DEF OwnInv, InstallPcs, UninstallPcs
<1>11. CASE RollBackStrands
  BY <1>11 DEF RollBackStrands
<1> QED
  BY <1>1, <1>4, <1>5, <1>6, <1>7, <1>8, <1>9, <1>10, <1>11 DEF InstallStep

LEMMA OwnStartUninstall ==
  ASSUME InstallTypes, ManOwn, OwnIdle, StartUninstall PROVE OwnUninstall'
<1>1. /\ op'.pc = "deregister" /\ op'.doc = Doc
      /\ op'.whole = {f \in DOMAIN man.files : ByteOK(f)}
      /\ op'.drop = {s \in man.steps : Undo(Doc, s) \in {"remove", "edited"}}
      /\ \A s \in man.steps : Undo(Doc, s) # "drift"
      /\ UNCHANGED <<files, man, reg, theirs>>
  BY StartUninstallIs
<1>2. ASSUME NEW e \in Events, NEW i \in OursIn(Entries(Doc, e))
      PROVE  \E s \in op'.drop : s.at = e /\ s.bin = Entries(Doc, e)[i].bin
  <2>1. PICK s \in man.steps : s.at = e /\ s.bin = Entries(Doc, e)[i].bin
    BY <1>2 DEF OwnIdle, RecordedIn
  <2>2. ~ Undetermined(Doc, e, s.bin) /\ Undo(Doc, s) # "drift"
    BY <1>1, <2>1, UndoHook
  <2>3. Found(Doc, e, s.bin) # {}
    BY <2>1, <2>2 DEF Found, Undetermined, OursIn
  <2>4. Undo(Doc, s) \in {"remove", "edited"}
    BY <2>1, <2>2, <2>3, UndoHook
  <2> QED
    BY <1>1, <2>1, <2>4
<1>3. ASSUME Doc.line.by = "us" PROVE \E s \in op'.drop : s.at = "line" /\ s.bin = Doc.line.bin
  <2>1. PICK s \in man.steps : s.at = "line" /\ s.bin = Doc.line.bin
    BY <1>3 DEF OwnIdle, RecordedIn
  <2>2. s.at \notin Events /\ Doc.line # NoLine
    BY <1>3, <2>1, Apart, InstallAssumption
  <2>3. Undo(Doc, s) \in {"remove", "not wired"} /\ Undo(Doc, s) # "not wired"
    BY <1>1, <2>1, <2>2, UndoOther
  <2> QED
    BY <1>1, <2>1, <2>3
<1>4. RecordedIn(Doc, op'.drop)
  BY <1>2, <1>3 DEF RecordedIn
<1>5. ASSUME NEW b \in Bins, files[b] # Missing PROVE b \in op'.whole
  <2>1. b \in DOMAIN man.files /\ man.files[b].created /\ b \in Files
    BY <1>5, FileNames DEF OwnIdle, ManOwn
  <2>2. IsRec(man.files[b], b) /\ files[b] \in Content(b)
    BY <2>1, FileTyped DEF InstallTypes, ManOK
  <2>3. files[b] = man.files[b].after
    BY <1>5, <2>2, FileNames DEF IsRec, Content
  <2>4. ByteOK(b)
    BY <2>1, <2>3, FileNames DEF ByteOK, BackupUsable
  <2> QED
    BY <1>1, <2>1, <2>4
<1>6. ASSUME NEW n \in reg \ theirs.reg PROVE n \in Names(op'.drop)
  <2>1. PICK s \in man.steps : s.at = n
    BY <1>6 DEF OwnIdle, Names
  <2>2. n \in {"old", "new"}
    BY <1>6 DEF InstallTypes
  <2>4. s.at \notin Events /\ s.at # "line" /\ s.at \in reg
    BY <1>6, <2>1, <2>2, InstallAssumption
  <2>3. Undo(Doc, s) = "remove"
    BY <2>4, UndoOther
  <2> QED
    BY <1>1, <2>1, <2>3 DEF Names
<1>7. op'.doc # Missing /\ Doc' = Doc
  BY <1>1, DocNow, Apart DEF Doc
<1> QED
  BY <1>1, <1>4, <1>5, <1>6, <1>7 DEF OwnUninstall, OwnIdle

LEMMA OwnDeregister == ASSUME InstallTypes, OwnUninstall, Deregister PROVE OwnUninstall'
<1>1. /\ op.pc = "deregister" /\ op'.pc = "restore" /\ op'.doc = op.doc /\ op'.whole = op.whole
      /\ op'.drop = op.drop /\ reg' = reg \ (Names(op.drop) \cap {"old", "new"})
      /\ UNCHANGED <<man, theirs>>
  BY DeregisterIs
<1>2. Same(Doc', Doc) /\ \A b \in Bins : files'[b] = files[b]
  BY DeregisterLeaves, FileNames
<1>3. reg' \subseteq theirs.reg
  BY <1>1 DEF OwnUninstall, InstallTypes
<1> QED
  BY <1>1, <1>2, <1>3, SameDoc DEF OwnUninstall

\* What is recorded is the operator's to keep until all of it is gone.
LEMMA OwnDeregisterFails ==
  ASSUME InstallTypes, OwnUninstall, UninstallRun, op.pc = "deregister", DeregisterFails
  PROVE  OwnIdle'
<1>1. UNCHANGED <<files, man, reg, theirs>>
  BY DEF DeregisterFails
<1>2. op.drop \subseteq man.steps /\ op.whole \subseteq DOMAIN man.files
  BY DEF UninstallRun
<1>3. RecordedIn(Doc, man.steps)
  BY <1>2, RecordedMore DEF OwnUninstall
<1>4. Names(op.drop) \subseteq Names(man.steps)
  BY <1>2 DEF Names
<1>5. Doc' = Doc
  BY <1>1 DEF Doc
<1> QED
  BY <1>1, <1>2, <1>3, <1>4, <1>5 DEF OwnIdle, OwnUninstall

LEMMA OwnRestoreFile ==
  ASSUME InstallTypes, ManOwn, OwnUninstall, NEW f \in Files, RestoreFile(f) PROVE OwnUninstall'
<1>1. /\ op.pc = "restore" /\ f \in DOMAIN man.files
      /\ op'.pc = "restore" /\ op'.drop = op.drop /\ op'.whole = op.whole \ {f}
      /\ op'.doc = IF f = "settings" THEN Missing ELSE op.doc
      /\ files'[f] = man.files[f].before /\ \A g \in Files \ {f} : files'[g] = files[g]
      /\ UNCHANGED <<man, reg, theirs>>
  BY RestoreFileIs
<1>2. IsRec(man.files[f], f)
  BY <1>1 DEF InstallTypes, ManOK
<1>3. ASSUME NEW b \in Bins, files'[b] # Missing PROVE b \in op'.whole
  <2>1. b # f
    BY <1>1, <1>2, <1>3 DEF ManOwn, IsRec
  <2> QED
    BY <1>1, <1>3, <2>1, FileNames DEF OwnUninstall
<1>4. CASE f = "settings"
  <2>1. RecordedIn(Doc', {})
    BY <1>1, <1>4, RestoreLeaves DEF ManOwn
  <2> QED
    BY <1>1, <1>3, <1>4, <2>1, NoneOfOurs DEF OwnUninstall
<1>5. CASE f # "settings"
  BY <1>1, <1>3, <1>5, RestoreLeaves DEF OwnUninstall
<1> QED
  BY <1>4, <1>5

\* Where one of ours was recorded it is taken out, and it was the only one.
LEMMA UnwiredOwn ==
  ASSUME InstallTypes, ManOwn, OwnUninstall, UninstallRun, op.doc # Missing
  PROVE  RecordedIn(Unwired(op.doc), {})
<1> DEFINE d == op.doc
           u == Unwired(op.doc)
<1>1. d \in Settings /\ op.drop \subseteq Steps /\ op.drop \subseteq man.steps /\ Located(d, op.drop)
  BY DEF UninstallRun, Content, InstallTypes, ManOK
<1>2. /\ IF \A s \in op.drop : s.at # "line" THEN u.line = d.line
         ELSE \E s \in op.drop : s.at = "line" /\ u.line = s.prior
      /\ \A e \in Events :
              IF \A s \in op.drop : s.at # e THEN Entries(u, e) = Entries(d, e)
              ELSE \E s \in op.drop, i \in DOMAIN Entries(d, e) :
                     /\ s.at = e /\ i \in Found(d, e, s.bin)
                     /\ Entries(u, e) = RemoveAt(Entries(d, e), i)
  BY <1>1, UnwiredDoc
<1>3. RecordedIn(d, op.drop) /\ Lone(d)
  BY DEF OwnUninstall
<1> HIDE DEF d, u
<1>4. u.line.by # "us"
  BY <1>1, <1>2, <1>3 DEF RecordedIn, ManOwn, Recorded
<1>5. ASSUME NEW e \in Events PROVE OursIn(Entries(u, e)) = {}
  <2>1. CASE \A s \in op.drop : s.at # e
    BY <1>2, <1>3, <2>1 DEF RecordedIn
  <2>2. CASE ~ \A s \in op.drop : s.at # e
    <3>1. PICK s \in op.drop, i \in DOMAIN Entries(d, e) :
            /\ s.at = e /\ i \in Found(d, e, s.bin)
            /\ Entries(u, e) = RemoveAt(Entries(d, e), i)
      BY <1>2, <2>2
    <3>2. i \in OursIn(Entries(d, e)) /\ Entries(d, e) \in Seq(Entry)
      BY <1>1, <3>1, EntriesTyped DEF Found, OursIn
    <3>3. \A j, k \in OursIn(Entries(d, e)) : j = k
      BY <1>3 DEF Lone
    <3> QED
      BY <3>1, <3>2, <3>3, RemoveOnly
  <2> QED
    BY <2>1, <2>2
<1>6. RecordedIn(u, {})
  BY <1>4, <1>5 DEF RecordedIn
<1> QED
  BY <1>6 DEF u

LEMMA OwnRemoveEntries ==
  ASSUME InstallTypes, ManOwn, OwnUninstall, RemoveEntries PROVE OwnUninstall'
<1> DEFINE writes == op.doc # Missing /\ \E s \in op.drop : s.at \in Events \cup {"line"}
<1>1. /\ op.pc = "restore" /\ UninstallRun /\ op.whole = {} /\ op'.pc = "forget"
      /\ op'.doc = op.doc /\ op'.whole = {} /\ op'.drop = op.drop
      /\ ~ writes => files' = files
      /\ writes => /\ Doc' = Unwired(op.doc)
                   /\ \A f \in Files \ {"settings"} : files'[f] = files[f]
      /\ UNCHANGED <<man, reg, theirs>>
  BY RemoveEntriesIs
<1>2. RecordedIn(Doc', {})
  <2>1. CASE writes
    BY <1>1, <2>1, UnwiredOwn
  <2>2. CASE ~ writes
    <3>1. Doc' = Doc
      BY <1>1, <2>2 DEF Doc
    <3>2. RecordedIn(Doc, {})
      BY <2>2 DEF OwnUninstall, RecordedIn
    <3> QED
      BY <3>1, <3>2
  <2> QED
    BY <2>1, <2>2
<1>3. \A b \in Bins : files'[b] = files[b]
  BY <1>1, FileNames
<1> QED
  BY <1>1, <1>2, <1>3, NoneOfOurs DEF OwnUninstall

LEMMA OwnForgetInstall ==
  ASSUME InstallTypes, OwnUninstall, ForgetInstall PROVE ManOwn' /\ OwnIdle'
<1>1. /\ op.pc = "forget" /\ UninstallRun /\ man'.steps = {} /\ DOMAIN man'.files = {}
      /\ UNCHANGED <<files, reg, theirs>>
  BY ForgetInstallIs
<1>2. ManOwn'
  BY <1>1 DEF ManOwn, Recorded
<1>3. op.whole = {} /\ Doc' = Doc
  BY <1>1 DEF UninstallRun, Doc
<1>4. OwnIdle'
  BY <1>1, <1>3, NoneOfOurs DEF OwnIdle, OwnUninstall
<1> QED
  BY <1>2, <1>4

LEMMA OwnUninstallStep ==
  ASSUME InstallTypes, OwnInv, scar' = {}, scar = {}, UninstallStep PROVE OwnInv'
<1>1. UninstallRun => ManOwn /\ OwnUninstall
  BY DEF OwnInv, UninstallRun
<1>2. ASSUME ManOwn, op'.pc \in UninstallPcs, UNCHANGED man, OwnUninstall' PROVE OwnInv'
  BY <1>2, ManOwnSame DEF OwnInv, InstallPcs, UninstallPcs
<1>3. CASE StartUninstall
  <2>1. op.pc = "idle" /\ op'.pc = "deregister" /\ UNCHANGED man
    BY <1>3, StartUninstallIs
  <2>2. ManOwn /\ OwnIdle
    BY <2>1 DEF OwnInv
  <2> QED
    BY <1>2, <1>3, <2>1, <2>2, OwnStartUninstall DEF UninstallPcs
<1>4. CASE Deregister
  <2>1. UninstallRun /\ op'.pc = "restore" /\ UNCHANGED man
    BY <1>4, DeregisterIs
  <2> QED
    BY <1>1, <1>2, <1>4, <2>1, OwnDeregister DEF UninstallPcs
<1>5. CASE DeregisterFails
  <2>1. UninstallRun /\ op.pc = "deregister" /\ op'.pc = "idle" /\ UNCHANGED man
    BY <1>5, OpKinds DEF DeregisterFails, Doing, UninstallPcs, NoRunNow
  <2> QED
    BY <1>1, <1>5, <2>1, OwnDeregisterFails, ManOwnSame DEF OwnInv, InstallPcs, UninstallPcs
<1>6. ASSUME NEW f \in Files, RestoreFile(f) PROVE OwnInv'
  <2>1. UninstallRun /\ op'.pc = "restore" /\ UNCHANGED man
    BY <1>6, RestoreFileIs
  <2> QED
    BY <1>1, <1>2, <1>6, <2>1, OwnRestoreFile DEF UninstallPcs
<1>7. CASE RemoveEntries
  <2>1. UninstallRun /\ op'.pc = "forget" /\ UNCHANGED man
    BY <1>7, RemoveEntriesIs
  <2> QED
    BY <1>1, <1>2, <1>7, <2>1, OwnRemoveEntries DEF UninstallPcs
<1>8. CASE RestoreFails
  BY <1>8 DEF RestoreFails
<1>9. CASE ForgetInstall
  <2>1. UninstallRun /\ op'.pc = "idle"
    BY <1>9, ForgetInstallIs
  <2> QED
    BY <1>1, <1>9, <2>1, OwnForgetInstall DEF OwnInv, InstallPcs, UninstallPcs
<1> QED
  BY <1>3, <1>4, <1>5, <1>6, <1>7, <1>8, <1>9 DEF UninstallStep

\* What was cut short once stays so.
LEMMA ScarGrows == ASSUME [InstallNext]_installVars PROVE scar \subseteq scar'
BY DEF Operator, SetsOption, SetsLine, AddsHook, RemovesOurs, Retunes, Deregisters, Edited, InstallNext, InstallStep, UninstallStep, installVars, StartInstall, WriteTee,
   WriteDelegate, WriteSettings, SettingsMoved, Register, SaveManifest, InstallFails, RollBack,
   RollBackStrands, StartUninstall, Deregister, DeregisterFails, RestoreFile, RemoveEntries,
   RestoreFails, ForgetInstall, KillRun

LEMMA OwnStep == ASSUME InstallTypes, OwnInv, [InstallNext]_installVars PROVE OwnInv'
<1> SUFFICES ASSUME scar' = {} PROVE OwnInv'
  BY DEF OwnInv
<1>1. scar = {}
  BY ScarGrows
<1>2. CASE UNCHANGED installVars
  <2>1. UNCHANGED <<op, man, scar, files, reg, theirs>> /\ Doc' = Doc
    BY <1>2 DEF installVars, Doc
  <2> QED
    BY <2>1, OwnEdited
<1>3. CASE KillRun
  BY <1>3 DEF KillRun
<1> QED
  BY <1>1, <1>2, <1>3, OwnInstallStep, OwnUninstallStep, OwnOperator DEF InstallNext

-----------------------------------------------------------------------------
(* A first install wires everything.                                       *)

LEMMA FreshInit == ASSUME InstallInit PROVE FreshInv
BY InitIs DEF FreshInv, InstallPcs

LEMMA FreshStartInstall ==
  ASSUME InstallTypes, FreshInv, NEW bin \in Bins, NEW cli \in BOOLEAN, StartInstall(bin, cli)
  PROVE  FreshInv'
<1> SUFFICES ASSUME scar \subseteq {"install"} PROVE FreshInv'
  BY DEF FreshInv, StartInstall
<1>1. /\ op.pc = "idle" /\ op'.pc \in InstallPcs /\ op'.doc = Doc /\ op'.wire # {}
      /\ op'.wire \subseteq Events \cup {"line", "new"}
  BY StartInstallIs DEF InstallPcs
<1>2. /\ \A w \in op'.wire : Recorded(w) = {}
      /\ "line" \in op'.wire => Doc.line # NoLine /\ Doc.line.as # "unreadable"
      /\ \A w \in (Events \cup {"new"}) \ op'.wire : Recorded(w) # {}
      /\ "line" \in op'.wire \/ Recorded("line") # {} \/ Skips(Doc.line)
      /\ blind' = "none" =>
           /\ blind = "none" /\ ~ ("line" \in op'.wire /\ Doc.line.by = "us")
           /\ man.there /\ touched => op'.wire = {"new"}
  BY StartWires
<1>3. UNCHANGED <<man, scar>> /\ Doc' = Doc /\ (man.there => touched' = touched)
  BY DEF StartInstall, Doc
<1>4. man.there => touched
  <2> SUFFICES ASSUME man.there, ~ touched PROVE FALSE
    OBVIOUS
  <2>1. /\ \A w \in Events \cup {"new"} : Recorded(w) # {}
        /\ Recorded("line") # {} \/ Skips(Doc.line)
    BY <1>1 DEF FreshInv
  <2> QED
    BY <1>1, <1>2, <2>1 DEF Skips
<1>5. ~ man.there => \A w : Recorded(w) = {}
  BY DEF InstallTypes, ManOK, Recorded
<1>6. Doc.line.by = "us" => ~ Skips(Doc.line)
  BY DocNow, Apart DEF Settings, Line, Skips
<1>7. /\ ~ man.there => Events \cup {"new"} \subseteq op'.wire
      /\ ~ man.there /\ blind' = "none" => Doc.line.by # "us"
      /\ ~ man.there /\ "line" \notin op'.wire => Skips(Doc.line)
  BY <1>2, <1>5, <1>6
<1> QED
  BY <1>1, <1>2, <1>3, <1>4, <1>7 DEF FreshInv, InstallPcs

\* An install that goes on, and one that ends without a manifest.
LEMMA FreshGoesOn ==
  ASSUME FreshInv, scar' \subseteq {"install"}, scar \subseteq {"install"},
         op.pc \in InstallPcs, UNCHANGED <<man, touched, blind>>,
         \/ op'.pc = "idle"
         \/ /\ op'.pc \in InstallPcs /\ op'.wire = op.wire /\ op'.doc = op.doc
            /\ "line" \notin op.wire => Doc'.line = Doc.line
  PROVE  FreshInv'
BY DEF FreshInv, InstallPcs, Recorded

LEMMA FreshInstallStep ==
  ASSUME InstallTypes, FreshInv, scar \subseteq {"install"}, scar' \subseteq {"install"}, InstallStep
  PROVE  FreshInv'
<1>1. ASSUME NEW bin \in Bins, NEW cli \in BOOLEAN, StartInstall(bin, cli) PROVE FreshInv'
  BY <1>1, FreshStartInstall
<1>2. CASE WriteTee
  <2>1. Wrote(op.bin, Script) /\ op.bin # "settings"
    BY <1>2, WroteTee, FileNames
  <2>2. Doc' = Doc
    BY <2>1, FileNames DEF Wrote, Doc
  <2> QED
    BY <2>1, <2>2, FreshGoesOn DEF Wrote, InstallRun
<1>3. CASE WriteDelegate
  <2>1. Wrote("delegate", op.doc.line)
    BY <1>3, WroteDelegate
  <2>2. Doc' = Doc
    BY <2>1, FileNames DEF Wrote, Doc
  <2> QED
    BY <2>1, <2>2, FreshGoesOn DEF Wrote, InstallRun
<1>4. CASE WriteSettings
  <2>1. /\ Wrote("settings", Wired(op.doc)) /\ Doc' = Wired(op.doc) /\ op.doc = Doc
        /\ op.doc \in Settings /\ op.bin \in Bins
    BY <1>4, WroteSettings
  <2>2. "line" \notin op.wire => Doc'.line = Doc.line
    BY <2>1, WiredDoc
  <2> QED
    BY <2>1, <2>2, FreshGoesOn DEF Wrote, InstallRun
<1>5. CASE SettingsMoved \/ InstallFails
  <2>1. Doc' = Doc
    BY <1>5, UnrollIs DEF Doc
  <2> QED
    BY <1>5, <2>1, UnrollIs, FreshGoesOn DEF InstallRun, InstallPcs
<1>6. CASE Register
  BY <1>6, RegisterIs, RegisterLeaves, FreshGoesOn DEF InstallPcs, Same
<1>7. CASE SaveManifest
  <2>1. /\ op.pc = "manifest" /\ op'.pc = "idle" /\ man'.steps = NewSteps \cup man.steps
        /\ UNCHANGED <<files, touched>> /\ InstallRun
    BY <1>7, SaveManifestIs DEF SaveManifest
  <2>2. Doc' = Doc
    BY <2>1 DEF Doc
  <2>3. ASSUME ~ touched
        PROVE  /\ \A w \in Events \cup {"new"} : w \in op.wire
               /\ "line" \in op.wire \/ Skips(Doc.line)
    BY <2>1, <2>3 DEF FreshInv, InstallPcs
  <2>4. ASSUME NEW w \in op.wire PROVE \E s \in man'.steps : s.at = w
    BY <2>1, <2>4, NewStepsAre DEF InstallRun
  <2> QED
    BY <2>1, <2>2, <2>3, <2>4 DEF FreshInv, InstallPcs, Recorded
<1>8. CASE RollBack \/ RollBackStrands
  <2>1. op.pc \in InstallPcs /\ op'.pc = "idle" /\ UNCHANGED <<man, touched, blind>>
    BY <1>8 DEF RollBack, RollBackStrands, Doing, InstallPcs, NoRunNow
  <2> QED
    BY <2>1, FreshGoesOn
<1> QED
  BY <1>1, <1>2, <1>3, <1>4, <1>5, <1>6, <1>7, <1>8 DEF InstallStep

LEMMA FreshUninstallStep ==
  ASSUME InstallTypes, FreshInv, scar \subseteq {"install"}, scar' \subseteq {"install"}, UninstallStep
  PROVE  FreshInv'
<1>1. ASSUME op.pc \in {"idle", "deregister"}, op'.pc \in {"idle", "deregister"},
             UNCHANGED <<files, man, touched>> PROVE FreshInv'
  <2>1. Doc' = Doc
    BY <1>1 DEF Doc
  <2> QED
    BY <1>1, <2>1 DEF FreshInv, InstallPcs, Recorded
<1>2. ASSUME op'.pc \in {"restore", "forget"} PROVE FreshInv'
  BY <1>2 DEF FreshInv, InstallPcs
<1>3. CASE StartUninstall
  BY <1>1, <1>3, StartUninstallIs
<1>4. CASE Deregister
  BY <1>2, <1>4, DeregisterIs
<1>5. CASE DeregisterFails
  BY <1>1, <1>5 DEF DeregisterFails, Doing, NoRunNow
<1>6. ASSUME NEW f \in Files, RestoreFile(f) PROVE FreshInv'
  BY <1>2, <1>6, RestoreFileIs
<1>7. CASE RemoveEntries
  BY <1>2, <1>7, RemoveEntriesIs
<1>8. CASE RestoreFails
  BY <1>8 DEF RestoreFails
<1>9. CASE ForgetInstall
  BY <1>9, ForgetInstallIs DEF FreshInv, InstallPcs
<1> QED
  BY <1>3, <1>4, <1>5, <1>6, <1>7, <1>8, <1>9 DEF UninstallStep

LEMMA FreshStep == ASSUME InstallTypes, FreshInv, [InstallNext]_installVars PROVE FreshInv'
<1> SUFFICES ASSUME scar' \subseteq {"install"} PROVE FreshInv'
  BY DEF FreshInv
<1>1. scar \subseteq {"install"}
  BY ScarGrows
<1>2. CASE UNCHANGED installVars
  <2>1. UNCHANGED <<op, man, touched, blind>> /\ Doc' = Doc
    BY <1>2 DEF installVars, Doc
  <2> QED
    BY <1>1, <2>1 DEF FreshInv, Recorded
<1>3. CASE KillRun
  <2>1. op'.pc = "idle" /\ UNCHANGED <<man, touched, blind>>
        /\ (op.pc \in UninstallPcs => "uninstall" \in scar')
    BY <1>3 DEF KillRun, NoRunNow, UninstallPcs
  <2>2. op.pc \in InstallPcs
    BY <1>3, <2>1, OpKinds DEF KillRun, Doing
  <2> QED
    BY <1>1, <2>1, <2>2, FreshGoesOn
<1>4. ASSUME touched' = TRUE, UNCHANGED <<op, man>>, blind' = "none" => blind = "none" PROVE FreshInv'
  BY <1>1, <1>4 DEF FreshInv
<1>5. ASSUME NEW d, DocEdit(d) PROVE FreshInv'
  BY <1>4, <1>5 DEF DocEdit
<1>6. ASSUME NEW name \in {"old", "new"}, Deregisters(name) PROVE FreshInv'
  BY <1>4, <1>6, DeregistersIs
<1>7. CASE Operator
  BY <1>5, <1>6, <1>7, OperatorIs
<1> QED
  BY <1>1, <1>2, <1>3, <1>7, FreshInstallStep, FreshUninstallStep DEF InstallNext

-----------------------------------------------------------------------------
(* The operator's part is kept.                                            *)

LEMMA ListsSelf ==
  ASSUME NEW s \in Seq(Entry), \A i \in DOMAIN s : s[i].by = "op" PROVE Lists(s, s)
<1> DEFINE at == [i \in DOMAIN s |-> i]
<1>1. Mine(s) = DOMAIN s
  BY DEF Mine
<1>2. at \in [DOMAIN s -> Mine(s)] /\ \A i \in DOMAIN s : at[i] = i
  BY <1>1
<1> HIDE DEF at
<1> QED
  BY <1>1, <1>2 DEF Lists

\* What is wired does not count as theirs.
LEMMA WiredLists ==
  ASSUME NEW d \in Settings, op.bin \in Bins, NEW e \in Events, NEW t
  PROVE  Lists(t, Entries(d, e)) <=> Lists(t, Entries(Wired(d), e))
<1> DEFINE s == Entries(d, e)
           r == Entries(Wired(d), e)
           new == Ours(op.bin)
<1>1. s \in Seq(Entry) /\ new \in Entry /\ new.by # "op"
  BY EntriesTyped, Apart DEF Ours
<1>2. r = IF e \in op.wire THEN Append(s, new) ELSE s
  BY WiredDoc
<1> HIDE DEF s, r, new
<1>3. Lists(t, s) <=> Lists(t, r)
  BY <1>1, <1>2, ListsAppendOther
<1> QED
  BY <1>3 DEF s, r

LEMMA WiredKeeps ==
  ASSUME NEW d \in Settings, op.bin \in Bins
  PROVE  Keeps(d) <=> Keeps(Wired(d))
BY WiredLists, WiredDoc DEF Keeps

LEMMA WiredSame ==
  ASSUME op'.wire = op.wire, op'.bin = op.bin, op'.doc = op.doc
  PROVE  Wired(op.doc)' = Wired(op.doc)
BY DEF Wired

LEMMA SameTrans == ASSUME NEW a, NEW b, NEW c, Same(a, b), Same(b, c) PROVE Same(a, c)
BY DEF Same

LEMMA GivesSame ==
  ASSUME NEW a, NEW b, Gives(a, b), Recorded("line")' = Recorded("line")
  PROVE  Gives(a, b)'
BY DEF Gives

LEMMA TheirManSame == ASSUME TheirMan, UNCHANGED man PROVE TheirMan'
<1>1. Recorded("line")' = Recorded("line")
  BY DEF Recorded
<1> QED
  BY <1>1, GivesSame DEF TheirMan

\* Between two steps that change nothing of theirs.
LEMMA TheirsRest ==
  ASSUME TheirsKept, TheirLines, UNCHANGED man,
         theirs'.hooks = theirs.hooks, theirs'.line = theirs.line, theirs'.own = theirs.own,
         theirs'.reg \subseteq reg',
         Same(Doc', Doc), files'["delegate"] = files["delegate"]
  PROVE  TheirsKept' /\ TheirLines'
<1>1. /\ Doc'.line = Doc.line /\ Doc'.own = Doc.own
      /\ \A e \in Events : Entries(Doc', e) = Entries(Doc, e)
  BY SameDoc DEF Same
<1>2. OpLine' = OpLine
  BY <1>1 DEF OpLine
<1>3. TheirsKept'
  BY <1>1, <1>2 DEF TheirsKept
<1>4. \A w : Recorded(w)' = Recorded(w)
  BY DEF Recorded
<1>5. TheirLines'
  BY <1>1, <1>4 DEF TheirLines
<1> QED
  BY <1>3, <1>5

LEMMA TheirInit == ASSUME InstallInit PROVE TheirInv
<1>1. /\ InstallTypes /\ op.pc = "idle" /\ DOMAIN man.files = {}
      /\ \A s \in man.steps : s.at \in {"old", "new"}
      /\ RecordedIn(Doc, {}) /\ OpLine = Doc.line
      /\ \A e \in Events : theirs.hooks[e] = Entries(Doc, e)
      /\ theirs.line = Doc.line /\ theirs.own = Doc.own /\ theirs.reg = reg \ Names(man.steps)
  BY InitIs
<1>2. /\ \A e \in Events : OursIn(Entries(Doc, e)) = {} /\ Entries(Doc, e) \in Seq(Entry)
      /\ Doc.line.by # "us"
  BY <1>1, NoneOfOurs, DocNow
<1>3. ASSUME NEW e \in Events PROVE Lists(theirs.hooks[e], Entries(Doc, e))
  <2> DEFINE s == Entries(Doc, e)
  <2>1. s \in Seq(Entry) /\ OursIn(s) = {} /\ theirs.hooks[e] = s
    BY <1>1, <1>2
  <2> HIDE DEF s
  <2>2. \A i \in DOMAIN s : s[i] \in Entry
    BY <2>1
  <2>3. \A i \in DOMAIN s : s[i].by = "op"
    BY <2>1, <2>2 DEF OursIn, Entry
  <2>4. Lists(theirs.hooks[e], s)
    BY <2>1, <2>3, ListsSelf
  <2> QED
    BY <2>4 DEF s
<1>4. TheirsKept
  BY <1>1, <1>3 DEF TheirsKept
<1>5. TheirLines
  BY <1>1, <1>2 DEF TheirLines, Recorded
<1>6. TheirMan
  BY <1>1 DEF TheirMan
<1> QED
  BY <1>1, <1>4, <1>5, <1>6 DEF TheirInv, InstallPcs, UninstallPcs

\* An install that has not written settings.json, or goes on after it did.
LEMMA TheirGoesOn ==
  ASSUME TheirMan, TheirsKept, TheirLines, TheirInstall, RegInv', UNCHANGED <<man, theirs>>,
         Same(Doc', Doc), files'["delegate"] = files["delegate"],
         op'.wire = op.wire, op'.bin = op.bin, op'.doc = op.doc,
         "settings" \in DOMAIN op'.before <=> "settings" \in DOMAIN op.before,
         op'.pc \in {"settings", "cli", "manifest"} => op.pc \in {"settings", "cli", "manifest"}
  PROVE  TheirMan' /\ TheirsKept' /\ TheirLines' /\ TheirInstall'
<1>1. TheirsKept' /\ TheirLines'
  BY TheirsRest DEF RegInv
<1>2. Doc'.line = Doc.line /\ Wired(op.doc)' = Wired(op.doc)
  BY WiredSame DEF Same
<1>3. "settings" \in DOMAIN op.before => Same(Doc', Wired(op.doc))
  BY SameTrans DEF TheirInstall
<1>4. Keeps(op.doc) => Keeps(op.doc)'
  BY DEF Keeps
<1>5. TheirInstall'
  BY <1>2, <1>3, <1>4 DEF TheirInstall, TheirLine
<1> QED
  BY <1>1, <1>5, TheirManSame

\* More than a registration is wired only by a first install.
LEMMA FirstWires ==
  ASSUME InstallTypes, FreshInv, InstallRun, blind = "none", scar \subseteq {"install"}
  PROVE  /\ op.wire # {"new"} <=> ~ man.there
         /\ ~ man.there => man.steps = {} /\ DOMAIN man.files = {} /\ op.doc.line.by # "us"
<1>1. op.pc \in InstallPcs
  BY DEF InstallRun
<1>2. /\ man.there => op.wire = {"new"}
      /\ ~ man.there => Events \subseteq op.wire /\ op.doc.line.by # "us"
  BY <1>1 DEF FreshInv
<1>3. Events # {} /\ "new" \notin Events
  BY InstallAssumption
<1> QED
  BY <1>2, <1>3 DEF InstallTypes, ManOK

LEMMA TheirStartInstall ==
  ASSUME InstallTypes, FreshInv', blind' = "none", scar' \subseteq {"install"}, RegInv',
         TheirMan, TheirsKept, TheirLines,
         NEW bin \in Bins, NEW cli \in BOOLEAN, StartInstall(bin, cli)
  PROVE  TheirMan' /\ TheirsKept' /\ TheirLines' /\ TheirInstall'
<1>1. /\ op'.pc \in InstallPcs /\ op'.doc = Doc /\ DOMAIN op'.before = {}
      /\ op'.pc \in {"tee", "settings", "cli"} /\ ("line" \in op'.wire <=> op'.pc = "tee")
  BY StartInstallIs DEF InstallPcs
<1>2. UNCHANGED <<files, man, theirs>> /\ Doc' = Doc
  BY DEF StartInstall, Doc
<1>3. TheirsKept' /\ TheirLines'
  BY <1>2, TheirsRest DEF RegInv, Same
<1>4. ~ man'.there => op'.doc.line.by # "us"
  BY <1>1 DEF FreshInv
<1>5. TheirInstall'
  BY <1>1, <1>2, <1>4 DEF TheirInstall
<1> QED
  BY <1>2, <1>3, <1>5, TheirManSame

LEMMA TheirWriteTee ==
  ASSUME InstallTypes, TheirMan, TheirsKept, TheirLines, TheirInstall, RegInv', WriteTee
  PROVE  TheirMan' /\ TheirsKept' /\ TheirLines' /\ TheirInstall'
<1>1. Wrote(op.bin, Script) /\ op.bin \in Bins /\ op'.pc = "delegate"
  BY WroteTee
<1>2. /\ files'["settings"] = files["settings"] /\ files'["delegate"] = files["delegate"]
      /\ op.bin # "settings"
  BY <1>1, FileNames DEF Wrote
<1>3. Same(Doc', Doc)
  BY <1>2 DEF Doc, Same
<1> QED
  BY <1>1, <1>2, <1>3, TheirGoesOn DEF Wrote

LEMMA TheirWriteDelegate ==
  ASSUME InstallTypes, FreshInv, blind = "none", scar \subseteq {"install"}, RegInv',
         TheirMan, TheirsKept, TheirLines, TheirInstall, WriteDelegate
  PROVE  TheirMan' /\ TheirsKept' /\ TheirLines' /\ TheirInstall'
<1>1. /\ Wrote("delegate", op.doc.line) /\ op.pc = "delegate" /\ "line" \in op.wire /\ InstallRun
      /\ op'.wire = op.wire /\ op'.bin = op.bin /\ op'.doc = op.doc /\ UNCHANGED <<man, theirs>>
  BY WroteDelegate DEF Wrote
<1>2. ~ man.there /\ man.steps = {} /\ "settings" \notin DOMAIN op.before
  BY <1>1, FirstWires DEF InstallRun
<1>3. Doc' = Doc /\ files'["delegate"] = op.doc.line /\ "settings" \notin DOMAIN op'.before
  BY <1>1, <1>2, FileNames DEF Wrote, Doc
<1>4. Doc.line.by # "us"
  BY <1>2 DEF TheirInstall
<1>5. OpLine' = OpLine
  BY <1>3, <1>4 DEF OpLine
<1>6. TheirsKept'
  BY <1>1, <1>3, <1>5 DEF TheirsKept, RegInv
<1>7. TheirLines'
  BY <1>1, <1>2 DEF TheirLines, Recorded
<1>8. TheirInstall'
  BY <1>1, <1>3, <1>4 DEF TheirInstall
<1> QED
  BY <1>1, <1>6, <1>7, <1>8, TheirManSame

LEMMA TheirWriteSettings ==
  ASSUME InstallTypes, FreshInv, RegInv, blind = "none", scar \subseteq {"install"}, RegInv',
         TheirMan, TheirsKept, TheirLines, TheirInstall, WriteSettings
  PROVE  TheirMan' /\ TheirsKept' /\ TheirLines' /\ TheirInstall'
<1>1. /\ Wrote("settings", Wired(op.doc)) /\ op.pc = "settings" /\ InstallRun
      /\ Doc' = Wired(op.doc) /\ op.doc = Doc /\ op.doc \in Settings /\ op.bin \in Bins
      /\ "settings" \notin DOMAIN op.before
      /\ op'.wire = op.wire /\ op'.bin = op.bin /\ op'.doc = op.doc /\ UNCHANGED <<man, theirs>>
  BY WroteSettings DEF Wrote
<1>2. ~ man.there /\ man.steps = {} /\ op.doc.line.by # "us"
  BY <1>1, FirstWires DEF InstallRun
<1>3. Keeps(op.doc) /\ TheirLine(op.doc.line)
  BY <1>1, <1>2 DEF TheirsKept, Keeps, OpLine, TheirLine
<1>4. Keeps(Wired(op.doc))
  BY <1>1, <1>3, WiredKeeps
<1>5. files'["delegate"] = files["delegate"]
  BY <1>1, FileNames DEF Wrote
<1>6. "line" \in op.wire => files["delegate"] = op.doc.line
  BY <1>1 DEF TheirInstall
<1>7. Wired(op.doc).line = IF "line" \in op.wire THEN Ours(op.bin) ELSE op.doc.line
  BY <1>1, WiredDoc
<1>8. op.doc.line # Missing /\ Ours(op.bin).by = "us"
  BY <1>1, Apart DEF Settings, Ours
<1>9. OpLine' = theirs.line
  BY <1>1, <1>3, <1>5, <1>6, <1>7, <1>8 DEF OpLine, TheirLine
<1>10. TheirsKept'
  BY <1>1, <1>4, <1>9 DEF TheirsKept, Keeps, RegInv
<1>11. TheirLines'
  BY <1>1, <1>2 DEF TheirLines, Recorded
<1>12. Wired(op.doc)' = Wired(op.doc) /\ (Keeps(op.doc) => Keeps(op.doc)')
  BY <1>1, WiredSame DEF Keeps
<1>13. TheirInstall'
  BY <1>1, <1>3, <1>5, <1>6, <1>12 DEF TheirInstall, TheirLine, Same, Wrote
<1> QED
  BY <1>1, <1>10, <1>11, <1>13, TheirManSame

LEMMA TheirSaveManifest ==
  ASSUME InstallTypes, FreshInv, blind = "none", scar \subseteq {"install"}, RegInv',
         TheirMan, TheirsKept, TheirLines, TheirInstall, SaveManifest
  PROVE  TheirMan' /\ TheirsKept' /\ TheirLines'
<1>1. /\ op.pc = "manifest" /\ InstallRun /\ man'.steps = NewSteps \cup man.steps
      /\ DOMAIN man'.files = DOMAIN op.before \cup DOMAIN man.files
      /\ \A f \in DOMAIN op.before : man'.files[f] = FileRec(f) /\ files[f] # Missing
      /\ \A f \in DOMAIN man.files \ DOMAIN op.before : man'.files[f] = man.files[f]
      /\ UNCHANGED <<files, theirs, reg>>
  BY SaveManifestIs DEF SaveManifest
<1>2. Doc' = Doc /\ OpLine' = OpLine
  BY <1>1 DEF Doc, OpLine
<1>3. TheirsKept'
  BY <1>1, <1>2 DEF TheirsKept
<1>4. CASE op.wire = {"new"}
  <2>1. man.there /\ DOMAIN op.before = {}
    BY <1>1, <1>4, FirstWires DEF InstallRun
  <2>2. \A s \in NewSteps : s.at # "line"
    BY <1>4, NewStepsAre
  <2>3. Recorded("line")' = Recorded("line")
    BY <1>1, <2>2 DEF Recorded
  <2>4. TheirLines'
    BY <1>1, <1>2, <2>1, <2>3 DEF TheirLines
  <2>5. TheirMan'
    BY <1>1, <2>1, <2>3, GivesSame DEF TheirMan
  <2> QED
    BY <1>3, <2>4, <2>5
<1>5. CASE op.wire # {"new"}
  <2>1. /\ ~ man.there /\ man.steps = {} /\ DOMAIN man.files = {} /\ op.doc.line.by # "us"
        /\ "settings" \in DOMAIN op.before /\ op.before["settings"] = op.loaded
        /\ op.doc = AsDoc(op.loaded) /\ op.doc \in Settings /\ op.bin \in Bins
    BY <1>1, <1>5, FirstWires, DocTyped DEF InstallRun
  <2>2. Same(Doc, Wired(op.doc)) /\ ("line" \in op.wire => files["delegate"] = op.doc.line)
    BY <1>1, <2>1 DEF TheirInstall
  <2>3. /\ Doc.line = IF "line" \in op.wire THEN Ours(op.bin) ELSE op.doc.line
        /\ Doc.own = op.doc.own /\ Ours(op.bin).by = "us"
    BY <2>1, <2>2, WiredDoc DEF Same, Ours
  <2>4. \A e \in Events : \A t : Lists(t, Entries(Doc, e)) <=> Lists(t, Entries(op.doc, e))
    BY <2>1, <2>2, SameDoc, WiredLists
  <2>5. \A s \in man'.steps : s.at = "line" => s.prior = op.doc.line /\ "line" \in op.wire
    BY <1>1, <2>1, NewStepsAre
  <2>6. "line" \in op.wire => \E s \in man'.steps : s.at = "line"
    BY <1>1, NewStepsAre
  <2>7. TheirLines'
    BY <1>1, <1>2, <2>1, <2>2, <2>3, <2>5, <2>6 DEF TheirLines, Recorded
  <2>8. FileRec("settings") =
          [before |-> op.loaded, created |-> op.loaded = Missing, after |-> files["settings"]]
    BY <2>1 DEF FileRec, Hashed, FromDisk
  <2>9. /\ man'.files["settings"].after = files["settings"]
        /\ man'.files["settings"].before = op.loaded /\ files["settings"] # Missing
    BY <1>1, <2>1, <2>8
  <2>10. files["settings"] = Doc
    BY <2>9 DEF Doc, AsDoc
  <2>11. \A s \in Recorded("line")' : s.prior = op.doc.line
    BY <2>5 DEF Recorded
  <2>12. PICK a, b : a = Doc /\ b = op.doc
    OBVIOUS
  <2>13. Gives(a, b)'
    BY <2>1, <2>3, <2>4, <2>11, <2>12 DEF Gives
  <2>14. man'.files["settings"].after = a /\ AsDoc(man'.files["settings"].before) = b
    BY <2>1, <2>9, <2>10, <2>12
  <2>15. TheirMan'
    BY <2>13, <2>14 DEF TheirMan
  <2> QED
    BY <1>3, <2>7, <2>15
<1> QED
  BY <1>4, <1>5

\* What was written is put back, settings.json among it.
LEMMA TheirRollBack ==
  ASSUME InstallTypes, FreshInv, blind = "none", scar \subseteq {"install"}, RegInv',
         TheirMan, TheirsKept, TheirLines, TheirInstall, InstallRun,
         NEW fs, fs \subseteq DOMAIN op.before, files' = PutBack(fs),
         "settings" \in DOMAIN op.before => "settings" \in fs, UNCHANGED <<man, theirs>>
  PROVE  TheirMan' /\ TheirsKept' /\ TheirLines'
<1>1. /\ \A f \in fs : files'[f] = op.before[f]
      /\ \A f \in Files \ fs : f # "settings" => files'[f] = files[f]
      /\ "settings" \notin fs => Same(Doc', Doc)
  BY PutBackIs
<1>2. op.wire # {"new"} => ~ man.there /\ man.steps = {}
  BY FirstWires
<1>3. CASE "settings" \in DOMAIN op.before
  <2>1. Doc' = op.doc
    BY <1>1, <1>3 DEF InstallRun, Doc
  <2>2. Keeps(op.doc) /\ TheirLine(op.doc.line)
    BY <1>3 DEF TheirInstall
  <2>3. TheirsKept'
    BY <2>1, <2>2 DEF TheirsKept, Keeps, TheirLine, OpLine, RegInv
  <2>4. ~ man.there /\ man.steps = {}
    BY <1>2, <1>3 DEF InstallRun
  <2>5. TheirLines'
    BY <2>4 DEF TheirLines, Recorded
  <2> QED
    BY <2>3, <2>5, TheirManSame
<1>4. CASE "settings" \notin DOMAIN op.before
  <2>1. Same(Doc', Doc)
    BY <1>1, <1>4
  <2>2. CASE "delegate" \in DOMAIN op.before
    <3>1. ~ man.there /\ man.steps = {}
      BY <1>2, <2>2 DEF InstallRun
    <3>2. Doc.line.by # "us"
      BY <1>4, <3>1 DEF TheirInstall
    <3>3. Doc'.line = Doc.line /\ Doc'.own = Doc.own
      BY <2>1 DEF Same
    <3>4. \A e \in Events : Entries(Doc', e) = Entries(Doc, e)
      BY <2>1, SameDoc
    <3>5. OpLine' = OpLine
      BY <3>2, <3>3 DEF OpLine
    <3>6. TheirsKept'
      BY <3>3, <3>4, <3>5 DEF TheirsKept, RegInv
    <3>7. TheirLines'
      BY <3>1 DEF TheirLines, Recorded
    <3> QED
      BY <3>6, <3>7, TheirManSame
  <2>3. CASE "delegate" \notin DOMAIN op.before
    <3>1. files'["delegate"] = files["delegate"] /\ theirs'.reg \subseteq reg'
      BY <1>1, <2>3, FileNames DEF RegInv
    <3> QED
      BY <2>1, <3>1, TheirsRest, TheirManSame
  <2> QED
    BY <2>2, <2>3
<1> QED
  BY <1>3, <1>4

\* The documents an uninstall leaves, or goes back to, hold all of theirs.
LEMMA TheirStartUninstall ==
  ASSUME InstallTypes, RegInv, RegInv', TheirMan, TheirsKept, TheirLines, StartUninstall
  PROVE  TheirMan' /\ TheirsKept' /\ TheirLines' /\ TheirUninstall'
<1>1. /\ man.there /\ op'.pc = "deregister" /\ op'.doc = Doc
      /\ op'.whole = {f \in DOMAIN man.files : ByteOK(f)}
      /\ op'.drop = {s \in man.steps : Undo(Doc, s) \in {"remove", "edited"}}
      /\ \A s \in man.steps : Undo(Doc, s) # "drift"
      /\ UNCHANGED <<files, man, theirs>>
  BY StartUninstallIs
<1>2. Doc \in Settings /\ Doc # Missing /\ Doc' = Doc
      /\ \A l \in Line : l # Missing
  BY <1>1, DocNow, Apart DEF Doc
<1>3. Keeps(Doc) /\ OpLine = theirs.line /\ theirs.line.by # "us"
  BY DEF TheirsKept, Keeps, RegInv
<1>4. ASSUME NEW s \in man.steps, s.at = "line"
      PROVE  /\ Undo(Doc, s) = "remove" => Doc.line.by = "us"
             /\ Undo(Doc, s) # "remove" => Doc.line.by # "us"
  <2>1. s.at \notin Events
    BY <1>4, InstallAssumption
  <2>2. /\ Undo(Doc, s) \in {"remove", "not wired"}
        /\ Undo(Doc, s) = "remove" => InLine(Doc, s.bin)
        /\ Undo(Doc, s) = "not wired" => Doc.line = NoLine
    BY <1>1, <1>4, <2>1, UndoOther
  <2> QED
    BY <2>2, Apart DEF InLine
<1>5. ASSUME NEW s \in op'.drop, s.at = "line" PROVE TheirLine(s.prior)'
  <2>1. s \in man.steps /\ s \in Recorded("line") /\ Undo(Doc, s) \in {"remove", "edited"}
    BY <1>1, <1>5 DEF Recorded
  <2>2. Undo(Doc, s) = "remove"
    BY <1>5, <2>1, UndoOther, InstallAssumption
  <2>3. Doc.line.by = "us" /\ files["delegate"] = s.prior /\ s.prior \in Line
    BY <1>4, <1>5, <2>1, <2>2 DEF TheirLines, InstallTypes, ManOK, Steps
  <2>4. s.prior = theirs.line
    BY <1>2, <1>3, <2>3 DEF OpLine
  <2> QED
    BY <1>1, <1>3, <2>4 DEF TheirLine
<1>6. ASSUME \A s \in op'.drop : s.at # "line" PROVE TheirLine(Doc.line)
  <2>1. Doc.line.by # "us"
    <3> SUFFICES ASSUME Doc.line.by = "us" PROVE FALSE
      OBVIOUS
    <3>1. PICK s \in man.steps : s.at = "line"
      BY <1>1 DEF TheirLines, Recorded
    <3>2. Undo(Doc, s) = "remove"
      BY <1>4, <3>1
    <3> QED
      BY <1>1, <1>6, <3>1, <3>2
  <2> QED
    BY <1>3, <2>1 DEF TheirLine, OpLine
<1>7. ASSUME "settings" \in op'.whole
      PROVE  LET before == AsDoc(man.files["settings"].before)
             IN  Keeps(before) /\ TheirLine(before.line)
  <2> DEFINE after == man.files["settings"].after
             before == AsDoc(man.files["settings"].before)
  <2>1. "settings" \in DOMAIN man.files /\ files["settings"] = after
    BY <1>1, <1>7 DEF ByteOK
  <2>2. IsRec(man.files["settings"], "settings")
    BY <2>1 DEF InstallTypes, ManOK
  <2>3. Doc = after
    BY <2>1, <2>2 DEF IsRec, Doc, AsDoc
  <2>4. Gives(after, before)
    BY <2>1 DEF TheirMan
  <2> HIDE DEF after, before
  <2>5. \A e \in Events : theirs.hooks[e] \in Seq(Entry)
    BY DEF InstallTypes, TheirTypes
  <2>6. Keeps(before)
    BY <1>3, <2>3, <2>4, <2>5 DEF Keeps, Gives
  <2>7. TheirLine(before.line)
    <3>1. CASE Doc.line.by = "us"
      <4>1. PICK s \in Recorded("line") : TRUE
        BY <1>1, <3>1 DEF TheirLines
      <4>2. s.prior = before.line /\ files["delegate"] = s.prior /\ s.prior \in Line
        BY <2>3, <2>4, <3>1, <4>1 DEF Gives, TheirLines, Recorded, InstallTypes, ManOK, Steps
      <4>3. before.line = theirs.line
        BY <1>2, <1>3, <3>1, <4>2 DEF OpLine
      <4> QED
        BY <1>3, <4>3 DEF TheirLine
    <3>2. CASE Doc.line.by # "us"
      BY <1>3, <2>3, <2>4, <3>2 DEF Gives, OpLine, TheirLine
    <3> QED
      BY <3>1, <3>2
  <2> QED
    BY <2>6, <2>7 DEF before
<1>8. /\ theirs' = theirs /\ man' = man
      /\ \A d : (Keeps(d) => Keeps(d)') /\ \A l : TheirLine(l) => TheirLine(l)'
  BY <1>1 DEF Keeps, TheirLine
<1>9. TheirUninstall'
  <2>1. Same(Doc, Doc)
    BY DEF Same
  <2>2. op'.doc # Missing /\ op'.pc # "forget" /\ Same(Doc', op'.doc)
    BY <1>1, <1>2, <2>1
  <2>3. Keeps(op.doc)'
    BY <1>1, <1>3 DEF Keeps
  <2>4. (\A s \in op.drop : s.at # "line")' => TheirLine(op.doc.line)'
    BY <1>1, <1>6 DEF TheirLine
  <2>5. "settings" \in op'.whole =>
          (LET before == AsDoc(man.files["settings"].before)
           IN  Keeps(before) /\ TheirLine(before.line))'
    BY <1>1, <1>7 DEF Keeps, TheirLine
  <2>6. \A s \in op'.drop : s.at = "line" => TheirLine(s.prior)'
    BY <1>5
  <2> QED
    BY <2>2, <2>3, <2>4, <2>5, <2>6 DEF TheirUninstall
<1>10. TheirsKept' /\ TheirLines'
  <2>1. Same(Doc', Doc) /\ files'["delegate"] = files["delegate"]
    BY <1>1, <1>2 DEF Same
  <2> QED
    BY <1>1, <2>1, TheirsRest DEF RegInv
<1> QED
  BY <1>1, <1>9, <1>10, TheirManSame

LEMMA TheirDeregister ==
  ASSUME InstallTypes, TheirMan, TheirUninstall, Deregister
  PROVE  TheirMan' /\ TheirUninstall'
<1>1. /\ op.pc = "deregister" /\ op'.pc = "restore" /\ op'.doc = op.doc /\ op'.whole = op.whole
      /\ op'.drop = op.drop /\ UNCHANGED <<man, theirs>>
  BY DeregisterIs
<1>2. Same(Doc', Doc)
  BY DeregisterLeaves
<1>3. op.doc # Missing => Same(Doc', op.doc)
  BY <1>1, <1>2, SameTrans DEF TheirUninstall
<1>4. op.doc = Missing => Keeps(Doc') /\ TheirLine(Doc'.line)
  BY <1>2, SameDoc DEF TheirUninstall, Same
<1>5. TheirUninstall'
  BY <1>1, <1>3, <1>4 DEF TheirUninstall, Keeps, TheirLine
<1> QED
  BY <1>1, <1>5, TheirManSame

LEMMA TheirRestoreFile ==
  ASSUME InstallTypes, TheirMan, TheirUninstall, NEW f \in Files, RestoreFile(f)
  PROVE  TheirMan' /\ TheirUninstall'
<1>1. /\ op.pc = "restore" /\ f \in op.whole
      /\ op'.pc = "restore" /\ op'.drop = op.drop /\ op'.whole = op.whole \ {f}
      /\ op'.doc = IF f = "settings" THEN Missing ELSE op.doc
      /\ UNCHANGED <<man, theirs>>
  BY RestoreFileIs
<1>2. CASE f = "settings"
  <2>1. Doc' = AsDoc(man.files["settings"].before)
    BY <1>2, RestoreLeaves
  <2>2. Keeps(Doc') /\ TheirLine(Doc'.line)
    BY <1>1, <1>2, <2>1 DEF TheirUninstall
  <2>3. TheirUninstall'
    BY <1>1, <1>2, <2>2 DEF TheirUninstall, Keeps, TheirLine
  <2> QED
    BY <1>1, <2>3, TheirManSame
<1>3. CASE f # "settings"
  <2>1. Doc' = Doc
    BY <1>3, RestoreLeaves
  <2>2. TheirUninstall'
    BY <1>1, <1>3, <2>1 DEF TheirUninstall, Keeps, TheirLine
  <2> QED
    BY <1>1, <2>2, TheirManSame
<1> QED
  BY <1>2, <1>3

\* Only entries of ours are taken out, and the line they replaced is put back.
LEMMA UnwiredKeeps ==
  ASSUME InstallTypes, TheirUninstall, UninstallRun, op.pc # "forget", op.doc # Missing
  PROVE  Keeps(Unwired(op.doc)) /\ TheirLine(Unwired(op.doc).line)
<1> DEFINE d == op.doc
           u == Unwired(op.doc)
<1>1. d \in Settings /\ op.drop \subseteq Steps /\ Located(d, op.drop)
  BY DEF UninstallRun, Content, InstallTypes, ManOK
<1>2. /\ u.own = d.own
      /\ IF \A s \in op.drop : s.at # "line" THEN u.line = d.line
         ELSE \E s \in op.drop : s.at = "line" /\ u.line = s.prior
      /\ \A e \in Events :
              IF \A s \in op.drop : s.at # e THEN Entries(u, e) = Entries(d, e)
              ELSE \E s \in op.drop, i \in DOMAIN Entries(d, e) :
                     /\ s.at = e /\ i \in Found(d, e, s.bin)
                     /\ Entries(u, e) = RemoveAt(Entries(d, e), i)
  BY <1>1, UnwiredDoc
<1>3. /\ Keeps(d) /\ \A s \in op.drop : s.at = "line" => TheirLine(s.prior)
      /\ (\A s \in op.drop : s.at # "line") => TheirLine(d.line)
  BY DEF TheirUninstall
<1> HIDE DEF d, u
<1>4. TheirLine(u.line)
  BY <1>2, <1>3
<1>5. ASSUME NEW e \in Events PROVE Lists(theirs.hooks[e], Entries(u, e))
  <2>1. Lists(theirs.hooks[e], Entries(d, e))
    BY <1>3 DEF Keeps
  <2>2. CASE \A s \in op.drop : s.at # e
    BY <1>2, <2>1, <2>2
  <2>3. CASE ~ \A s \in op.drop : s.at # e
    <3>1. PICK s \in op.drop, i \in DOMAIN Entries(d, e) :
            /\ s.at = e /\ i \in Found(d, e, s.bin)
            /\ Entries(u, e) = RemoveAt(Entries(d, e), i)
      BY <1>2, <2>3
    <3>2. Entries(d, e) \in Seq(Entry) /\ theirs.hooks[e] \in Seq(Entry)
      BY <1>1, EntriesTyped DEF InstallTypes, TheirTypes
    <3>3. Entries(d, e)[i].by # "op"
      BY <3>1 DEF Found
    <3> QED
      BY <2>1, <3>1, <3>2, <3>3, ListsRemoveOther
  <2> QED
    BY <2>2, <2>3
<1>6. Keeps(u)
  BY <1>2, <1>3, <1>5 DEF Keeps
<1> QED
  BY <1>4, <1>6 DEF u

LEMMA TheirRemoveEntries ==
  ASSUME InstallTypes, TheirMan, TheirUninstall, RemoveEntries
  PROVE  TheirMan' /\ TheirUninstall'
<1> DEFINE writes == op.doc # Missing /\ \E s \in op.drop : s.at \in Events \cup {"line"}
<1>1. /\ op.pc = "restore" /\ UninstallRun /\ op'.pc = "forget" /\ op'.whole = {}
      /\ ~ writes => files' = files
      /\ writes => Doc' = Unwired(op.doc)
      /\ UNCHANGED <<man, theirs>>
  BY RemoveEntriesIs
<1>2. Keeps(Doc') /\ TheirLine(Doc'.line)
  <2>1. CASE writes
    BY <1>1, <2>1, UnwiredKeeps
  <2>2. CASE ~ writes
    <3>1. Doc' = Doc
      BY <1>1, <2>2 DEF Doc
    <3>2. CASE op.doc = Missing
      BY <3>1, <3>2 DEF TheirUninstall
    <3>3. CASE op.doc # Missing
      <4>1. Same(Doc, op.doc) /\ Keeps(op.doc) /\ TheirLine(op.doc.line)
        BY <1>1, <2>2, <3>3 DEF TheirUninstall
      <4> QED
        BY <3>1, <4>1, SameDoc DEF Same
    <3> QED
      BY <3>2, <3>3
  <2> QED
    BY <2>1, <2>2
<1>3. TheirUninstall'
  BY <1>1, <1>2 DEF TheirUninstall, Keeps, TheirLine
<1> QED
  BY <1>1, <1>3, TheirManSame

LEMMA TheirForgetInstall ==
  ASSUME InstallTypes, RegInv', TheirUninstall, ForgetInstall
  PROVE  TheirMan' /\ TheirsKept' /\ TheirLines'
<1>1. /\ op.pc = "forget" /\ man'.there = FALSE /\ man'.steps = {} /\ DOMAIN man'.files = {}
      /\ UNCHANGED <<files, theirs>>
  BY ForgetInstallIs
<1>2. Keeps(Doc) /\ TheirLine(Doc.line)
  BY <1>1 DEF TheirUninstall
<1>3. Doc' = Doc
  BY <1>1 DEF Doc
<1>4. TheirsKept'
  BY <1>1, <1>2, <1>3 DEF TheirsKept, Keeps, TheirLine, OpLine, RegInv
<1> QED
  BY <1>1, <1>4 DEF TheirMan, TheirLines, Recorded

LEMMA BlindStays ==
  ASSUME [InstallNext]_installVars, blind' = "none" PROVE blind = "none"
<1>1. ASSUME NEW bin \in Bins, NEW cli \in BOOLEAN, StartInstall(bin, cli) PROVE blind = "none"
  <2>1. blind # "none" => blind' = blind
    BY <1>1 DEF StartInstall
  <2> QED
    BY <2>1
<1>2. CASE InstallStep
  BY <1>1, <1>2 DEF InstallStep, WriteTee, WriteDelegate, WriteSettings, SettingsMoved, Register,
     SaveManifest, InstallFails, RollBack, RollBackStrands
<1>3. CASE UninstallStep
  BY <1>3 DEF UninstallStep, StartUninstall, Deregister, DeregisterFails, RestoreFile,
     RemoveEntries, RestoreFails, ForgetInstall
<1>4. CASE Operator
  BY <1>4 DEF Operator, SetsOption, SetsLine, AddsHook, RemovesOurs, Retunes, Deregisters, Edited
<1> QED
  BY <1>2, <1>3, <1>4 DEF InstallNext, KillRun, installVars

\* An edit between runs, or before a run has written settings.json, is theirs.
LEMMA TheirDocEdit ==
  ASSUME InstallTypes, TheirInv, RegInv', blind = "none", blind' = "none", scar \subseteq {"install"},
         NEW d, DocEdit(d)
  PROVE  TheirInv'
<1>1. /\ Doc' = d /\ \A f \in Files \ {"settings"} : files'[f] = files[f]
      /\ UNCHANGED <<man, op, reg, scar>> /\ ~ Escapes
  BY DocEditIs DEF DocEdit
<1>2. op.pc \notin UninstallPcs /\ (op.pc \in InstallPcs => "settings" \notin DOMAIN op.before)
  BY <1>1, OpKinds DEF Escapes, UninstallPcs, InstallRun
<1>3. op.pc = "idle" \/ op.pc \in InstallPcs
  BY <1>2, OpKinds
<1>4. TheirMan /\ TheirsKept /\ TheirLines /\ (op.pc \in InstallPcs => TheirInstall)
  BY <1>3 DEF TheirInv
<1>5. files'["delegate"] = files["delegate"]
  BY <1>1, FileNames
<1>6. \/ d.line = Doc.line /\ theirs'.line = theirs.line
      \/ d.line = theirs'.line /\ d.line.by = "op"
  BY DEF DocEdit
<1>7. OpLine' = theirs'.line
  BY <1>1, <1>4, <1>5, <1>6 DEF OpLine, TheirsKept
<1>8. TheirsKept'
  BY <1>1, <1>4, <1>7 DEF TheirsKept, DocEdit, RegInv
<1>9. TheirLines'
  BY <1>1, <1>4, <1>5, <1>6 DEF TheirLines, Recorded
<1>10. op.pc \in InstallPcs => TheirInstall'
  BY <1>1, <1>2, <1>4, <1>5, <1>6 DEF TheirInstall
<1> QED
  BY <1>1, <1>3, <1>4, <1>8, <1>9, <1>10, TheirManSame DEF TheirInv, InstallPcs, UninstallPcs

LEMMA TheirDeregisters ==
  ASSUME InstallTypes, TheirInv, RegInv', blind = "none", scar \subseteq {"install"},
         NEW name \in {"old", "new"}, Deregisters(name)
  PROVE  TheirInv'
<1>1. /\ theirs'.hooks = theirs.hooks /\ theirs'.line = theirs.line /\ theirs'.own = theirs.own
      /\ UNCHANGED <<man, op, blind, scar>>
  BY DeregistersIs
<1>2. Same(Doc', Doc) /\ files'["delegate"] = files["delegate"]
  BY DeregistersLeaves, FileNames
<1>3. ASSUME TheirsKept, TheirLines PROVE TheirsKept' /\ TheirLines'
  BY <1>1, <1>2, <1>3, TheirsRest DEF RegInv
<1>4. (\A d : Keeps(d) => Keeps(d)') /\ (\A l : TheirLine(l) => TheirLine(l)')
  BY <1>1 DEF Keeps, TheirLine
<1>5. ASSUME op.pc \in InstallPcs, TheirInstall PROVE TheirInstall'
  <2>1. Doc'.line = Doc.line /\ Wired(op.doc)' = Wired(op.doc)
    BY <1>1, <1>2, WiredSame DEF Same
  <2>2. "settings" \in DOMAIN op.before => Same(Doc', Wired(op.doc))
    BY <1>2, <1>5, SameTrans DEF TheirInstall
  <2> QED
    BY <1>1, <1>2, <1>5, <2>1, <2>2 DEF TheirInstall, Keeps, TheirLine
<1>6. ASSUME TheirUninstall PROVE TheirUninstall'
  <2>1. op.doc # Missing /\ op.pc # "forget" => Same(Doc', op.doc)
    BY <1>2, <1>6, SameTrans DEF TheirUninstall
  <2>2. op.doc = Missing \/ op.pc = "forget" => Keeps(Doc') /\ TheirLine(Doc'.line)
    BY <1>2, <1>6, SameDoc DEF TheirUninstall, Same
  <2> QED
    BY <1>1, <1>6, <2>1, <2>2 DEF TheirUninstall, Keeps, TheirLine
<1> QED
  BY <1>1, <1>3, <1>5, <1>6, TheirManSame DEF TheirInv

LEMMA TheirInstallStep ==
  ASSUME InstallTypes, FreshInv, FreshInv', RegInv, RegInv', TheirInv, blind = "none",
         blind' = "none", scar \subseteq {"install"}, scar' \subseteq {"install"}, InstallStep
  PROVE  TheirInv'
<1>1. op.pc = "idle" => TheirMan /\ TheirsKept /\ TheirLines
  BY DEF TheirInv
<1>2. InstallRun => TheirMan /\ TheirsKept /\ TheirLines /\ TheirInstall
  BY DEF TheirInv, InstallRun
<1>3. ASSUME op'.pc \in InstallPcs, TheirMan' /\ TheirsKept' /\ TheirLines' /\ TheirInstall'
      PROVE  TheirInv'
  BY <1>3 DEF TheirInv, InstallPcs, UninstallPcs
<1>4. ASSUME op'.pc = "idle", TheirMan' /\ TheirsKept' /\ TheirLines' PROVE TheirInv'
  BY <1>4 DEF TheirInv, InstallPcs, UninstallPcs
<1>5. ASSUME NEW bin \in Bins, NEW cli \in BOOLEAN, StartInstall(bin, cli) PROVE TheirInv'
  <2>1. op.pc = "idle" /\ op'.pc \in InstallPcs
    BY <1>5, StartInstallIs DEF InstallPcs
  <2> QED
    BY <1>1, <1>3, <1>5, <2>1, TheirStartInstall
<1>6. CASE WriteTee
  <2>1. InstallRun /\ op'.pc \in InstallPcs
    BY <1>6, WroteTee DEF Wrote
  <2> QED
    BY <1>2, <1>3, <1>6, <2>1, TheirWriteTee
<1>7. CASE WriteDelegate
  <2>1. InstallRun /\ op'.pc \in InstallPcs
    BY <1>7, WroteDelegate DEF Wrote
  <2> QED
    BY <1>2, <1>3, <1>7, <2>1, TheirWriteDelegate
<1>8. CASE WriteSettings
  <2>1. InstallRun /\ op'.pc \in InstallPcs
    BY <1>8, WroteSettings DEF Wrote
  <2> QED
    BY <1>2, <1>3, <1>8, <2>1, TheirWriteSettings
<1>9. CASE SettingsMoved \/ InstallFails
  <2>1. InstallRun /\ op'.pc = "unroll"
    BY <1>9, UnrollIs
  <2>2. Same(Doc', Doc) /\ files'["delegate"] = files["delegate"]
    BY <1>9, UnrollIs DEF Doc, Same
  <2> QED
    BY <1>2, <1>3, <1>9, <2>1, <2>2, UnrollIs, TheirGoesOn DEF InstallPcs
<1>10. CASE Register
  <2>1. InstallRun /\ op.pc = "cli" /\ op'.pc = "manifest" /\ op'.bin = op.bin
        /\ op'.wire = op.wire /\ op'.doc = op.doc /\ op'.before = op.before
        /\ Same(Doc', Doc) /\ files'["delegate"] = files["delegate"] /\ UNCHANGED <<man, theirs>>
    BY <1>10, RegisterIs, RegisterLeaves, FileNames
  <2> QED
    BY <1>2, <1>3, <2>1, TheirGoesOn DEF InstallPcs
<1>11. CASE SaveManifest
  <2>1. InstallRun /\ op'.pc = "idle"
    BY <1>11, SaveManifestIs
  <2> QED
    BY <1>2, <1>4, <1>11, <2>1, TheirSaveManifest
<1>12. CASE RollBack
  <2>1. InstallRun /\ op'.pc = "idle" /\ UNCHANGED <<man, theirs>>
        /\ files' = PutBack(DOMAIN op.before)
    BY <1>12, RollBackIs DEF RollBack
  <2> QED
    BY <1>2, <1>4, <2>1, TheirRollBack
<1>13. CASE RollBackStrands
  <2>1. InstallRun /\ op'.pc = "idle" /\ UNCHANGED <<man, theirs>>
    BY <1>13, OpKinds DEF RollBackStrands, Doing, InstallPcs, NoRunNow
  <2>2. PICK stuck : /\ files' = PutBack(DOMAIN op.before \ stuck)
                     /\ "settings" \in stuck => "stranded" \in scar'
    BY <1>13 DEF RollBackStrands
  <2>3. "settings" \in DOMAIN op.before => "settings" \in DOMAIN op.before \ stuck
    BY <2>2
  <2>4. DOMAIN op.before \ stuck \subseteq DOMAIN op.before
    OBVIOUS
  <2> QED
    BY <1>2, <1>4, <2>1, <2>2, <2>3, <2>4, TheirRollBack
<1> QED
  BY <1>5, <1>6, <1>7, <1>8, <1>9, <1>10, <1>11, <1>12, <1>13 DEF InstallStep

LEMMA TheirUninstallStep ==
  ASSUME InstallTypes, RegInv, RegInv', TheirInv, blind = "none",
         scar \subseteq {"install"}, scar' \subseteq {"install"}, UninstallStep
  PROVE  TheirInv'
<1>1. UninstallRun => TheirMan /\ TheirUninstall
  BY DEF TheirInv, UninstallRun
<1>2. ASSUME op'.pc \in {"restore", "forget"}, TheirMan' /\ TheirUninstall' PROVE TheirInv'
  BY <1>2 DEF TheirInv, InstallPcs
<1>3. ASSUME op'.pc = "idle", TheirMan' /\ TheirsKept' /\ TheirLines' PROVE TheirInv'
  BY <1>3 DEF TheirInv, InstallPcs, UninstallPcs
<1>4. CASE StartUninstall
  <2>1. op.pc = "idle" /\ op'.pc = "deregister"
    BY <1>4, StartUninstallIs
  <2>2. TheirMan /\ TheirsKept /\ TheirLines
    BY <2>1 DEF TheirInv
  <2>3. TheirMan' /\ TheirsKept' /\ TheirLines' /\ TheirUninstall'
    BY <1>4, <2>2, TheirStartUninstall
  <2> QED
    BY <2>1, <2>3 DEF TheirInv, InstallPcs
<1>5. CASE Deregister
  <2>1. UninstallRun /\ op'.pc = "restore"
    BY <1>5, DeregisterIs
  <2> QED
    BY <1>1, <1>2, <1>5, <2>1, TheirDeregister
<1>6. CASE DeregisterFails
  <2>1. op.pc = "deregister" /\ op'.pc = "idle" /\ UNCHANGED <<files, man, reg, theirs>>
    BY <1>6 DEF DeregisterFails, Doing, NoRunNow
  <2>2. TheirMan /\ TheirsKept /\ TheirLines
    BY <2>1 DEF TheirInv
  <2>3. Same(Doc', Doc)
    BY <2>1 DEF Doc, Same
  <2> QED
    BY <1>3, <2>1, <2>2, <2>3, TheirsRest, TheirManSame DEF RegInv
<1>7. ASSUME NEW f \in Files, RestoreFile(f) PROVE TheirInv'
  <2>1. UninstallRun /\ op'.pc = "restore"
    BY <1>7, RestoreFileIs
  <2> QED
    BY <1>1, <1>2, <1>7, <2>1, TheirRestoreFile
<1>8. CASE RemoveEntries
  <2>1. UninstallRun /\ op'.pc = "forget"
    BY <1>8, RemoveEntriesIs
  <2> QED
    BY <1>1, <1>2, <1>8, <2>1, TheirRemoveEntries
<1>9. CASE RestoreFails
  BY <1>9 DEF RestoreFails
<1>10. CASE ForgetInstall
  <2>1. UninstallRun /\ op'.pc = "idle"
    BY <1>10, ForgetInstallIs
  <2> QED
    BY <1>1, <1>3, <1>10, <2>1, TheirForgetInstall
<1> QED
  BY <1>4, <1>5, <1>6, <1>7, <1>8, <1>9, <1>10 DEF UninstallStep

LEMMA TheirStep ==
  ASSUME InstallTypes, FreshInv, FreshInv', RegInv, RegInv', TheirInv, [InstallNext]_installVars
  PROVE  TheirInv'
<1> SUFFICES ASSUME blind' = "none", scar' \subseteq {"install"} PROVE TheirInv'
  BY DEF TheirInv
<1>1. blind = "none" /\ scar \subseteq {"install"}
  BY BlindStays, ScarGrows
<1>2. CASE UNCHANGED installVars
  <2>1. UNCHANGED <<files, man, reg, op, theirs>> /\ Doc' = Doc /\ OpLine' = OpLine
    BY <1>2 DEF installVars, Doc, OpLine
  <2>2. TheirsKept => TheirsKept'
    BY <2>1 DEF TheirsKept
  <2>3. TheirLines => TheirLines'
    BY <2>1 DEF TheirLines, Recorded
  <2>4. Wired(op.doc)' = Wired(op.doc)
    BY <2>1 DEF Wired
  <2>5. TheirInstall => TheirInstall'
    BY <2>1, <2>4 DEF TheirInstall, Keeps, TheirLine
  <2>6. TheirUninstall => TheirUninstall'
    BY <2>1 DEF TheirUninstall, Keeps, TheirLine
  <2> QED
    BY <1>1, <2>1, <2>2, <2>3, <2>5, <2>6, TheirManSame DEF TheirInv
<1>3. CASE KillRun
  <2>1. op'.pc = "idle" /\ UNCHANGED <<files, man, reg, theirs>>
        /\ (op.pc \in UninstallPcs => "uninstall" \in scar')
    BY <1>3 DEF KillRun, NoRunNow, UninstallPcs
  <2>2. op.pc \in InstallPcs
    BY <1>3, <2>1, OpKinds DEF KillRun, Doing
  <2>3. TheirMan /\ TheirsKept /\ TheirLines
    BY <1>1, <2>2 DEF TheirInv
  <2>4. Same(Doc', Doc)
    BY <2>1 DEF Doc, Same
  <2>5. TheirMan' /\ TheirsKept' /\ TheirLines'
    BY <2>1, <2>3, <2>4, TheirsRest, TheirManSame DEF RegInv
  <2> QED
    BY <2>1, <2>5 DEF TheirInv, InstallPcs, UninstallPcs
<1>4. CASE Operator
  BY <1>1, <1>4, OperatorIs, TheirDocEdit, TheirDeregisters
<1> QED
  BY <1>1, <1>2, <1>3, <1>4, TheirInstallStep, TheirUninstallStep DEF InstallNext

-----------------------------------------------------------------------------
(* The bytes come back.                                                    *)

LEMMA BytesInit == ASSUME InstallInit PROVE BytesInv
BY InitIs DEF BytesInv, InstallPcs, UninstallPcs

\* What BytesInv says of an installed host, and of a run that installs one.
BytesRec ==
  /\ Untuned(Doc) /\ "settings" \in DOMAIN man.files
  /\ \A f \in Files :
       IF f \in DOMAIN man.files
       THEN /\ files[f] = man.files[f].after /\ orig[f] = man.files[f].before
            /\ BackupUsable(man.files[f], f)
       ELSE files[f] = orig[f]
BytesRun ==
  /\ ~ man.there /\ Untuned(Doc)
  /\ \A f \in Files :
       IF f \in DOMAIN op.before
       THEN /\ orig[f] = op.before[f]
            /\ op.before[f] = Missing \/ bak[Base(f)] = op.before[f]
       ELSE files[f] = orig[f]
BytesUndo ==
  /\ "settings" \in op.whole \/ op.doc = Missing
  /\ \A f \in op.whole : orig[f] = man.files[f].before

LEMMA BytesIs ==
  BytesInv <=>
    (scar = {} /\ ~ touched =>
       /\ op.pc = "idle" /\ ~ man.there => files = orig
       /\ op.pc \in {"idle", "deregister"} /\ man.there => BytesRec
       /\ op.pc \in InstallPcs => BytesRun
       /\ op.pc = "deregister" => op.whole = DOMAIN man.files
       /\ op.pc \in UninstallPcs => BytesUndo
       /\ op.pc \in {"restore", "forget"} => \A f \in Files \ op.whole : files[f] = orig[f])
BY DEF BytesInv, BytesRec, BytesRun, BytesUndo

LEMMA NoneTuned == ASSUME NEW d, RecordedIn(d, {}) PROVE Untuned(d)
BY NoneOfOurs DEF Untuned

LEMMA BytesStartInstall ==
  ASSUME InstallTypes, OwnInv, FreshInv', scar = {}, scar' = {}, ~ touched',
         NEW bin \in Bins, NEW cli \in BOOLEAN, StartInstall(bin, cli)
  PROVE  BytesRun'
<1>1. op.pc = "idle" /\ op'.pc \in InstallPcs /\ DOMAIN op'.before = {}
  BY StartInstallIs DEF InstallPcs
<1>2. UNCHANGED <<files, man>> /\ Doc' = Doc /\ (~ man.there => orig' = files)
  BY DEF StartInstall, Doc
<1>3. ~ man.there
  BY <1>1, <1>2 DEF FreshInv
<1>4. RecordedIn(Doc, {})
  BY <1>1, <1>3 DEF OwnInv, OwnIdle, InstallTypes, ManOK
<1>5. Untuned(Doc)
  BY <1>4, NoneTuned
<1> QED
  BY <1>1, <1>2, <1>3, <1>5 DEF BytesRun

\* The first copy of a file is kept as it is written over.
LEMMA BytesWrote ==
  ASSUME InstallTypes, BytesRun, NEW f, NEW c, Wrote(f, c), f \notin DOMAIN op.before,
         f \in {op.bin, "delegate", "settings"}, Untuned(Doc')
  PROVE  BytesRun'
<1>1. /\ InstallRun /\ f \in Files /\ \A g \in Files \ {f} : files'[g] = files[g]
      /\ \A g \in Files : Base(g) # Base(f) => bak'[Base(g)] = bak[Base(g)]
      /\ files[f] # Missing /\ ~ FirstCopyKept(f) => bak'[Base(f)] = files[f]
      /\ files[f] = Missing => bak' = bak
      /\ DOMAIN op'.before = DOMAIN op.before \cup {f} /\ op'.before[f] = files[f]
      /\ \A g \in DOMAIN op.before \ {f} : op'.before[g] = op.before[g]
      /\ UNCHANGED <<man, orig>>
  BY DEF Wrote
<1>2. ~ man.there /\ ~ FirstCopyKept(f)
  BY DEF BytesRun, InstallTypes, ManOK, FirstCopyKept
<1>3. \A g \in DOMAIN op.before : g # f => Base(g) # Base(f)
  BY <1>1, FileNames DEF InstallRun
<1>4. ASSUME NEW g \in DOMAIN op'.before, g \in Files
      PROVE  /\ orig'[g] = op'.before[g]
             /\ op'.before[g] = Missing \/ bak'[Base(g)] = op'.before[g]
  <2>1. CASE g = f
    BY <1>1, <1>2, <2>1 DEF BytesRun
  <2>2. CASE g # f
    <3>1. g \in DOMAIN op.before /\ op'.before[g] = op.before[g] /\ Base(g) # Base(f)
      BY <1>1, <1>3, <1>4, <2>2
    <3> QED
      BY <1>1, <1>4, <3>1 DEF BytesRun
  <2> QED
    BY <2>1, <2>2
<1>5. ASSUME NEW g \in Files, g \notin DOMAIN op'.before PROVE files'[g] = orig'[g]
  BY <1>1, <1>5 DEF BytesRun
<1> QED
  BY <1>1, <1>2, <1>4, <1>5 DEF BytesRun

LEMMA WiredUntuned ==
  ASSUME NEW d \in Settings, op.bin \in Bins, Untuned(d) PROVE Untuned(Wired(d))
<1> DEFINE c == Wired(d)
           new == Ours(op.bin)
<1>1. \A e \in Events : Entries(c, e) = IF e \in op.wire THEN Append(Entries(d, e), new)
                                        ELSE Entries(d, e)
  BY WiredDoc
<1>2. new.as = "installed" /\ new \in Entry
  BY Apart DEF Ours
<1>3. \A e \in Events : Entries(d, e) \in Seq(Entry)
  BY EntriesTyped
<1> HIDE DEF c, new
<1>4. ASSUME NEW e \in Events PROVE \A i \in OursIn(Entries(c, e)) : Entries(c, e)[i].as = "installed"
  <2> DEFINE s == Entries(d, e)
  <2>1. s \in Seq(Entry) /\ \A i \in OursIn(s) : s[i].as = "installed"
    BY <1>3 DEF Untuned
  <2>2. Entries(c, e) = Append(s, new) \/ Entries(c, e) = s
    BY <1>1
  <2> HIDE DEF s
  <2>3. \A i \in OursIn(Append(s, new)) : Append(s, new)[i].as = "installed"
    BY <1>2, <2>1, Appended DEF OursIn
  <2> QED
    BY <2>1, <2>2, <2>3
<1> QED
  BY <1>4 DEF Untuned, c

\* A first install wires settings.json.
LEMMA BytesWires ==
  ASSUME InstallRun, FreshInv, scar = {}, BytesRun
  PROVE  /\ op.wire # {"new"} /\ (op.cli => "settings" \in DOMAIN op.before)
         /\ op.pc \in {"cli", "manifest"} => "settings" \in DOMAIN op.before
<1>1. Events \cup {"new"} \subseteq op.wire
  BY DEF FreshInv, InstallRun, BytesRun
<1>2. Events # {} /\ "new" \notin Events
  BY InstallAssumption
<1> QED
  BY <1>1, <1>2 DEF InstallRun

LEMMA BytesSaveManifest ==
  ASSUME InstallTypes, FreshInv, scar = {}, BytesRun, SaveManifest PROVE BytesRec'
<1>1. /\ op.pc = "manifest" /\ InstallRun
      /\ DOMAIN man'.files = DOMAIN op.before \cup DOMAIN man.files
      /\ \A f \in DOMAIN op.before : man'.files[f] = FileRec(f)
      /\ UNCHANGED <<files, bak, orig>>
  BY SaveManifestIs DEF SaveManifest
<1>2. DOMAIN man.files = {} /\ "settings" \in DOMAIN op.before /\ Untuned(Doc)
  BY <1>1, BytesWires DEF BytesRun, InstallTypes, ManOK
<1>3. Doc' = Doc
  BY <1>1 DEF Doc
<1>4. ASSUME NEW f \in DOMAIN op.before, f \in Files
      PROVE  /\ files[f] = man'.files[f].after /\ orig[f] = man'.files[f].before
             /\ BackupUsable(man'.files[f], f)
  <2>1. man'.files[f] = [before |-> op.before[f], created |-> op.before[f] = Missing,
                         after |-> files[f]]
    BY <1>1, <1>2 DEF FileRec, Hashed, FromDisk
  <2>2. /\ man'.files[f].before = op.before[f] /\ man'.files[f].after = files[f]
        /\ man'.files[f].created = (op.before[f] = Missing)
    BY <2>1
  <2>3. orig[f] = op.before[f] /\ (op.before[f] = Missing \/ bak[Base(f)] = op.before[f])
    BY <1>4 DEF BytesRun
  <2> QED
    BY <2>2, <2>3 DEF BackupUsable
<1>5. ASSUME NEW f \in Files, f \notin DOMAIN op.before PROVE files[f] = orig[f]
  BY <1>5 DEF BytesRun
<1> QED
  BY <1>1, <1>2, <1>3, <1>4, <1>5 DEF BytesRec, BackupUsable

LEMMA SameFiles ==
  ASSUME NEW fs, NEW gs, IsFiles(fs), IsFiles(gs), \A f \in Files : fs[f] = gs[f]
  PROVE  fs = gs
BY DEF IsFiles

LEMMA BytesRollBack ==
  ASSUME InstallTypes, InstallTypes', FreshInv, scar = {}, BytesRun, RollBack
  PROVE  files' = orig' /\ ~ man'.there
<1>1. /\ InstallRun /\ UNCHANGED <<man, orig>>
      /\ \A f \in DOMAIN op.before : files'[f] = op.before[f]
      /\ \A f \in Files \ DOMAIN op.before : f # "settings" => files'[f] = files[f]
      /\ ~ op.cli => \A f \in Files \ DOMAIN op.before : files'[f] = files[f]
  BY RollBackIs
<1>2. op.cli => "settings" \in DOMAIN op.before
  BY <1>1, BytesWires
<1>3. ASSUME NEW f \in Files PROVE files'[f] = orig[f]
  <2>1. CASE f \in DOMAIN op.before
    BY <1>1, <1>3, <2>1 DEF BytesRun
  <2>2. CASE f \notin DOMAIN op.before
    BY <1>1, <1>2, <1>3, <2>2 DEF BytesRun
  <2> QED
    BY <2>1, <2>2
<1>4. files' = orig'
  BY <1>1, <1>3, SameFiles DEF InstallTypes
<1> QED
  BY <1>1, <1>4 DEF BytesRun

LEMMA BytesStartUninstall ==
  ASSUME InstallTypes, BytesRec, StartUninstall
  PROVE  BytesRec' /\ op'.whole = DOMAIN man'.files /\ BytesUndo'
<1>1. /\ op'.whole = {f \in DOMAIN man.files : ByteOK(f)}
      /\ UNCHANGED <<files, bak, man, orig>>
  BY StartUninstallIs
<1>2. Doc' = Doc /\ \A rec, f : BackupUsable(rec, f)' <=> BackupUsable(rec, f)
  BY <1>1 DEF Doc, BackupUsable
<1>3. BytesRec'
  BY <1>1, <1>2 DEF BytesRec, BackupUsable
<1>4. ASSUME NEW s \in man.steps PROVE Undo(Doc, s) # "edited"
  <2>1. CASE s.at \in Events
    <3>1. ASSUME NEW i \in Found(Doc, s.at, s.bin) PROVE Entries(Doc, s.at)[i].as = "installed"
      BY <2>1, <3>1 DEF BytesRec, Untuned, Found, OursIn
    <3> QED
      BY <2>1, <3>1, UndoHook
  <2>2. CASE s.at \notin Events
    BY <2>2, UndoOther
  <2> QED
    BY <2>1, <2>2
<1>5. DOMAIN man.files \subseteq Files
  BY DEF InstallTypes, ManOK
<1>6. \A f \in DOMAIN man.files : ByteOK(f)
  BY <1>4, <1>5 DEF ByteOK, BytesRec
<1>7. op'.whole = DOMAIN man.files
  BY <1>1, <1>6
<1>8. BytesUndo'
  BY <1>1, <1>5, <1>7 DEF BytesUndo, BytesRec
<1> QED
  BY <1>1, <1>3, <1>7, <1>8

LEMMA BytesDeregister ==
  ASSUME InstallTypes, BytesRec, BytesUndo, op.whole = DOMAIN man.files, Deregister
  PROVE  BytesUndo' /\ \A f \in Files \ op'.whole : files'[f] = orig'[f]
<1>1. /\ op'.doc = op.doc /\ op'.whole = op.whole /\ UNCHANGED <<man, orig>>
      /\ \A f \in Files \ {"settings"} : files'[f] = files[f]
  BY DeregisterIs, DeregisterLeaves
<1>2. BytesUndo'
  BY <1>1 DEF BytesUndo
<1>3. \A f \in Files \ op'.whole : files'[f] = orig'[f]
  BY <1>1 DEF BytesRec
<1> QED
  BY <1>2, <1>3

LEMMA BytesRestoreFile ==
  ASSUME InstallTypes, BytesUndo, \A g \in Files \ op.whole : files[g] = orig[g],
         NEW f \in Files, RestoreFile(f)
  PROVE  BytesUndo' /\ \A g \in Files \ op'.whole : files'[g] = orig'[g]
<1>1. /\ f \in op.whole /\ op'.whole = op.whole \ {f}
      /\ op'.doc = IF f = "settings" THEN Missing ELSE op.doc
      /\ files'[f] = man.files[f].before /\ \A g \in Files \ {f} : files'[g] = files[g]
      /\ UNCHANGED <<man, orig>>
  BY RestoreFileIs
<1>2. BytesUndo'
  BY <1>1 DEF BytesUndo
<1>3. ASSUME NEW g \in Files \ op'.whole PROVE files'[g] = orig'[g]
  <2>1. CASE g = f
    BY <1>1, <2>1 DEF BytesUndo
  <2>2. CASE g # f
    BY <1>1, <1>3, <2>2
  <2> QED
    BY <2>1, <2>2
<1> QED
  BY <1>2, <1>3

LEMMA BytesRemoveEntries ==
  ASSUME InstallTypes, BytesUndo, \A g \in Files \ op.whole : files[g] = orig[g], RemoveEntries
  PROVE  BytesUndo' /\ \A g \in Files \ op'.whole : files'[g] = orig'[g]
<1>1. /\ op.whole = {} /\ op'.whole = {} /\ op'.doc = op.doc /\ UNCHANGED orig
      /\ op.doc = Missing => files' = files
  BY RemoveEntriesIs
<1>2. op.doc = Missing
  BY <1>1 DEF BytesUndo
<1> QED
  BY <1>1, <1>2 DEF BytesUndo

LEMMA BytesForgetInstall ==
  ASSUME InstallTypes, InstallTypes', \A g \in Files \ op.whole : files[g] = orig[g], ForgetInstall
  PROVE  files' = orig' /\ ~ man'.there
<1>1. op.pc = "forget" /\ UninstallRun /\ ~ man'.there /\ UNCHANGED <<files, orig>>
  BY ForgetInstallIs
<1>2. \A g \in Files : files'[g] = orig'[g]
  BY <1>1 DEF UninstallRun
<1> QED
  BY <1>1, <1>2, SameFiles DEF InstallTypes

\* Where a step leaves each phase.
LEMMA BytesPhases ==
  /\ op'.pc \in InstallPcs /\ BytesRun' => BytesInv'
  /\ op'.pc = "deregister" /\ BytesRec' /\ op'.whole = DOMAIN man'.files /\ BytesUndo' => BytesInv'
  /\ /\ op'.pc \in {"restore", "forget"} /\ BytesUndo'
     /\ \A f \in Files \ op'.whole : files'[f] = orig'[f]
     => BytesInv'
  /\ op'.pc = "idle" /\ ((BytesRec' /\ man'.there) \/ (~ man'.there /\ files' = orig')) => BytesInv'
BY DEF BytesInv, BytesRec, BytesRun, BytesUndo, InstallPcs, UninstallPcs

LEMMA BytesInstallStep ==
  ASSUME InstallTypes, InstallTypes', OwnInv, FreshInv, FreshInv', BytesInv,
         scar = {}, scar' = {}, ~ touched', InstallStep
  PROVE  BytesInv'
<1>1. ASSUME NEW bin \in Bins, NEW cli \in BOOLEAN, StartInstall(bin, cli) PROVE BytesInv'
  <2>1. op'.pc \in InstallPcs
    BY <1>1, StartInstallIs DEF InstallPcs
  <2> QED
    BY <1>1, <2>1, BytesStartInstall, BytesPhases
<1>2. ~ touched /\ InstallRun => BytesRun
  BY BytesIs DEF InstallRun
<1>3. CASE WriteTee
  <2>1. /\ Wrote(op.bin, Script) /\ op.bin \in Bins /\ DOMAIN op.before = {} /\ InstallRun
        /\ UNCHANGED touched /\ op'.pc \in InstallPcs
    BY <1>3, WroteTee DEF Wrote
  <2>2. Doc' = Doc
    BY <2>1, FileNames DEF Wrote, Doc
  <2>3. BytesRun /\ Untuned(Doc')
    BY <1>2, <2>1, <2>2 DEF BytesRun
  <2>4. BytesRun'
    BY <2>1, <2>3, BytesWrote
  <2> QED
    BY <2>1, <2>4, BytesPhases
<1>4. CASE WriteDelegate
  <2>1. /\ Wrote("delegate", op.doc.line) /\ "delegate" \notin DOMAIN op.before /\ InstallRun
        /\ UNCHANGED touched /\ op'.pc \in InstallPcs
    BY <1>4, WroteDelegate DEF Wrote
  <2>2. Doc' = Doc
    BY <2>1, FileNames DEF Wrote, Doc
  <2>3. BytesRun /\ Untuned(Doc')
    BY <1>2, <2>1, <2>2 DEF BytesRun
  <2>4. BytesRun'
    BY <2>1, <2>3, BytesWrote
  <2> QED
    BY <2>1, <2>4, BytesPhases
<1>5. CASE WriteSettings
  <2>1. /\ Wrote("settings", Wired(op.doc)) /\ "settings" \notin DOMAIN op.before /\ InstallRun
        /\ UNCHANGED touched /\ op'.pc \in InstallPcs /\ Doc' = Wired(op.doc) /\ op.doc = Doc
        /\ op.doc \in Settings /\ op.bin \in Bins
    BY <1>5, WroteSettings DEF Wrote
  <2>2. BytesRun /\ Untuned(op.doc)
    BY <1>2, <2>1 DEF BytesRun
  <2>3. Untuned(Doc')
    BY <2>1, <2>2, WiredUntuned
  <2>4. BytesRun'
    BY <2>1, <2>2, <2>3, BytesWrote
  <2> QED
    BY <2>1, <2>4, BytesPhases
<1>6. CASE SettingsMoved \/ InstallFails
  <2>1. /\ InstallRun /\ op'.pc \in InstallPcs /\ op'.before = op.before
        /\ UNCHANGED <<files, bak, man, orig, touched>>
    BY <1>6, UnrollIs DEF InstallPcs
  <2>2. BytesRun /\ Doc' = Doc
    BY <1>2, <2>1 DEF Doc
  <2>3. BytesRun'
    BY <2>1, <2>2 DEF BytesRun
  <2> QED
    BY <2>1, <2>3, BytesPhases
<1>7. CASE Register
  <2>1. /\ InstallRun /\ op.pc = "cli" /\ op'.pc \in InstallPcs /\ op'.before = op.before
        /\ UNCHANGED <<bak, man, orig, touched>> /\ Same(Doc', Doc)
        /\ \A f \in Files \ {"settings"} : files'[f] = files[f]
    BY <1>7, RegisterIs, RegisterLeaves DEF InstallPcs
  <2>2. BytesRun
    BY <1>2, <2>1
  <2>3. "settings" \in DOMAIN op.before
    BY <2>1, <2>2, BytesWires
  <2>4. Untuned(Doc')
    BY <2>1, <2>2, SameDoc DEF BytesRun
  <2>5. BytesRun'
    BY <2>1, <2>2, <2>3, <2>4 DEF BytesRun
  <2> QED
    BY <2>1, <2>5, BytesPhases
<1>8. CASE SaveManifest
  <2>1. InstallRun /\ op'.pc = "idle" /\ man'.there /\ UNCHANGED touched
    BY <1>8, SaveManifestIs DEF SaveManifest
  <2> QED
    BY <1>2, <1>8, <2>1, BytesSaveManifest, BytesPhases
<1>9. CASE RollBack
  <2>1. InstallRun /\ op'.pc = "idle" /\ UNCHANGED touched
    BY <1>9, RollBackIs
  <2> QED
    BY <1>2, <1>9, <2>1, BytesRollBack, BytesPhases
<1>10. CASE RollBackStrands
  BY <1>10 DEF RollBackStrands
<1> QED
  BY <1>1, <1>3, <1>4, <1>5, <1>6, <1>7, <1>8, <1>9, <1>10 DEF InstallStep

LEMMA BytesUninstallStep ==
  ASSUME InstallTypes, InstallTypes', BytesInv, scar = {}, scar' = {}, ~ touched', UninstallStep
  PROVE  BytesInv'
<1>1. ~ touched /\ op.pc \in {"restore", "forget"} =>
        BytesUndo /\ \A g \in Files \ op.whole : files[g] = orig[g]
  BY BytesIs DEF UninstallPcs
<1>2. ~ touched /\ UninstallRun /\ op.pc = "deregister" =>
        BytesRec /\ BytesUndo /\ op.whole = DOMAIN man.files
  BY BytesIs DEF UninstallRun, UninstallPcs
<1>3. CASE StartUninstall
  <2>1. op.pc = "idle" /\ man.there /\ op'.pc = "deregister" /\ UNCHANGED touched
    BY <1>3, StartUninstallIs
  <2>2. BytesRec
    BY <2>1, BytesIs
  <2> QED
    BY <1>3, <2>1, <2>2, BytesStartUninstall, BytesPhases
<1>4. CASE Deregister
  <2>1. UninstallRun /\ op.pc = "deregister" /\ op'.pc = "restore" /\ UNCHANGED touched
    BY <1>4, DeregisterIs
  <2> QED
    BY <1>2, <1>4, <2>1, BytesDeregister, BytesPhases
<1>5. CASE DeregisterFails
  <2>1. /\ UninstallRun /\ op.pc = "deregister" /\ op'.pc = "idle"
        /\ UNCHANGED <<files, bak, man, orig, touched>>
    BY <1>5, OpKinds DEF DeregisterFails, Doing, UninstallPcs, NoRunNow
  <2>2. BytesRec /\ man.there /\ Doc' = Doc
    BY <1>2, <2>1 DEF UninstallRun, Doc
  <2>3. BytesRec'
    BY <2>1, <2>2 DEF BytesRec, BackupUsable
  <2> QED
    BY <2>1, <2>2, <2>3, BytesPhases
<1>6. ASSUME NEW f \in Files, RestoreFile(f) PROVE BytesInv'
  <2>1. op.pc = "restore" /\ op'.pc = "restore" /\ UNCHANGED touched
    BY <1>6, RestoreFileIs
  <2> QED
    BY <1>1, <1>6, <2>1, BytesRestoreFile, BytesPhases
<1>7. CASE RemoveEntries
  <2>1. op.pc = "restore" /\ op'.pc = "forget" /\ UNCHANGED touched
    BY <1>7, RemoveEntriesIs
  <2> QED
    BY <1>1, <1>7, <2>1, BytesRemoveEntries, BytesPhases
<1>8. CASE RestoreFails
  BY <1>8 DEF RestoreFails
<1>9. CASE ForgetInstall
  <2>1. op.pc = "forget" /\ op'.pc = "idle" /\ UNCHANGED touched
    BY <1>9, ForgetInstallIs
  <2> QED
    BY <1>1, <1>9, <2>1, BytesForgetInstall, BytesPhases
<1> QED
  BY <1>3, <1>4, <1>5, <1>6, <1>7, <1>8, <1>9 DEF UninstallStep

LEMMA BytesStep ==
  ASSUME InstallTypes, InstallTypes', OwnInv, FreshInv, FreshInv', BytesInv,
         [InstallNext]_installVars
  PROVE  BytesInv'
<1> SUFFICES ASSUME scar' = {}, ~ touched' PROVE BytesInv'
  BY DEF BytesInv
<1>1. scar = {}
  BY ScarGrows
<1>2. CASE UNCHANGED installVars
  <2>1. UNCHANGED <<files, bak, man, op, orig, touched, scar>> /\ Doc' = Doc
    BY <1>2 DEF installVars, Doc
  <2>2. BytesRec => BytesRec'
    BY <2>1 DEF BytesRec, BackupUsable
  <2>3. BytesRun => BytesRun'
    BY <2>1 DEF BytesRun
  <2>4. BytesUndo => BytesUndo'
    BY <2>1 DEF BytesUndo
  <2>5. op.pc \in {"idle", "deregister", "restore", "forget"} \cup InstallPcs
    BY OpKinds DEF UninstallPcs
  <2>6. op.pc = "deregister" => man.there
    BY OpKinds DEF UninstallRun, UninstallPcs
  <2> QED
    BY <1>1, <2>1, <2>2, <2>3, <2>4, <2>5, <2>6, BytesIs, BytesPhases DEF UninstallPcs
<1>3. CASE KillRun
  BY <1>3 DEF KillRun
<1>4. CASE Operator
  BY <1>4, OperatorIs, DeregistersIs DEF DocEdit
<1> QED
  BY <1>1, <1>2, <1>3, <1>4, BytesInstallStep, BytesUninstallStep DEF InstallNext

-----------------------------------------------------------------------------
(* What holds of every host.                                               *)

InstallInv == InstallTypes /\ RegInv /\ OwnInv /\ FreshInv /\ TheirInv /\ BytesInv

\* The inductive invariant: every variable is what the code can have written
\* there; what is ours has a record, and what the operator registered is never
\* taken for it; a first install wires all it can; what the operator has is kept;
\* and the bytes found are held until they are given back.
THEOREM InstallInvAlways == InstallSpec => []InstallInv
<1>1. InstallInit => InstallInv
  BY InitIs, RegInit, OwnInit, FreshInit, TheirInit, BytesInit DEF InstallInv
<1>2. InstallInv /\ [InstallNext]_installVars => InstallInv'
  <2> SUFFICES ASSUME InstallInv, [InstallNext]_installVars PROVE InstallInv'
    OBVIOUS
  <2>1. InstallTypes /\ RegInv /\ OwnInv /\ FreshInv /\ TheirInv /\ BytesInv
    BY DEF InstallInv
  <2>2. InstallTypes' /\ RegInv' /\ OwnInv' /\ FreshInv'
    BY <2>1, TypesStep, RegStep, OwnStep, FreshStep
  <2>3. TheirInv' /\ BytesInv'
    BY <2>1, <2>2, TheirStep, BytesStep
  <2> QED
    BY <2>2, <2>3 DEF InstallInv
<1> QED
  BY <1>1, <1>2, PTL DEF InstallSpec

\* Whatever is installed, edited, rolled back, killed while installing and
\* uninstalled, and in which order: between two runs the operator's hooks,
\* statusline, options and registrations are what they made them
\* (install_uninstall.go:33-41).
THEOREM TheirsAreKeptAlways == InstallSpec => []TheirsAreKept
<1>1. InstallInv => TheirsAreKept
  BY DEF InstallInv, TheirInv, TheirsAreKept, Doing
<1> QED
  BY <1>1, InstallInvAlways, PTL

\* Nothing of ours is wired, and no file of ours left, without a record an
\* uninstall removes it by, unless a run was cut short (manifest.go:77-84).
THEOREM OwnershipRecordedAlways == InstallSpec => []OwnershipRecorded
<1>1. InstallInv => OwnershipRecorded
  <2> SUFFICES ASSUME InstallInv, op.pc = "idle", scar = {} PROVE OwnershipRecorded
    BY DEF OwnershipRecorded, Doing
  <2>1. OwnIdle
    BY DEF InstallInv, OwnInv
  <2>2. ASSUME NEW e \in Events, NEW i \in DOMAIN Entries(Doc, e), Entries(Doc, e)[i].by = "us"
        PROVE  \E s \in Recorded(e) : s.bin = Entries(Doc, e)[i].bin
    <3>1. i \in OursIn(Entries(Doc, e))
      BY <2>2 DEF OursIn
    <3>2. PICK s \in man.steps : s.at = e /\ s.bin = Entries(Doc, e)[i].bin
      BY <2>1, <3>1 DEF OwnIdle, RecordedIn
    <3> QED
      BY <3>2 DEF Recorded
  <2>3. Doc.line.by = "us" => \E s \in Recorded("line") : s.bin = Doc.line.bin
    BY <2>1 DEF OwnIdle, RecordedIn, Recorded
  <2>4. /\ reg \ theirs.reg \subseteq {s.at : s \in man.steps}
        /\ \A b \in Bins : files[b] # Missing => b \in DOMAIN man.files
    BY <2>1 DEF OwnIdle, Names
  <2> QED
    BY <2>2, <2>3, <2>4 DEF OwnershipRecorded
<1> QED
  BY <1>1, InstallInvAlways, PTL

\* An uninstall of an install nobody edited gives every byte back, and so does
\* the rollback of one that failed, although the host's own CLI re-lays
\* settings.json out (install_run.go:491-501).
THEOREM BytesComeBackAlways == InstallSpec => []BytesComeBack
<1>1. InstallInv => BytesComeBack
  BY DEF InstallInv, BytesInv, BytesComeBack, Doing
<1> QED
  BY <1>1, InstallInvAlways, PTL
=============================================================================
