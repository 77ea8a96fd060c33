------------------------------- MODULE Install -------------------------------
(***************************************************************************)
(* mr-orchestrate install / uninstall claude: hooks and a statusline tee   *)
(* in settings.json, the tee's own files, one entry in a registry only the *)
(* host's CLI may write, and the manifest that records what is ours        *)
(* (cmd/mr-orchestrate/install*.go, internal/orch/hostcfg).                *)
(*                                                                         *)
(* A file's content is a record, Missing when there is no file.            *)
(* settings.json is [hooks, line, own, shape]: for each event NoHooks or   *)
(* the entries of its array, the statusline, the operator's other          *)
(* settings, the layout.                                                   *)
(* An entry is a group of hooks, ours as soon as one of them is our        *)
(* command: [by, bin, as], whose, of which binary directory, and           *)
(* "installed", "tuned", "shared" when the operator added a hook of their  *)
(* own to our group, or "unreadable" when it does not parse.               *)
(***************************************************************************)
EXTENDS Integers, FiniteSets, SequencesExt

CONSTANTS Events,       \* the hook arrays an entry is appended to
          Bins,         \* binary directories an install may be pointed at
          InstallStarts \* [settings, man, reg, left] to start from

VARIABLES files,    \* "settings", "delegate" and the tee in each bin -> content
          bak,      \* the .pre-install copies, by base name
          man,      \* the manifest
          reg,      \* names registered with the host
          op,       \* the run in progress
          theirs,   \* ghost: [hooks, line, own, reg], what the operator configured
          orig,     \* ghost: the files before the install
          blind,    \* ghost: "none", "rewired" (more was wired over an edit), "mid-run"
                    \* (an edit fell between a run's writes), "wrapped" (a line of
                    \* ours, unrecorded after a kill, was taken for the operator's)
          touched,  \* ghost: an edit since orig
          scar,     \* ghost: the kinds of run that were cut short, and "stranded" after
                    \* a rollback that could not put settings.json back
          budget
installVars == <<files, bak, man, reg, op, theirs, orig, blind, touched, scar, budget>>

Files == {"settings", "delegate"} \cup Bins
Base(f) == IF f \in Bins THEN "tee" ELSE f
Missing == [gone |-> TRUE]
Script == [script |-> TRUE]
NoHooks == <<[by |-> "nobody", bin |-> "", as |-> ""]>>
NoLine == [by |-> "nobody", bin |-> "", as |-> ""]
Ours(bin) == [by |-> "us", bin |-> bin, as |-> "installed"]
Theirs == [by |-> "op", bin |-> "", as |-> "installed"]

NoManifest == [steps |-> {}, files |-> <<>>, there |-> FALSE]
NoRunNow == [pc |-> "idle"]

\* What a host is before the program first touches it: nothing of ours in
\* settings.json, and no manifest or an older version's, of a registration.
Entry == [by : {"us", "op"}, bin : Bins \cup {""}, as : {"installed", "tuned", "shared", "unreadable"}]
Line == {x \in Entry : x.by = "us" => x.as = "installed"} \cup {NoLine}
Settings == [hooks : [Events -> Seq(Entry) \cup {NoHooks}], line : Line,
             own : Int, shape : {"ours", "op", "claude"}]
Steps == [at : Events \cup {"line", "old", "new"}, bin : Bins \cup {""}, prior : Line,
          created : BOOLEAN]
TheirsAlone(doc) ==
  /\ doc \in Settings /\ doc.line.by # "us"
  /\ \A e \in Events : \A i \in DOMAIN doc.hooks[e] : doc.hooks[e][i].by # "us"
ASSUME InstallAssumption ==
  /\ Events # {} /\ Events \cap {"line", "old", "new"} = {}
  /\ Bins \cap {"settings", "delegate"} = {}
  /\ \A c \in InstallStarts :
       /\ c.settings = Missing \/ TheirsAlone(c.settings)
       /\ \/ c.man = NoManifest
          \/ /\ c.man = [NoManifest EXCEPT !.steps = c.man.steps, !.there = TRUE]
             /\ c.man.steps \subseteq {s \in Steps : s.at \in {"old", "new"}}
       /\ c.reg \subseteq {"old", "new"}

\* An absent settings.json is edited as an empty one.
AsDoc(content) ==
  IF content = Missing
  THEN [hooks |-> [e \in Events |-> NoHooks], line |-> NoLine, own |-> 0, shape |-> "ours"]
  ELSE content
Doc == AsDoc(files["settings"])

Has(doc, e) == doc.hooks[e] # NoHooks
Entries(doc, e) == IF Has(doc, e) THEN doc.hooks[e] ELSE <<>>
\* findOurs: where our binary is invoked, and whether that is certain.
Found(doc, e, bin) ==
  {i \in DOMAIN Entries(doc, e) :
     LET x == Entries(doc, e)[i] IN x.by = "us" /\ x.bin = bin /\ x.as # "unreadable"}
Undetermined(doc, e, bin) ==
  Found(doc, e, bin) = {} /\ \E i \in DOMAIN Entries(doc, e) : Entries(doc, e)[i].as = "unreadable"
InLine(doc, bin) == doc.line.by = "us" /\ doc.line.bin = bin

Recorded(at) == {s \in man.steps : s.at = at}

-----------------------------------------------------------------------------
\* What assessInstall says of each step: "wire", "managed", "skip", or a
\* reason to refuse the whole run.
HookStatus(doc, e, bin) ==
  CASE Cardinality(Found(doc, e, bin)) > 1 -> "conflict"
    [] Cardinality(Found(doc, e, bin)) = 1 ->
         IF Recorded(e) = {} THEN "conflict" ELSE "managed"
    [] Found(doc, e, bin) = {} ->
         IF Undetermined(doc, e, bin) \/ Recorded(e) # {} THEN "drift" ELSE "wire"

LineStatus(doc, bin) ==
  CASE InLine(doc, bin) -> IF Recorded("line") = {} THEN "conflict" ELSE "managed"
    [] ~ InLine(doc, bin) /\ Recorded("line") # {} -> "drift"
    [] ~ InLine(doc, bin) /\ Recorded("line") = {} ->
         IF doc.line = NoLine \/ doc.line.as = "unreadable" THEN "skip" ELSE "wire"

CliStatus(cli) ==
  CASE "new" \in reg -> IF Recorded("new") = {} THEN "conflict" ELSE "managed"
    [] "new" \notin reg /\ Recorded("new") # {} -> "drift"
    [] "new" \notin reg /\ Recorded("new") = {} -> IF cli THEN "wire" ELSE "undelegated"

InstallStatus(doc, bin, cli) ==
  [s \in Events \cup {"line", "new"} |->
     IF s \in Events THEN HookStatus(doc, s, bin)
     ELSE IF s = "line" THEN LineStatus(doc, bin) ELSE CliStatus(cli)]

\* A step an older version recorded under another server name refuses too.
RefusesInstall(status) ==
  \/ \E s \in DOMAIN status : status[s] \in {"conflict", "drift", "undelegated"}
  \/ Recorded("old") # {}

-----------------------------------------------------------------------------
\* What of settings.json, and of the registry, is the operator's.  A line of
\* ours stands for the one its delegate relays to.
OpLine == IF Doc.line.by # "us" THEN Doc.line
          ELSE IF files["delegate"] = Missing THEN NoLine ELSE files["delegate"]
Mine(s) == {i \in DOMAIN s : s[i].by = "op"}
\* t holds, in their order, the operator's entries of s.
Lists(t, s) ==
  \E at \in [DOMAIN t -> Mine(s)] :
    /\ \A k \in DOMAIN t : t[k] = s[at[k]]
    /\ \A j, k \in DOMAIN t : j < k => at[j] < at[k]
    /\ \A i \in Mine(s) : \E k \in DOMAIN t : at[k] = i
TheirsKept ==
  /\ \A e \in Events : Lists(theirs.hooks[e], Entries(Doc, e))
  /\ OpLine = theirs.line /\ Doc.own = theirs.own
  /\ theirs.reg \subseteq reg

InstallInit ==
  /\ \E c \in InstallStarts :
       /\ files = [f \in Files |-> IF f = "settings" THEN c.settings ELSE Missing]
       /\ man = c.man /\ reg = c.reg /\ budget = c.left
       /\ touched = c.man.there
  /\ theirs = [hooks |-> [e \in Events |-> Entries(Doc, e)], line |-> OpLine, own |-> Doc.own,
               reg |-> reg \ {s.at : s \in man.steps}]
  /\ bak = [b \in {"settings", "delegate", "tee"} |-> Missing]
  /\ op = NoRunNow /\ orig = files
  /\ blind = "none" /\ scar = {}

Pay(what) == budget[what] > 0 /\ budget' = [budget EXCEPT ![what] = @ - 1]
Doing(pc) == op.pc = pc
Then(pc) == op' = [op EXCEPT !.pc = pc]
\* Any `claude` invocation re-lays settings.json out.
Relaid(fs) == IF fs["settings"] = Missing THEN fs ELSE [fs EXCEPT !["settings"].shape = "claude"]

\* runInstall, up to the first write: assess every step, refuse or stage.
StartInstall(bin, cli) ==
  LET status == InstallStatus(Doc, bin, cli)
      wire   == {s \in DOMAIN status : status[s] = "wire"}
  IN  /\ Doing("idle") /\ Pay("installs")
      /\ ~ RefusesInstall(status) /\ wire # {}
      /\ op' = [pc |-> CASE "line" \in wire -> "tee" [] wire = {"new"} -> "cli"
                         [] OTHER -> "settings",
                bin |-> bin, wire |-> wire, loaded |-> files["settings"], doc |-> Doc,
                before |-> <<>>, cli |-> FALSE]
      /\ IF ~ man.there /\ scar = {} THEN orig' = files /\ touched' = FALSE
         ELSE UNCHANGED <<orig, touched>>
      /\ blind' = IF blind # "none" THEN blind
                  ELSE IF "line" \in wire /\ Doc.line.by = "us" THEN "wrapped"
                  ELSE IF man.there /\ touched /\ wire # {"new"} THEN "rewired" ELSE "none"
      /\ UNCHANGED <<files, bak, man, reg, theirs, scar>>

\* One backup and one atomic write.  The .pre-install copy is the FIRST
\* install's: a usable one already recorded for this file is left alone.
FirstCopyKept(f) == f \in DOMAIN man.files /\ ~ man.files[f].created /\ bak[Base(f)] # Missing
Put(f, content, next) ==
  /\ bak' = IF files[f] = Missing \/ FirstCopyKept(f) THEN bak
            ELSE [bak EXCEPT ![Base(f)] = files[f]]
  /\ op' = [op EXCEPT !.pc = next, !.before = [g \in DOMAIN @ \cup {f} |->
                                                 IF g = f THEN files[f] ELSE @[g]]]
  /\ files' = [files EXCEPT ![f] = content]

WriteTee ==
  /\ Doing("tee") /\ Put(op.bin, Script, "delegate")
  /\ UNCHANGED <<man, reg, theirs, orig, blind, touched, scar, budget>>
WriteDelegate ==
  /\ Doing("delegate") /\ Put("delegate", op.doc.line, "settings")
  /\ UNCHANGED <<man, reg, theirs, orig, blind, touched, scar, budget>>

Wired(doc) ==
  [doc EXCEPT
     !.hooks = [e \in Events |->
        IF e \in op.wire THEN Append(Entries(doc, e), Ours(op.bin)) ELSE @[e]],
     !.line = IF "line" \in op.wire THEN Ours(op.bin) ELSE @]
\* A settings.json that moved since it was loaded is not overwritten.
Moved == files["settings"] # Missing /\ files["settings"] # op.loaded
WriteSettings ==
  /\ Doing("settings") /\ ~ Moved
  /\ Put("settings", Wired(op.doc), IF "new" \in op.wire THEN "cli" ELSE "manifest")
  /\ UNCHANGED <<man, reg, theirs, orig, blind, touched, scar, budget>>
SettingsMoved ==
  /\ Doing("settings") /\ Moved /\ Then("unroll")
  /\ UNCHANGED <<files, bak, man, reg, theirs, orig, blind, touched, scar, budget>>

Register ==
  /\ Doing("cli") /\ reg' = reg \cup {"new"} /\ files' = Relaid(files)
  /\ op' = [op EXCEPT !.pc = "manifest", !.cli = TRUE]
  /\ UNCHANGED <<bak, man, theirs, orig, blind, touched, scar, budget>>

\* The new manifest: this run's steps and the carried ones; each touched
\* file re-hashed from disk, settings.json with its first install's "before",
\* and the records of files this run did not touch.
NewSteps ==
  {[at |-> e, bin |-> op.bin, prior |-> NoLine, created |-> ~ Has(op.doc, e)] :
     e \in op.wire \cap Events}
  \cup {[at |-> s, bin |-> op.bin, prior |-> op.doc.line, created |-> FALSE] :
          s \in op.wire \cap {"line", "new"}}
\* (Slip: a step that was not wired again loses its record.)
OnlyNew == NewSteps
AllSteps == NewSteps \cup man.steps
FromDisk(f) == files[f]
\* (Slip: the bytes that were written are hashed, not the ones on disk.)
AsWritten(f) == IF f = "settings" THEN Wired(op.doc) ELSE files[f]
Hashed(f) == FromDisk(f)
FileRec(f) ==
  IF f = "settings" /\ f \in DOMAIN man.files THEN [man.files[f] EXCEPT !.after = Hashed(f)]
  ELSE [before |-> op.before[f], created |-> op.before[f] = Missing, after |-> Hashed(f)]
SaveManifest ==
  /\ Doing("manifest") /\ \A f \in DOMAIN op.before : files[f] # Missing
  /\ man' = [there |-> TRUE, steps |-> AllSteps,
             files |-> [f \in DOMAIN op.before \cup DOMAIN man.files |->
                          IF f \in DOMAIN op.before THEN FileRec(f) ELSE man.files[f]]]
  /\ op' = NoRunNow
  /\ UNCHANGED <<files, bak, reg, theirs, orig, blind, touched, scar, budget>>

\* A write, the CLI or the manifest fails; then everything this run did is put
\* back, the registration first, unless one item cannot be.
InstallFails ==
  /\ op.pc \in {"tee", "delegate", "settings", "cli", "manifest"} /\ Pay("slips") /\ Then("unroll")
  /\ UNCHANGED <<files, bak, man, reg, theirs, orig, blind, touched, scar>>
PutBack(fs) ==
  LET now == IF op.cli THEN Relaid(files) ELSE files
  IN  [f \in Files |-> IF f \in fs THEN op.before[f] ELSE now[f]]
RollBack ==
  /\ Doing("unroll") /\ op' = NoRunNow
  /\ reg' = IF op.cli THEN reg \ {"new"} ELSE reg
  /\ files' = PutBack(DOMAIN op.before)
  /\ UNCHANGED <<bak, man, theirs, orig, blind, touched, scar, budget>>
\* What is stuck does not stop the rest: settings.json may stay wired to a tee
\* and a delegate that are taken away.
RollBackStrands ==
  /\ Doing("unroll") /\ Pay("slips") /\ op' = NoRunNow
  /\ \E stuck \in SUBSET (DOMAIN op.before \cup {"new"}) :
       /\ stuck # {} /\ ("new" \in stuck => op.cli)
       /\ files' = PutBack(DOMAIN op.before \ stuck)
       /\ reg' = IF op.cli /\ "new" \notin stuck THEN reg \ {"new"} ELSE reg
       /\ scar' = scar \cup {IF "settings" \in stuck THEN "stranded" ELSE "install"}
  /\ UNCHANGED <<bak, man, theirs, orig, blind, touched>>

-----------------------------------------------------------------------------
\* assessUninstall, per recorded step: "remove", "edited" (still ours, still
\* removable, but not the bytes we left), "not wired", or "drift".
Undo(doc, s) ==
  CASE s.at \in Events ->
         IF Cardinality(Found(doc, s.at, s.bin)) > 1 \/ Undetermined(doc, s.at, s.bin) THEN "drift"
         ELSE IF Found(doc, s.at, s.bin) = {} THEN "not wired"
         ELSE IF \E i \in Found(doc, s.at, s.bin) : Entries(doc, s.at)[i].as # "installed"
              THEN "edited" ELSE "remove"
    [] s.at = "line" ->
         IF doc.line = NoLine THEN "not wired"
         ELSE IF ~ InLine(doc, s.bin) THEN "drift" ELSE "remove"
    [] OTHER -> IF s.at \in reg THEN "remove" ELSE "not wired"

BackupUsable(rec, f) == rec.created \/ bak[Base(f)] = rec.before
\* (Slip: the copy is restored whatever the file holds by now.)
CopyUsable(f) == BackupUsable(man.files[f], f)
ByteOK(f) ==
  /\ files[f] = man.files[f].after /\ BackupUsable(man.files[f], f)
  /\ f = "settings" => \A s \in man.steps : Undo(Doc, s) # "edited"

StartUninstall ==
  /\ Doing("idle") /\ Pay("uninstalls") /\ man.there
  /\ \A s \in man.steps : Undo(Doc, s) # "drift"
  /\ op' = [pc |-> "deregister", doc |-> Doc,
            whole |-> {f \in DOMAIN man.files : ByteOK(f)},
            drop |-> {s \in man.steps : Undo(Doc, s) \in {"remove", "edited"}}]
  /\ UNCHANGED <<files, bak, man, reg, theirs, orig, blind, touched, scar>>

\* The recorded undo, so an older version's name goes too.
Deregister ==
  LET names == {s.at : s \in op.drop} \cap {"old", "new"}
  IN  /\ Doing("deregister") /\ Then("restore")
      /\ reg' = reg \ names
      /\ files' = IF names = {} THEN files ELSE Relaid(files)
      /\ UNCHANGED <<bak, man, theirs, orig, blind, touched, scar, budget>>
DeregisterFails ==
  /\ Doing("deregister") /\ {s.at : s \in op.drop} \cap {"old", "new"} # {}
  /\ Pay("slips") /\ op' = NoRunNow
  /\ UNCHANGED <<files, bak, man, reg, theirs, orig, blind, touched, scar>>

\* The files still to give back, in the order they were recorded.
Order(f) == CASE f \in Bins -> 1 [] f = "delegate" -> 2 [] f = "settings" -> 3
RestoreFile(f) ==
  /\ Doing("restore") /\ f \in op.whole /\ \A g \in op.whole : Order(f) <= Order(g)
  /\ files' = [files EXCEPT ![f] = IF man.files[f].created THEN Missing ELSE bak[Base(f)]]
  /\ op' = [op EXCEPT !.whole = @ \ {f}, !.doc = IF f = "settings" THEN Missing ELSE @]
  /\ UNCHANGED <<bak, man, reg, theirs, orig, blind, touched, scar, budget>>

\* settings.json changed since install: the recorded entries are taken out of
\* the document loaded at the start, and the rest of it is kept.  An entry goes
\* as a whole, with what the operator added to it.
Unwired(doc) ==
  LET dropped(e) == {s \in op.drop : s.at = e}
      rest(e, s) == RemoveAt(doc.hooks[e], CHOOSE i \in Found(doc, e, s.bin) : TRUE)
  IN  [doc EXCEPT
         !.hooks = [e \in Events |->
            IF dropped(e) = {} THEN @[e]
            ELSE LET s == CHOOSE s \in dropped(e) : TRUE
                 IN  IF rest(e, s) = <<>> /\ s.created THEN NoHooks ELSE rest(e, s)],
         !.line = IF dropped("line") = {} THEN @ ELSE (CHOOSE s \in dropped("line") : TRUE).prior]
RemoveEntries ==
  /\ Doing("restore") /\ op.whole = {} /\ Then("forget")
  /\ files' = IF op.doc # Missing /\ \E s \in op.drop : s.at \in Events \cup {"line"}
              THEN [files EXCEPT !["settings"] = Unwired(op.doc)] ELSE files
  /\ UNCHANGED <<bak, man, reg, theirs, orig, blind, touched, scar, budget>>

RestoreFails ==
  /\ op.pc \in {"restore", "forget"} /\ Pay("slips") /\ op' = NoRunNow
  /\ scar' = scar \cup {"uninstall"}
  /\ UNCHANGED <<files, bak, man, reg, theirs, orig, blind, touched>>
ForgetInstall ==
  /\ Doing("forget") /\ op' = NoRunNow
  /\ man' = NoManifest /\ bak' = [b \in DOMAIN bak |-> Missing]
  /\ UNCHANGED <<files, reg, theirs, orig, blind, touched, scar, budget>>

\* The run is killed between two writes.
KillRun ==
  /\ ~ Doing("idle") /\ Pay("slips") /\ op' = NoRunNow
  /\ scar' = scar \cup {IF op.pc \in {"deregister", "restore", "forget"} THEN "uninstall"
                         ELSE "install"}
  /\ UNCHANGED <<files, bak, man, reg, theirs, orig, blind, touched>>

-----------------------------------------------------------------------------
\* External: the operator edits the file, or a registration of ours away.
Escapes ==
  \/ op.pc \in {"deregister", "restore", "forget"}
  \/ op.pc \in {"cli", "manifest", "unroll"} /\ "settings" \in DOMAIN op.before
Edited(doc) ==
  /\ files["settings"] # Missing /\ Pay("edits") /\ doc # files["settings"]
  /\ files' = [files EXCEPT !["settings"] = doc]
  /\ touched' = TRUE /\ blind' = IF Escapes THEN "mid-run" ELSE blind
  /\ UNCHANGED <<bak, man, reg, op, orig, scar>>
Now == Doc

SetsOption == Edited([Now EXCEPT !.own = @ + 1]) /\ theirs' = [theirs EXCEPT !.own = @ + 1]
AddsHook(e) ==
  /\ Edited([Now EXCEPT !.hooks[e] = Append(Entries(Now, e), Theirs)])
  /\ theirs' = [theirs EXCEPT !.hooks[e] = Append(@, Theirs)]
SetsLine ==
  LET mine == [by |-> "op", bin |-> "", as |-> "tuned"]
  IN  Edited([Now EXCEPT !.line = mine]) /\ theirs' = [theirs EXCEPT !.line = mine]
\* Retunes our hook, adds one to our group, breaks it, or takes it out.
Retunes(e, as) ==
  \E i \in DOMAIN Entries(Now, e) :
    /\ Now.hooks[e][i].by = "us" /\ Edited([Now EXCEPT !.hooks[e][i].as = as])
    /\ UNCHANGED theirs
RemovesOurs(e) ==
  \E i \in DOMAIN Entries(Now, e) :
    /\ Now.hooks[e][i].by = "us" /\ Edited([Now EXCEPT !.hooks[e] = RemoveAt(@, i)])
    /\ UNCHANGED theirs
Deregisters(name) ==
  /\ name \in reg /\ Pay("edits") /\ reg' = reg \ {name} /\ touched' = TRUE
  /\ files' = Relaid(files) /\ theirs' = [theirs EXCEPT !.reg = @ \ {name}]
  /\ UNCHANGED <<bak, man, op, orig, blind, scar>>

InstallStep ==
  \/ \E bin \in Bins, cli \in BOOLEAN : StartInstall(bin, cli)
  \/ WriteTee \/ WriteDelegate \/ WriteSettings \/ SettingsMoved \/ Register
  \/ SaveManifest \/ InstallFails \/ RollBack \/ RollBackStrands
UninstallStep ==
  \/ StartUninstall \/ Deregister \/ DeregisterFails
  \/ \E f \in Files : RestoreFile(f)
  \/ RemoveEntries \/ RestoreFails \/ ForgetInstall
Operator ==
  \/ SetsOption \/ SetsLine
  \/ \E e \in Events : \/ AddsHook(e) \/ RemovesOurs(e)
                        \/ \E as \in {"tuned", "shared", "unreadable"} : Retunes(e, as)
  \/ \E name \in {"old", "new"} : Deregisters(name)
InstallNext == InstallStep \/ UninstallStep \/ KillRun \/ Operator
InstallSpec == InstallInit /\ [][InstallNext]_installVars

-----------------------------------------------------------------------------
\* Whatever is installed, edited, rolled back and uninstalled, and in which
\* order: between two runs the operator's hook entries, statusline, options and
\* registrations are what the operator made them (install_uninstall.go:33-41).
\* Not claimed: a hook the operator added inside OUR entry, which goes with it
\* (findOurs, install_uninstall.go:183-208); edits an install wires more over
\* (install_test.go:635-679 wants the first copy restored then); and what falls
\* between two writes of one run.
TheirsAreKept ==
  Doing("idle") /\ blind = "none" /\ scar \subseteq {"install"} => TheirsKept

\* Nothing of ours is wired without a record an uninstall could remove it by,
\* unless a run was cut short (manifest.go:77-84).
OwnershipRecorded ==
  Doing("idle") /\ scar = {} =>
    /\ \A e \in Events : \A i \in DOMAIN Entries(Doc, e) :
         LET x == Entries(Doc, e)[i] IN x.by = "us" => \E s \in Recorded(e) : s.bin = x.bin
    /\ Doc.line.by = "us" => \E s \in Recorded("line") : s.bin = Doc.line.bin
    /\ reg \ theirs.reg \subseteq {s.at : s \in man.steps}
    /\ \A b \in Bins : files[b] # Missing => b \in DOMAIN man.files

\* An uninstall of an install nobody edited gives every byte back, although
\* the host's own CLI re-lays settings.json out after it was written
\* (install_run.go:517-536 hashes what the CLI left).
BytesComeBack ==
  Doing("idle") /\ ~ man.there /\ ~ touched /\ scar = {} => files = orig
=============================================================================
