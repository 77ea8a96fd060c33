------------------------------- MODULE MCIndex -------------------------------
(***************************************************************************)
(* The roots, packs and disks a run of mr-index meets.                     *)
(***************************************************************************)
EXTENDS IndexRefresh

\* Roots of the index: the operator's skills and commands, two versions of one
\* plugin pack, another pack, a tools root, and a directory outside ~/.claude.
SomeRoots == {"user", "p1", "p2", "q1", "commands", "tools", "away"}
Packs == [x \in SomeRoots |-> CASE x = "user" -> "skills" [] x \in {"p1", "p2"} -> "p"
                                [] x = "q1" -> "q" [] OTHER -> "own"]
Kinds == [x \in SomeRoots |-> IF x \in {"commands", "tools"} THEN x ELSE "skills"]
InClaude == SomeRoots \ {"away"}
Versions == [x \in SomeRoots |-> IF x = "p2" THEN 2 ELSE 1]
OneSkill(id, desc) == <<[id |-> id, desc |-> desc]>>
Skills == [x \in SomeRoots |->
             CASE x = "user" -> OneSkill("u", "same") [] x = "commands" -> OneSkill("/u", "same")
               [] x \in {"p1", "p2"} -> OneSkill("p:s", "p")
               [] x = "q1" -> OneSkill("q:s", "q") [] OTHER -> OneSkill(x, x)]
Dimensions == [m \in {"m1", "m2", "wide"} |-> IF m = "wide" THEN 2 ELSE 1]

Present(ps) == [dir |-> [x \in SomeRoots |-> IF x \in ps THEN "full" ELSE "gone"],
                listed |-> [k \in {"p", "q"} |-> {x \in ps : Packs[x] = k}],
                rev |-> [x \in SomeRoots |-> 0]]
Unused == [build |-> 0, refresh |-> 0, force |-> 0, slips |-> 0, kills |-> 0, tears |-> 0,
           moves |-> 0, losses |-> 0, edits |-> 0, foreign |-> 0, swaps |-> 0, typos |-> 0,
           who |-> {1}]
Built(f, rs, tpl) ==
  LET i == Build(HarvestSkills(f, rs), tpl, "m1")
  IN  [json |-> Whole(i), bin |-> Whole(i), fresh |-> TRUE,
       baks |-> <<[idx |-> i, ok |-> TRUE, by |-> NoRun]>>]
Started(rs, tpl, times) ==
  LET f == Present({rs[i] : i \in DOMAIN rs})
  IN  [fs |-> f, recorded |-> rs, disk |-> Built(f, rs, tpl), left |-> times,
       serves |-> "m1"]

\* Overlapping, failing, killed runs; vectors of other binaries and embedders;
\* packs and directories that move; a first run with nothing on disk.
TornFiles(slips, kills) == Started(<<"user">>, "raw",
  [Unused EXCEPT !.who = {1, 2}, !.build = 1, !.refresh = 2, !.slips = slips, !.kills = kills,
                 !.tears = 1, !.edits = 1])
OtherSpaces == Started(<<"user", "away">>, "tpl1",
  [Unused EXCEPT !.build = 1, !.refresh = 2, !.edits = 1, !.foreign = 1, !.swaps = 1,
                 !.losses = 1, !.force = 1])
MovingPacks(own, builds, refreshes, moves) ==
  Started(<<own, "user", "p1", "q1", "away">>, "raw",
    [Unused EXCEPT !.build = builds, !.refresh = refreshes, !.moves = moves, !.losses = 1])
FirstRun ==
  [fs |-> Present({"user", "p1"}), recorded |-> NoFile, serves |-> "m1",
   disk |-> [json |-> Absent, bin |-> Absent, fresh |-> FALSE, baks |-> <<>>],
   left |-> [Unused EXCEPT !.refresh = 2, !.slips = 1, !.moves = 1, !.typos = 1]]
NoRuns == Started(<<"user">>, "raw", Unused)
SomeDisks ==
  {TornFiles(0, 1), TornFiles(1, 0), OtherSpaces, MovingPacks("commands", 0, 2, 2),
   MovingPacks("tools", 1, 1, 1),
   FirstRun, NoRuns}

\* A tools root beside a command root and the user's skills, and one build.
ToolsBeside == {Started(<<"commands", "tools", "user">>, "raw",
                        [Unused EXCEPT !.build = 1, !.refresh = 1, !.edits = 1, !.losses = 1])}
=============================================================================
