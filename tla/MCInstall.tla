------------------------------- MODULE MCInstall -------------------------------
(***************************************************************************)
(* The hosts an install meets.                                             *)
(***************************************************************************)
EXTENDS Install

\* The host before an install: nothing, an empty file, the operator's own hook
\* and line, a line that does not parse; an older version's install; a server
\* of the same name that is not ours.
Someone(as) == [by |-> "op", bin |-> "", as |-> as]
Configured(hooks, line) ==
  [hooks |-> [e \in Events |-> hooks], line |-> line, own |-> 0, shape |-> "op"]
Budget(i, u, s, e) == [installs |-> i, uninstalls |-> u, slips |-> s, edits |-> e]
Owned == Configured(<<Someone("installed")>>, Someone("installed"))
OlderInstall == [steps |-> {[at |-> "old", bin |-> "b1", prior |-> NoLine, created |-> FALSE]},
                 files |-> <<>>, there |-> TRUE]
Hosts ==
  {[settings |-> s, man |-> NoManifest, reg |-> {}, left |-> Budget(2, 1, 1, 2)] :
     s \in {Missing, Configured(NoHooks, NoLine), Configured(<<>>, Someone("unreadable"))}}
  \cup {[settings |-> Owned, man |-> NoManifest, reg |-> {}, left |-> Budget(2, 1, 2, 2)],
        [settings |-> Owned, man |-> OlderInstall, reg |-> {"old"}, left |-> Budget(1, 1, 1, 1)],
        [settings |-> Owned, man |-> NoManifest, reg |-> {"new"}, left |-> Budget(1, 1, 1, 1)],
        [settings |-> Missing, man |-> NoManifest, reg |-> {}, left |-> Budget(0, 0, 0, 0)]}
=============================================================================
