---------------------------- MODULE MCSupervisor ----------------------------
(* Small strategy DAGs, and the lanes they pin, for the Supervisor module.  *)
EXTENDS Supervisor

\* cascade: a worker, then its verifier.
ChainDeps == [s \in Steps |-> IF s = 1 THEN {} ELSE {s - 1}]
\* fan-out-judge: every step but the last is a root, the last collects them.
FanInDeps == [s \in Steps |-> IF s = LastStep THEN Steps \ {LastStep} ELSE {}]

\* The free local worker of cascade, verified on a cloud lane.
LocalFirst == [s \in Steps |-> IF s = 1 THEN "local" ELSE "claude"]
\* A cloud worker, verified or judged locally.
LocalLast  == [s \in Steps |-> IF s = LastStep THEN "local" ELSE "claude"]
\* Two cloud workers on lanes of their own.
CloudPair  == [s \in Steps |-> CASE s = 1 -> "claude"
                                 [] s = LastStep -> "local"
                                 [] OTHER -> "codex"]
\* A pinned worker beside one whose lane the router decides.
RoutedPair == [s \in Steps |-> CASE s = 1 -> "claude"
                                 [] s = LastStep -> "local"
                                 [] OTHER -> NoLane]
AllClaude  == [s \in Steps |-> "claude"]
=============================================================================
