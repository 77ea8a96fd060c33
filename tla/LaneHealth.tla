------------------------------ MODULE LaneHealth ------------------------------
(***************************************************************************)
(* The self-healing breaker of one lane (internal/orch/exclusion), and     *)
(* what a dispatch tells it (noteLaneHealth in cmd/mr-orchestrate): the    *)
(* adapter's own failures arm it, a healthy outcome clears it, the         *)
(* vendor's errors are none of its business.                               *)
(*                                                                         *)
(* An entry is [fails, until, last]; no entry is Healthy.  now is the      *)
(* instant the dispatch captured before its child ran.                     *)
(***************************************************************************)
EXTENDS Integers

CONSTANTS Threshold,  \* failures before the first exclusion (2)
          Base,       \* its length (1 min)
          Cap,        \* the longest (30 min)
          DecayAfter  \* a streak this quiet starts over (6 h)

ASSUME BreakerAssumption ==
  /\ Threshold \in Nat \ {0}
  /\ Base \in Nat \ {0}
  /\ Cap \in Nat \ {0}
  /\ DecayAfter \in Nat \ {0}

Never == -1
Healthy == [fails |-> 0, until |-> Never, last |-> Never]

\* Base, doubled for each failure past the threshold, and capped.
Backoff(past) == IF Base * 2 ^ (past - 1) >= Cap THEN Cap ELSE Base * 2 ^ (past - 1)

RecordFailure(e, now) ==
  LET fails == 1 + IF e.last # Never /\ now - e.last > DecayAfter THEN 0 ELSE e.fails
      past  == fails - Threshold + 1
  IN  [fails |-> fails, last |-> now,
       until |-> IF past >= 1 THEN now + Backoff(past) ELSE e.until]

Excluded(e, now) == e.until # Never /\ now < e.until

\* (Slip: any failed dispatch counts.)
AnyFailure(lane, class) == class \notin {"ok", "deferred"}
\* spawn_error and parse_error are ours on every lane, api_error on the local one.
AdapterFailed(lane, class) == \/ class = "adapter_error"
                              \/ class = "api_error" /\ lane = "local"
AdapterHealthy(class) == class \in {"ok", "deferred"}

Noted(e, lane, class, now) ==
  CASE AdapterFailed(lane, class) -> RecordFailure(e, now)
    [] AdapterHealthy(class)      -> Healthy
    [] OTHER                      -> e
=============================================================================
