----------------------------- MODULE StrategyIR -----------------------------
(***************************************************************************)
(* The strategy DAG (internal/orch/strategy/ir.go) and the pure functions  *)
(* the executor applies to it: the failure taxonomy, the ready set, the    *)
(* composition of a wave and the final verdict.                            *)
(*                                                                         *)
(* A validated IR lists its steps in dependency order, so a step is named  *)
(* here by its position in the list: Steps == 1 .. NumSteps, and the last  *)
(* step is the terminal one.  IRAssumption is what Validate guarantees of  *)
(* an IR it admits: every dependency is listed earlier, and the last step  *)
(* is the only one nothing depends on.                                     *)
(*                                                                         *)
(* A definition marked "Slip" is no part of the model: it is the           *)
(* definition next to it with a plausible mistake in it, against which the *)
(* properties are tested (PROJECT.json, mutants).                          *)
(***************************************************************************)
EXTENDS Integers, FiniteSets

CONSTANTS NumSteps,    \* how many steps the IR lists
          Deps,        \* Deps[s]: the steps s depends on
          Hint,        \* Hint[s]: the lane the IR pins, or NoLane (router decides)
          Verifiers,   \* the steps whose role is "verifier"
          Lanes,       \* the lanes a step can be dispatched to
          Local,       \* the free, read-only local lane
          NoLane       \* "", no lane pinned or none resolved

Steps    == 1 .. NumSteps
LastStep == NumSteps

ASSUME IRAssumption ==
  /\ NumSteps \in Nat \ {0}
  /\ Deps \in [Steps -> SUBSET Steps]
  /\ \A s \in Steps : \A d \in Deps[s] : d < s
  /\ \A s \in Steps \ {LastStep} : \E t \in Steps : s \in Deps[t]
  /\ Local \in Lanes
  /\ NoLane \notin Lanes
  /\ Hint \in [Steps -> Lanes \cup {NoLane}]
  /\ Verifiers \subseteq Steps

-----------------------------------------------------------------------------
(* The failure taxonomy (classifyOutcome).                                 *)

\* No outcome recorded yet.
Pending == ""

OkClasses       == {"ok", "ok_notional"}
RelegateClasses == {"deferred", "rate_limit", "incomplete"}
\* "api_error" stands for every class a model's failure can have; "config_error"
\* is the class of a run that failed before it could write a receipt.
HardClasses     == {"api_error", "config_error"}
\* What only a receipt says: the lane turned the dispatch away ("lane_retired",
\* "lane_excluded", "lane_off", "gated").
RefusalClasses  == {"lane_retired"}
Outcomes        == OkClasses \cup RelegateClasses \cup HardClasses \cup RefusalClasses
\* "blocked" is written by recovery only.
Classes         == Outcomes \cup {"blocked"}

Ok(class)         == class \in OkClasses
Relegated(class)  == class \in RelegateClasses
HardFailed(class) == ~ Ok(class) /\ ~ Relegated(class)

-----------------------------------------------------------------------------
(* What the durable state says of a step, as far as the walk reads it.     *)

Verdicts == {"", "yes", "no"}

\* The fields the walk reads: OutcomeClass, StartedAt # nil, Attempt, Lane,
\* ResultRef # "" and VerifyVerdict.
FreshStep == [class |-> Pending, started |-> FALSE, attempt |-> 0,
              lane |-> NoLane, ref |-> FALSE, verdict |-> ""]

\* (Slip: a dependency need only have ended.)
ReadyAfterAnyOutcome(step) ==
  {s \in Steps : /\ step[s].class = Pending
                 /\ \A d \in Deps[s] : step[d].class # Pending}

\* readySet: no outcome yet, and every dependency succeeded.
ReadySet(step) ==
  {s \in Steps : /\ step[s].class = Pending
                 /\ \A d \in Deps[s] : Ok(step[d].class)}

\* pickWave: in IR order, at most cap steps, a resolved lane at most once.  The
\* first ready step of a lane is taken unless the cap is already reached, and
\* then nothing after it is taken either, so the greedy scan keeps exactly the
\* first cap of the steps that lead their lane.
PickWave(ready, lane, cap) ==
  LET leads(s) == \/ lane[s] = NoLane
                  \/ \A t \in ready : t < s => lane[t] # lane[s]
      leaders  == {s \in ready : leads(s)}
  IN  {s \in leaders : Cardinality({t \in leaders : t < s}) < cap}

-----------------------------------------------------------------------------
(* finalize: the verdict on the whole dispatch.                            *)

AnyBlocked(step)    == \E s \in Steps : step[s].class = "blocked"
AnyHardFailed(step) == \E s \in Steps : /\ step[s].class \notin {Pending, "blocked"}
                                        /\ HardFailed(step[s].class)
AnyDeferred(step)   == \E s \in Steps : Relegated(step[s].class)

\* Slips: only the terminal step's own failure counts; a failure outranks a
\* block.
TerminalFailureOnly(step) ==
  LET last == step[LastStep].class
  IN  IF AnyBlocked(step) THEN "blocked"
      ELSE IF last # Pending /\ HardFailed(last) THEN "failed"
      ELSE IF AnyDeferred(step) THEN "deferred"
      ELSE "done"
FailedFirst(step) ==
  IF AnyHardFailed(step) THEN "failed"
  ELSE IF AnyBlocked(step) THEN "blocked"
  ELSE IF Ok(step[LastStep].class) THEN "done"
  ELSE IF AnyDeferred(step) THEN "deferred"
  ELSE "failed"

FinalState(step) ==
  IF AnyBlocked(step) THEN "blocked"
  ELSE IF AnyHardFailed(step) THEN "failed"
  ELSE IF Ok(step[LastStep].class) THEN "done"
  ELSE IF AnyDeferred(step) THEN "deferred"
  ELSE "failed"

\* The reference is the terminal step's artifact; a deferral carries none.
FinalRef(step) == FinalState(step) # "deferred" /\ step[LastStep].ref

\* The last verdict in IR order is the authoritative one.
FinalVerdict(step) ==
  LET judged == {s \in Steps : step[s].verdict # ""}
  IN  IF judged = {} THEN ""
      ELSE step[CHOOSE s \in judged : \A t \in judged : t <= s].verdict

\* (Slip: a dispatch that is done is not flagged.)
FlagOnlyFailures(step) ==
  FinalState(step) # "done" /\ FinalVerdict(step) \notin {"", "yes"}
FinalFlag(step) == FinalVerdict(step) \notin {"", "yes"}
=============================================================================
