-------------------------- MODULE DispatchContract --------------------------
(***************************************************************************)
(* What a strategy dispatch promises to whoever asked for it, without      *)
(* processes, leases, receipts or crashes: each step goes through its      *)
(* attempts at most once when an attempt costs quota, results are kept,    *)
(* and the published verdict is the one the step outcomes call for.        *)
(* Supervisor implements this specification as long as no living           *)
(* supervisor loses its lease.                                             *)
(***************************************************************************)
EXTENDS StrategyIR

CONSTANT MaxAttempt   \* a natural number, the one re-lane: 1

VARIABLES phase,      \* where each step is
          attempt,    \* which attempt it is at
          paid,       \* the attempt under way was started on a cloud lane
          verdict     \* what strategy_status publishes, "open" until it is final

vars == <<phase, attempt, paid, verdict>>

Ended    == {"ok", "relegated", "failed"}
Phases   == {"todo", "running", "blocked"} \cup Ended
Verdict  == {"open", "done", "failed", "deferred", "blocked", "cancelled"}

TypeOK ==
  /\ phase \in [Steps -> Phases]
  /\ attempt \in [Steps -> 0 .. MaxAttempt]
  /\ paid \in [Steps -> BOOLEAN]
  /\ verdict \in Verdict

Init ==
  /\ phase = [s \in Steps |-> "todo"]
  /\ attempt = [s \in Steps |-> 0]
  /\ paid = [s \in Steps |-> FALSE]
  /\ verdict = "open"

Ready(s) == phase[s] = "todo" /\ \A d \in Deps[s] : phase[d] = "ok"

\* The verdict the outcomes call for: blocked > failed > done > deferred.
Called ==
  LET some(ph) == \E s \in Steps : phase[s] = ph
  IN  IF some("blocked") THEN "blocked"
      ELSE IF some("failed") THEN "failed"
      ELSE IF phase[LastStep] = "ok" THEN "done"
      ELSE IF some("relegated") THEN "deferred"
      ELSE "failed"

-----------------------------------------------------------------------------
Begin(s) ==
  /\ verdict = "open" /\ Ready(s)
  /\ phase' = [phase EXCEPT ![s] = "running"]
  /\ \E p \in BOOLEAN : paid' = [paid EXCEPT ![s] = p]
  /\ UNCHANGED <<attempt, verdict>>

\* The attempt's outcome is recorded, by whoever ran it or by recovery.
End(s) ==
  /\ phase[s] = "running"
  /\ \E out \in Ended : phase' = [phase EXCEPT ![s] = out]
  /\ paid' = [paid EXCEPT ![s] = FALSE]
  /\ UNCHANGED <<attempt, verdict>>

\* A hard failure moves on to the next attempt.
Retry(s) ==
  /\ phase[s] = "running" /\ attempt[s] < MaxAttempt
  /\ phase' = [phase EXCEPT ![s] = "todo"]
  /\ attempt' = [attempt EXCEPT ![s] = @ + 1]
  /\ paid' = [paid EXCEPT ![s] = FALSE]
  /\ UNCHANGED verdict

\* The attempt's fate is unknown: run it again only if that is free ...
Redo(s) ==
  /\ phase[s] = "running" /\ ~ paid[s]
  /\ phase' = [phase EXCEPT ![s] = "todo"]
  /\ UNCHANGED <<attempt, paid, verdict>>

\* ... and otherwise leave it to the operator.
Block(s) ==
  /\ phase[s] = "running" /\ paid[s]
  /\ phase' = [phase EXCEPT ![s] = "blocked"]
  /\ paid' = [paid EXCEPT ![s] = FALSE]
  /\ UNCHANGED <<attempt, verdict>>

\* Nothing is published while a step runs.
Publish ==
  /\ \A s \in Steps : phase[s] # "running"
  /\ verdict' \in {Called, "cancelled"}
  /\ UNCHANGED <<phase, attempt, paid>>

\* A resumed dispatch is open again only if something is left to run.
Reopen ==
  /\ \E s \in Steps : Ready(s)
  /\ verdict' = "open"
  /\ UNCHANGED <<phase, attempt, paid>>

Next == \/ \E s \in Steps : \/ Begin(s) \/ End(s) \/ Retry(s) \/ Redo(s) \/ Block(s)
        \/ Publish
        \/ Reopen

Spec == Init /\ [][Next]_vars
=============================================================================
