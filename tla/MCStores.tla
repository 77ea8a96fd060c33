------------------------------- MODULE MCStores -------------------------------
(***************************************************************************)
(* What the program keeps on disk between its runs, one part at a time: a  *)
(* lane's quota ledger, a lock file and the limiter it protects, the skill *)
(* index, the host's configuration, the hook's log.  The parts share no    *)
(* state, so a behaviour runs one of them while the others rest.           *)
(***************************************************************************)
EXTENDS QuotaStore, StateLock, MCIndex, MCInstall, Hook

-----------------------------------------------------------------------------
\* What each lane can return.
Plain(c, u) == [class |-> c, units |-> u, flush |-> 0, retry |-> "none", rate |-> NoRate]
Answers == {Plain("ok", 2), Plain("rate_limit", 1), Plain("spawn_error", 0)}
Flushed(c, at) == [Plain(c, 1) EXCEPT !.flush = at]
Retried(t) == [Plain("rate_limit", 1) EXCEPT !.retry = t]
Headed(c, pct, reset) ==
  [Plain(c, 1) EXCEPT !.rate = [limit |-> 4, pct |-> pct, reset |-> reset]]

LaneAnswers ==
  [l \in Lanes |->
     CASE l = "glm" -> Answers \cup {Flushed("cooldown", 0), Flushed("cooldown", 3),
                                     Flushed("offline", 0), Flushed("offline", 4),
                                     Plain("retry", 1)}
       [] l = "groq" -> Answers \cup {Retried("minute"), Retried("hours"),
                                      Headed("ok", 50, 0), Headed("ok", 100, 1),
                                      Headed("rate_limit", 100, 1), Plain("config_error", 0)}
       [] l = "nim" -> Answers \cup {Plain("payment_required", 1), Retried("hours")}
       [] OTHER -> Answers]

\* The lanes the vendor reports on have many more states per event.
LaneEvents == [l \in Lanes |-> CASE l \in {"claude", "codex"} -> 2
                                 [] l = "copilot" -> 3
                                 [] OTHER -> 4]
LaneWall   == [l \in Lanes |-> IF l = "nim" THEN 5 ELSE 4]

-----------------------------------------------------------------------------
\* A router whose load gives up, with prompts enough to look stuck, and every
\* other thing that can listen on a port.
Candidate(id, cos) == [id |-> id, cos |-> cos]
Mixed == <<Candidate("a", "clears"), Candidate("b", "clears"), Candidate("c", "clears"),
           Candidate("d", "below")>>
Weak == <<Candidate("a", "below"), Candidate("b", "below")>>
Healthy ==
  [ports |-> <<"router">>, pinned |-> FALSE, ranker |-> "embed", coldSkip |-> TRUE, spec |-> "ok",
   child |-> FALSE, heldOut |-> {}, loads |-> TRUE, found |-> Mixed, order |-> <<4, 3, 2, 1>>,
   barred |-> {"a"}, asks |-> 2, kinds |-> {"typed"}]
SomeHooks ==
  {[Healthy EXCEPT !.asks = 3], [Healthy EXCEPT !.loads = FALSE, !.asks = 4],
   [Healthy EXCEPT !.asks = 0], [Healthy EXCEPT !.coldSkip = FALSE],
   [Healthy EXCEPT !.ranker = "rerank", !.heldOut = {1}],
   [Healthy EXCEPT !.ports = <<"none", "plain">>, !.ranker = "hybrid"],
   [Healthy EXCEPT !.ports = <<"plain">>, !.found = Weak, !.order = <<2, 1>>],
   [Healthy EXCEPT !.ports = <<"sick", "plain">>],
   [Healthy EXCEPT !.ports = <<"alien", "plain">>, !.pinned = TRUE],
   [Healthy EXCEPT !.ports = <<"other", "other dim">>, !.coldSkip = FALSE],
   [Healthy EXCEPT !.spec = "none"], [Healthy EXCEPT !.spec = "mismatch"]}
  \cup {[Healthy EXCEPT !.child = c, !.ports = <<"plain">>,
                        !.kinds = {"typed", "too-short", "too-long", "machine"}] : c \in BOOLEAN}
-----------------------------------------------------------------------------
VARIABLE store
allVars == <<store, quotaVars, lockVars, indexVars, installVars, hookVars>>

\* A part that rests has one initial state.
Init ==
  /\ store \in {"ledger", "lock", "index", "install", "hook"}
  /\ QuotaInit /\ (store # "ledger" => lane = "nim")
  /\ LockInit /\ (store # "lock" => lock = None)
  /\ IndexInit /\ (store # "index" => left = Unused)
  /\ InstallInit /\ (store # "install" => budget = Budget(0, 0, 0, 0))
  /\ HookInit /\ (store # "hook" => hookConf.asks = 0)

Ledger  == store = "ledger" /\ QuotaNext
           /\ UNCHANGED <<store, lockVars, indexVars, installVars, hookVars>>
LockRests == UNCHANGED <<store, quotaVars, indexVars, installVars, hookVars>>
Clock       == store = "lock" /\ ClockTick /\ LockRests
Opened      == store = "lock" /\ Jam /\ LockRests
Dispatch(p) == store = "lock" /\ (Ask(p) \/ Crash(p)) /\ LockRests
Limiter(p)  == store = "lock" /\ LockStep(p) /\ LockRests
Index   == store = "index" /\ IndexNext
           /\ UNCHANGED <<store, quotaVars, lockVars, installVars, hookVars>>
Host    == store = "install" /\ InstallNext
           /\ UNCHANGED <<store, quotaVars, lockVars, indexVars, hookVars>>
Prompts == store = "hook" /\ HookNext
           /\ UNCHANGED <<store, quotaVars, lockVars, indexVars, installVars>>

Next == \/ Ledger \/ Index \/ Host \/ Prompts \/ Clock \/ Opened
        \/ \E p \in Procs : Dispatch(p) \/ Limiter(p)

\* The clock runs, and so does a process that has not died.
Spec == /\ Init /\ [][Next]_allVars
        /\ WF_allVars(Clock)
        /\ \A p \in Procs : WF_allVars(Limiter(p))
=============================================================================
