------------------------------- MODULE Dispatch -------------------------------
(***************************************************************************)
(* Concurrent dispatches (doRun and the lane runners of                    *)
(* cmd/mr-orchestrate), each a process of its own: the internal route      *)
(* recommendation, the refusals force may and may not override, GLM        *)
(* pacing with its heartbeated lock, the child, and the bookkeeping after  *)
(* it: the 1313 latch, the ledger, the one receipt, the lane breaker, and  *)
(* the exit code the supervisor reads.                                     *)
(*                                                                         *)
(* What a lane's windows say is open, throttled or exhausted here; how     *)
(* they come to say it is QuotaStore's subject, and what the local         *)
(* limiters decide is StateLock's.                                         *)
(***************************************************************************)
EXTENDS Router, LaneHealth

CONSTANTS Procs,       \* concurrent dispatches
          NoProc, Gone,\* no holder of the pacing lock; a dead one
          Configs,     \* the operator's configurations, with what is asked under each
          Percents,    \* what a window's percentage may be when a route is computed
          MinInterval, \* between the starts of two GLM dispatches
          LockWait,    \* how long one waits for the pacing lock (5 min)
          LockStale,   \* how old that lock must be to be stolen (90 s)
          MaxClock     \* bound: the clock; a configuration bounds dispatches, deaths, quota moves

ASSUME DispatchAssumption ==
  /\ NoProc \notin Procs
  /\ Gone \notin Procs \cup {NoProc}
  /\ MinInterval \in Nat
  /\ LockWait \in Nat
  /\ LockStale \in Nat
  /\ MaxClock \in Nat
  /\ Percents \subseteq Int
  /\ \A c \in Configs : c.credential \in {"ok", "missing", "corrupt"}

VARIABLES
  clock,   \* the time
  config,  \* config.json, the credential files, and the bounds
  quota,   \* what admission reads of each lane
  moves,   \* how often somebody else moved it, at most once
  latch,   \* glm-alert.json exists
  health,  \* exclusions.json
  pace,    \* glm-lane.lock: who created it, and its mtime
  stamp,   \* glm-last-dispatch
  run,     \* each dispatch
  asks,    \* how many were asked
  crashes, \* how many died
  \* history
  owed,    \* dispatches whose 1313 nobody has acknowledged (nor failed to write down)
  streak   \* adapter failures of each lane since its last healthy dispatch

dispatchVars == <<clock, config, quota, moves, latch, health, pace, stamp, run, asks, crashes,
                  owed, streak>>
shared == <<clock, config, moves, asks, crashes>>

-----------------------------------------------------------------------------
Free  == {"groq", "gemini"}
Lanes == {"claude", "codex", "copilot", "glm", "local"} \cup Free
ThirdParty == {"glm"} \cup Free
Quotas == {"open", "throttled", "exhausted"}
Limited == {"local"} \cup Free

\* What a child's run is classified as.
Classes(lane) ==
  {"ok", "rate_limit", "api_error", "adapter_error", "empty_result"}
  \cup (IF lane = "glm" THEN {"strike"} ELSE {})
  \cup (IF lane = "local" THEN {"deferred"} ELSE {})

NoLock == [by |-> NoProc, at |-> 0]
NoStamp == -1
NoReceipt == [class |-> "none", admit |-> FALSE]
NoAsk == [lane |-> NoLane]
Idle == [pc |-> "idle", ask |-> NoAsk, lane |-> NoLane, now |-> 0, locked |-> FALSE,
         class |-> "none", costly |-> FALSE, sent |-> FALSE, receipt |-> NoReceipt, lost |-> FALSE,
         exit |-> -1, stranded |-> FALSE]

\* Where time passes; everything else takes none on the scale of the clock.
Slow == {"idle", "wait", "found", "held", "child"}

Set(p, r) == run' = [run EXCEPT ![p] = r]
Go(p, at) == Set(p, [run[p] EXCEPT !.pc = at])
Finish(p, exit) == Set(p, [run[p] EXCEPT !.pc = "end", !.exit = exit])
\* Appending to dispatch.jsonl may fail, which is only warned of.
Appended(r, class, admit) ==
  {[r EXCEPT !.receipt = [class |-> class, admit |-> admit]], [r EXCEPT !.lost = TRUE]}
Refuse(p, class, exit) ==
  \E r \in Appended([run[p] EXCEPT !.pc = "end", !.exit = exit], class, FALSE) : Set(p, r)

DispatchInit ==
  /\ clock = 0
  /\ config \in Configs
  /\ quota \in [Lanes -> Quotas] /\ \A l \in Lanes \ config.moving : quota[l] = "open"
  /\ moves = 0
  /\ latch = FALSE
  \* Some lanes have just failed once.
  /\ health = [l \in Lanes |-> IF l \in config.strained THEN RecordFailure(Healthy, 0) ELSE Healthy]
  \* A lock may be left, and dated in the future if the clock was set back.
  /\ pace \in {NoLock} \cup {[by |-> Gone, at |-> t] : t \in config.left}
  /\ stamp = NoStamp
  /\ run = [p \in Procs |-> Idle]
  /\ asks = 0
  /\ crashes = IF pace = NoLock THEN 0 ELSE 1
  /\ owed = {}
  /\ streak = [l \in Lanes |-> health[l].fails]

-----------------------------------------------------------------------------
(* The surroundings.                                                       *)

\* Whoever thinks it holds the pacing lock refreshes whatever file is there.
Beats == pace # NoLock /\ \E p \in Procs : run[p].locked
\* (Slip: nobody beats, the lock ages from its creation.)
NoBeat(at) == pace.at
Beat(at) == IF Beats THEN at ELSE pace.at

ClockTick ==
  /\ clock < MaxClock
  /\ \A p \in Procs : run[p].pc \in Slow
  /\ clock' = clock + 1
  /\ pace' = [pace EXCEPT !.at = Beat(clock + 1)]
  /\ UNCHANGED <<config, quota, moves, latch, health, stamp, run, asks, crashes, owed, streak>>

\* Polls, other sessions and resets.
QuotaMoves(l, q) ==
  /\ moves < 1 /\ l \in config.moving /\ quota[l] # q
  /\ moves' = moves + 1
  /\ quota' = [quota EXCEPT ![l] = q]
  /\ UNCHANGED <<clock, config, latch, health, pace, stamp, run, asks, crashes, owed, streak>>

\* probe --ack-glm.
AckGLM ==
  /\ latch
  /\ latch' = FALSE
  /\ owed' = {p \in owed : run[p].pc = "latch"}
  /\ UNCHANGED <<shared, quota, health, pace, stamp, run, streak>>

\* The process is killed: its lock file stays.
Crash(p) ==
  /\ run[p].pc \notin {"idle", "end"} /\ crashes < config.deaths
  /\ crashes' = crashes + 1
  /\ Set(p, Idle)
  /\ pace' = IF pace.by = p THEN [pace EXCEPT !.by = Gone] ELSE pace
  /\ owed' = IF run[p].pc = "latch" THEN owed \ {p} ELSE owed
  /\ UNCHANGED <<clock, config, quota, moves, latch, health, stamp, asks, streak>>

-----------------------------------------------------------------------------
(* The recommendation.                                                     *)

Ask(p, ask) ==
  /\ run[p].pc = "idle"
  /\ asks < config.asks /\ clock + LockWait < MaxClock
  /\ asks' = asks + 1
  /\ Set(p, [Idle EXCEPT !.pc = "route", !.ask = ask])
  /\ UNCHANGED <<clock, config, quota, moves, latch, health, pace, stamp, crashes, owed, streak>>

\* What takes a lane out before its windows are looked at.
PolicyState(l, class) ==
  IF l = "claude" /\ config.billing # "subscription" THEN "hard_stop"
  ELSE IF l = "glm" /\ config.retired THEN "retired"
  ELSE IF l = "glm" /\ latch THEN "hard_stop"
  ELSE IF l \in Free /\ config.freeOff THEN "off"
  ELSE IF l \in Free /\ config.credential # "ok" THEN "unconfigured"
  ELSE IF l = "gemini" /\ class \notin config.seated THEN "gated"
  ELSE quota[l]

BreakerOpen(l) == ~ config.exclusionOff /\ Excluded(health[l], clock)

\* laneStates, then the exclusions of this one consult.
StateOf(l, ask) ==
  LET s == PolicyState(l, ask.class)
  IN  IF l \in ask.exclude THEN "excluded"
      ELSE IF BreakerOpen(l) /\ s \notin {"hard_stop", "exhausted"} THEN "unavailable" ELSE s

\* The lanes as the router sees them.  A boost is only for batch work, on an
\* open lane that is not burning; the local lane has no windows.
LaneStates(ask, pct, lean) ==
  [l \in DOMAIN pct |->
     LET s == StateOf(l, ask)
     IN  [state |-> s,
          pct   |-> IF l = "local" THEN -1 ELSE pct[l],
          down  |-> IF lean[l] = "burning" /\ l # "local" THEN 2 ELSE 0,
          boost |-> IF lean[l] = "idle" /\ ask.batch /\ s = "open" /\ l # "local" THEN 1 ELSE 0]]

\* Some lane "auto" may go to would have taken this dispatch.
Reachable(ask) ==
  \E i \in DOMAIN Candidates(ask.class) :
    LET l == Candidates(ask.class)[i].lane
    IN  /\ l # "local" /\ l \notin ask.exclude /\ ~ OverContext(l, ask.ctx)
        /\ PolicyState(l, ask.class) \in {"open", "throttled"} /\ ~ BreakerOpen(l)

\* The resolved lane, unless it is refused: none for "auto", or one the caller excluded.
Resolve(p, lane, worked) ==
  LET ask == run[p].ask
      r   == [run[p] EXCEPT !.lane = lane, !.now = clock]
      out == [r EXCEPT !.pc = "end", !.exit = 3,
                       !.stranded = ask.lane = "auto" /\ worked /\ Reachable(ask)]
      class == IF lane = NoLane THEN "deferred" ELSE "lane_excluded"
  IN  /\ IF lane = NoLane \/ lane \in ask.exclude
         THEN \E e \in Appended(out, class, FALSE) : Set(p, e)
         ELSE Set(p, [r EXCEPT !.pc = "gate"])
      /\ UNCHANGED <<shared, quota, latch, health, pace, stamp, owed, streak>>

Named(p) == run[p].pc = "route" /\ run[p].ask.lane # "auto" /\ Resolve(p, run[p].ask.lane, TRUE)

AutoRoute(p) ==
  /\ run[p].pc = "route" /\ run[p].ask.lane = "auto"
  /\ LET ask == run[p].ask
         on  == {Candidates(ask.class)[i].lane : i \in DOMAIN Candidates(ask.class)}
     IN  \E pct \in [on -> Percents], lean \in [on -> config.leans] :
           Resolve(p, Route(ask.class, LaneStates(ask, pct, lean), ask.ctx, config.incident).auto, TRUE)

\* The oracle failed: an empty recommendation.
AutoBroken(p) == run[p].pc = "route" /\ run[p].ask.lane = "auto" /\ Resolve(p, NoLane, FALSE)

-----------------------------------------------------------------------------
(* The gates of a lane.                                                    *)

AtGate(p) == run[p].pc = "gate" /\ UNCHANGED <<shared, quota, latch, health, stamp, owed, streak>>

No(class, exit) == [class |-> class, exit |-> exit]
Yes == No("none", 0)

\* In the lane's own order; force has no say in any of them.
Refusal(l, ask) ==
  IF l = "glm" /\ config.retired THEN No("lane_retired", 3)
  ELSE IF l \in Free /\ config.freeOff THEN No("lane_off", 3)
  ELSE IF l \in ThirdParty /\ ask.leaks THEN No("egress_denied", 6)
  ELSE IF l = "gemini" /\ ask.class \notin config.seated THEN No("gated", 3)
  ELSE IF l \in Free /\ config.credential = "missing" THEN No("deferred", 3)
  ELSE IF l \in Free /\ config.credential = "corrupt" THEN No("none", 1)
  ELSE IF l = "claude" /\ config.billing # "subscription" THEN No("deferred", 3)
  ELSE IF l = "glm" /\ latch THEN No("deferred", 3)
  ELSE Yes

\* (Slip: force outranks everything.)
ForceIsKing(p) == IF run[p].ask.force THEN Yes ELSE Refusal(run[p].lane, run[p].ask)
Ruling(p) == Refusal(run[p].lane, run[p].ask)

\* What force does override: the windows, and a retired model.
Denied(p) == \/ quota[run[p].lane] = "exhausted"
             \/ run[p].lane = "claude" /\ run[p].ask.fable /\ ~ config.fable
Passed(p) == Ruling(p) = Yes /\ (run[p].lane = "local" \/ ~ Denied(p) \/ run[p].ask.force)

Refused(p) ==
  /\ AtGate(p) /\ Ruling(p) # Yes /\ UNCHANGED pace
  /\ IF Ruling(p).exit = 1 THEN Finish(p, 1) ELSE Refuse(p, Ruling(p).class, Ruling(p).exit)

Deferred(p) ==
  /\ AtGate(p) /\ Ruling(p) = Yes /\ ~ Passed(p) /\ UNCHANGED pace
  /\ Refuse(p, "deferred", 3)

DryRun(p) == AtGate(p) /\ Passed(p) /\ ~ run[p].ask.live /\ UNCHANGED pace /\ Finish(p, 0)

\* The lane's own limiter (a fault admits): a relegation on the local lane,
\* a failure on the free ones.
LimitReached(p) ==
  /\ AtGate(p) /\ Passed(p) /\ run[p].ask.live /\ run[p].lane \in Limited /\ UNCHANGED pace
  /\ Refuse(p, "rate_limit", IF run[p].lane = "local" THEN 3 ELSE 5)

Admitted(p) ==
  /\ AtGate(p) /\ Passed(p) /\ run[p].ask.live /\ UNCHANGED pace
  /\ Set(p, [run[p] EXCEPT !.pc = IF run[p].lane = "glm" /\ config.pacing THEN "wait" ELSE "ready"])

-----------------------------------------------------------------------------
(* GLM pacing (glmlane.Pace).                                              *)

Pacing(p, at) == run[p].pc = at /\ UNCHANGED <<shared, quota, latch, health, owed, streak>>

TakeLock(p) ==
  /\ Pacing(p, "wait") /\ pace = NoLock /\ UNCHANGED stamp
  /\ pace' = [by |-> p, at |-> clock]
  /\ Set(p, [run[p] EXCEPT !.pc = "held", !.locked = TRUE])

Stale == pace # NoLock /\ clock - pace.at > LockStale
\* (Slip: a dispatch waits for the lock as long as it takes.)
NeverTimedOut(p) == FALSE
TimedOut(p) == clock > run[p].now + LockWait

SeeLock(p) == Pacing(p, "wait") /\ pace # NoLock /\ Go(p, "found") /\ UNCHANGED <<pace, stamp>>

FoundStale(p) == Pacing(p, "found") /\ Stale /\ Go(p, "steal") /\ UNCHANGED <<pace, stamp>>

TryAgain(p) ==
  /\ Pacing(p, "found") /\ ~ Stale /\ ~ TimedOut(p)
  /\ Go(p, "wait") /\ UNCHANGED <<pace, stamp>>

\* The lock that is there now, not the one that was found stale.
Steal(p) == Pacing(p, "steal") /\ pace' = NoLock /\ Go(p, "wait") /\ UNCHANGED stamp

Busy(p) ==
  /\ Pacing(p, "found") /\ ~ Stale /\ TimedOut(p)
  /\ Refuse(p, "deferred", 3) /\ UNCHANGED <<pace, stamp>>

\* A stamp of the future is not slept on, and nobody sleeps past MaxClock.
TooSoon == stamp # NoStamp /\ clock - stamp \in 0 .. MinInterval - 1 /\ clock < MaxClock
Started(p) == Pacing(p, "held") /\ ~ TooSoon /\ stamp' = clock /\ Go(p, "ready") /\ UNCHANGED pace

-----------------------------------------------------------------------------
(* The child, and the bookkeeping after it.                                *)

\* Bad arguments, no token, no home: nothing was sent.
ConfigError(p) ==
  /\ run[p].pc = "ready" /\ run[p].lane # "local" /\ Finish(p, 1)
  /\ UNCHANGED <<shared, quota, latch, health, pace, stamp, owed, streak>>

Launch(p) ==
  /\ run[p].pc = "ready" /\ Set(p, [run[p] EXCEPT !.pc = "child", !.sent = TRUE])
  /\ UNCHANGED <<shared, quota, latch, health, pace, stamp, owed, streak>>

\* (Slip: the strike is left to the ledger transaction.)
LatchInLedger(l) == IF l = "local" THEN "health" ELSE "ledger"
AfterChild(l) == CASE l = "glm" -> "latch" [] l = "local" -> "health" [] OTHER -> "ledger"

Return(p) ==
  /\ run[p].pc = "child"
  /\ \E class \in Classes(run[p].lane), costly \in IF run[p].lane = "claude" THEN BOOLEAN ELSE {FALSE} :
       /\ Set(p, [run[p] EXCEPT !.pc = AfterChild(run[p].lane), !.class = class, !.costly = costly])
       /\ owed' = IF class = "strike" THEN owed \cup {p} ELSE owed
  /\ UNCHANGED <<shared, quota, latch, health, pace, stamp, streak>>

\* glm-alert.json is created once and only an acknowledgement removes it.  That it
\* could not be written is only warned of.
Latch(p) ==
  /\ run[p].pc = "latch" /\ Go(p, "ledger")
  /\ \/ latch' = (latch \/ run[p].class = "strike") /\ UNCHANGED owed
     \/ UNCHANGED latch /\ owed' = owed \ {p}
  /\ UNCHANGED <<shared, quota, health, pace, stamp, streak>>

\* A busy lock drops the update.
Ledger(p) ==
  /\ run[p].pc = "ledger" /\ Go(p, "receipt")
  /\ \E saved \in BOOLEAN :
       quota' = IF saved /\ run[p].class = "rate_limit"
                THEN [quota EXCEPT ![run[p].lane] = "exhausted"] ELSE quota
  /\ UNCHANGED <<shared, latch, health, pace, stamp, owed, streak>>

\* (Slip: the size alarm is looked at first.)
CostFirst(lane, class, costly) ==
  IF costly THEN 4 ELSE IF class = "ok" THEN 0 ELSE IF class = "deferred" THEN 3 ELSE 5
\* A failure outranks the size alarm.
ExitCode(lane, class, costly) ==
  IF class = "deferred" THEN 3 ELSE IF class # "ok" THEN 5 ELSE IF costly THEN 4 ELSE 0

ExitOf(p) == ExitCode(run[p].lane, run[p].class, run[p].costly)

\* The local lane tells the breaker first and ends with the receipt.
Receipt(p) ==
  /\ run[p].pc = "receipt"
  /\ \E r \in Appended(run[p], run[p].class, TRUE) :
       Set(p, IF run[p].lane = "local" THEN [r EXCEPT !.pc = "end", !.exit = ExitOf(p)]
              ELSE [r EXCEPT !.pc = "health"])
  /\ UNCHANGED <<shared, quota, latch, health, pace, stamp, owed, streak>>

\* The locked update of exclusions.json, dropped when its lock is busy.
Health(p) ==
  /\ run[p].pc = "health"
  /\ LET l == run[p].lane
         c == run[p].class
     IN  /\ IF l = "local" THEN Go(p, "receipt") ELSE Finish(p, ExitOf(p))
         /\ \/ UNCHANGED <<health, streak>>
            \/ /\ ~ config.exclusionOff
               /\ health' = [health EXCEPT ![l] = Noted(@, l, c, run[p].now)]
               /\ streak' = [streak EXCEPT ![l] =
                    CASE c = "adapter_error" \/ (c = "api_error" /\ l = "local") -> @ + 1
                      [] c \in {"ok", "deferred"} -> 0
                      [] OTHER -> @]
  /\ UNCHANGED <<shared, quota, latch, pace, stamp, owed>>

\* Returning removes whatever pacing lock is there, if this dispatch took one.
Leave(p) ==
  /\ run[p].pc = "end" /\ Set(p, Idle)
  /\ pace' = IF run[p].locked THEN NoLock ELSE pace
  /\ UNCHANGED <<shared, quota, latch, health, stamp, owed, streak>>

-----------------------------------------------------------------------------
Recommend(p) == Named(p) \/ AutoRoute(p) \/ AutoBroken(p)
Gate(p)  == Refused(p) \/ Deferred(p) \/ DryRun(p) \/ LimitReached(p) \/ Admitted(p)
Pace(p)  == TakeLock(p) \/ SeeLock(p) \/ TryAgain(p) \/ FoundStale(p) \/ Steal(p) \/ Busy(p) \/ Started(p)
Child(p) == ConfigError(p) \/ Launch(p) \/ Return(p)
After(p) == Latch(p) \/ Ledger(p) \/ Receipt(p) \/ Health(p) \/ Leave(p)
Step(p)  == Recommend(p) \/ Gate(p) \/ Pace(p) \/ Child(p) \/ After(p)

DispatchNext ==
  \/ ClockTick \/ AckGLM
  \/ \E l \in config.moving, q \in Quotas : QuotaMoves(l, q)
  \/ \E p \in Procs : Step(p) \/ Crash(p) \/ \E ask \in config.requests : Ask(p, ask)

DispatchSpec == DispatchInit /\ [][DispatchNext]_dispatchVars

\* A live dispatch goes on: its child is killed at the timeout at the latest.
DispatchFairSpec == /\ DispatchSpec
                    /\ WF_dispatchVars(ClockTick)
                    /\ \A p \in Procs : WF_dispatchVars(Step(p))

-----------------------------------------------------------------------------
(* Properties.                                                             *)

DispatchTypeOK ==
  /\ clock \in 0 .. MaxClock
  /\ config \in Configs
  /\ quota \in [Lanes -> Quotas]
  /\ latch \in BOOLEAN
  /\ pace \in [by : Procs \cup {NoProc, Gone}, at : 0 .. MaxClock]
  /\ stamp \in {NoStamp} \cup 0 .. MaxClock
  /\ \A p \in Procs : /\ run[p].lane \in Lanes \cup {NoLane}
                       /\ run[p].exit \in {-1, 0, 1, 3, 4, 5, 6}
                       /\ run[p].receipt.class = "none" => ~ run[p].receipt.admit
  /\ owed \subseteq Procs

\* What the strategy supervisor concludes from an exit code is true: 3 and 6
\* (relegate) and 1 (config error) spent no quota, 0 and 4 are successes, 5 is
\* not (claudeExitCode, nodeClassFromExit).  An admitting receipt is only ever
\* there for a run that was sent, and one that was sent has it unless the append
\* failed: what recovery concludes from a receipt is true, and from a missing
\* one is not.
ExitIsHonest ==
  \A p \in Procs : LET r == run[p] IN r.pc = "end" =>
    /\ r.receipt.admit => r.sent
    /\ r.sent => r.receipt.admit \/ r.lost
    /\ r.exit \in {1, 6} => ~ r.sent
    /\ r.exit = 3 => ~ r.sent \/ r.lane = "local"
    /\ r.exit \in {0, 4} /\ r.sent => r.class = "ok"
    /\ r.exit = 0 /\ ~ r.sent => ~ r.ask.live
    /\ r.exit = 5 /\ r.sent => r.class \notin {"ok", "deferred"}
    /\ r.exit = 5 => r.receipt.class \notin {"ok", "deferred", "none"} \/ r.lost

\* Nothing is ever sent against the operator's own word: a billing mode that
\* spends money, a retired or switched-off lane, a denied export, a class that
\* is not allowlisted, a lane the caller excluded, a dry run; force or not
\* (gateSubject, runGLMLane, runFreeLane, doRun).
ForceProof ==
  \A p \in Procs : LET r == run[p] IN r.sent =>
    /\ r.ask.live /\ r.lane \notin r.ask.exclude
    /\ r.lane = "claude" => config.billing = "subscription"
    /\ r.lane = "glm" => ~ config.retired
    /\ r.lane \in Free => ~ config.freeOff /\ config.credential = "ok"
    /\ r.lane \in ThirdParty => ~ r.ask.leaks
    /\ r.lane = "gemini" => r.ask.class \in config.seated

\* Once the dispatch that drew a 1313 strike is past the latch, the lane stays
\* latched until the operator acknowledges, whether or not the ledger's lock
\* could be had (latchGLMHardStop), unless glm-alert.json could not be written,
\* which is only warned of.
StrikeLatched == \A p \in owed : run[p].pc # "latch" => latch

\* With pacing on, and as long as no dispatch died with the lock, one GLM child
\* runs at a time, however long it takes (glmlane.Pace and its heartbeat).  Pace
\* fails open where its directory or the lock file can not be created (pace.go:67
\* and 83), and a heartbeat may fail: a file system that refuses is left out.
OneGLMChild ==
  crashes = 0 /\ config.pacing =>
    \A p, q \in Procs : run[p].lane = "glm" /\ run[q].lane = "glm"
                        /\ run[p].pc = "child" /\ run[q].pc = "child" => p = q

\* The breaker excludes a lane only for its adapter: for as many failures of
\* it as the threshold since it last worked, and never for longer than the
\* longest backoff from now (noteLaneHealth, RecordFailure).
ExclusionIsEarned ==
  \A l \in Lanes : Excluded(health[l], clock) =>
    streak[l] >= Threshold /\ health[l].until <= clock + Cap

\* A dispatch to "auto" is turned away only if no lane it may go to would have
\* taken it (Route's masks and alternatives, resolveLane's local hand-off).
AutoFindsALane == \A p \in Procs : ~ run[p].stranded


\* A failure that reaches the threshold excludes the lane, "for a backoff that
\* doubles on each further failure" (the exclusion package's own account).
FailureExcludes ==
  [][\A l \in Lanes : health'[l].fails > health[l].fails /\ health'[l].fails >= Threshold
                        => Excluded(health'[l], clock)]_dispatchVars
=============================================================================
