----------------------------- MODULE LaneOutcomes -----------------------------
(***************************************************************************)
(* What the signals do to one lane's buckets L: the statusline drop, the   *)
(* usage poll, a probe's stream events (internal/orch/quotasig) and the    *)
(* outcome of a dispatch on each lane (the apply*Outcome functions of      *)
(* cmd/mr-orchestrate).  Every operator is the body of one ledger          *)
(* transaction; now is the instant its caller captured, which for a        *)
(* dispatch is before the child ran.                                       *)
(*                                                                         *)
(* An outcome is [class, units, flush, retry, rate]: units what it spent   *)
(* in the lane's unit, flush the instant a GLM error names (0 is none),    *)
(* retry the Retry-After of a free lane (0 is none, "minute" below five    *)
(* minutes), rate the day figures of its headers or NoRate.                *)
(***************************************************************************)
EXTENDS QuotaLedger

CONSTANTS DropMaxAge,   \* how old a statusline drop may be
          SevenDays,    \* the weekly self-anchor
          TenYears,     \* the anchor of a trial pool
          GLM5hPrompts, \* the documented GLM plan quota
          GuessedCap,   \* configured capacity estimates (codex, copilot, free)
          Floor         \* what a vendor call costs at least, where it is metered per call

ASSUME OutcomeAssumption ==
  /\ DropMaxAge \in Nat
  /\ SevenDays \in Nat \ {0}
  /\ TenYears \in Nat \ {0}
  /\ GLM5hPrompts \in Nat \ {0}
  /\ GuessedCap \in Nat
  /\ Floor \in Nat \ {0}

Lanes == {"claude", "codex", "glm", "copilot", "groq", "nim"}
\* The free lanes are modelled by one of each window kind.
FreeWindow(lane) == IF lane = "nim" THEN "trial" ELSE "day"
WindowsOf(lane) == CASE lane \in {"claude", "codex", "glm"} -> {"5h", "7d"}
                     [] lane = "copilot" -> {"month"}
                     [] OTHER -> {FreeWindow(lane)}

NoDrop == [at |-> Zero, obs |-> <<>>]
NoRate == [limit |-> 0, pct |-> 0, reset |-> 0]

On(L, w, b) == [L EXCEPT ![w] = b]

-----------------------------------------------------------------------------
(* The provider's readings.                                                *)

\* A reading with no reset moment, or one that has passed, is unusable.
Usable(r, now) == r.reset # Zero /\ r.reset >= now

Land(L, readings, by, at, now) ==
  [w \in DOMAIN L |->
     IF w \in DOMAIN readings /\ Usable(readings[w], now)
     THEN Observe(w, L[w], [by |-> by, pct |-> readings[w].pct,
                            reset |-> readings[w].reset, at |-> at], now)
     ELSE L[w]]

\* The drop's age is that of the file, which the future cannot postpone.
DropTime(drop, now) == IF drop.at > now THEN now ELSE drop.at
Ingest(L, drop, now) ==
  IF drop = NoDrop \/ now - DropTime(drop, now) > DropMaxAge THEN L
  ELSE Land(L, drop.obs, "drop", DropTime(drop, now), now)

\* cap: the entitlement a copilot poll carries, 0 for every other poll.
ApplyPoll(L, readings, cap, now) ==
  LET M == IF cap > 0 THEN On(L, "month", SetCapacity(L["month"], cap)) ELSE L
  IN  Land(M, readings, "poll", now, now)

\* The rate_limit_events of a probe's stream capture.
IngestStream(L, w, status, reset, now) ==
  IF reset = Zero \/ reset < now THEN L
  ELSE CASE status = "allowed"  -> On(L, w, AnchorAuthoritative(w, L[w], reset, now))
         [] status = "rejected" -> On(L, w, ObserveLimit(w, L[w], reset, now))
         [] OTHER -> L

\* status fits capacities from the trace; a fit close to a measured one is dropped.
MaybeFit(L, w, fit) ==
  LET cur == IF L[w].guess THEN 0 ELSE L[w].cap
  IN  IF cur > 0 /\ 10 * (fit - cur) <= cur /\ 10 * (cur - fit) <= cur THEN L
      ELSE On(L, w, SetCapacity(L[w], fit))

-----------------------------------------------------------------------------
(* The outcome of a dispatch.                                              *)

\* An upstream rate limit closes the 5h window.
Limit5h(L, o, now) ==
  IF o.class = "rate_limit"
  THEN On(L, "5h", ObserveLimit("5h", L["5h"], now + FiveHours, now)) ELSE L

Meter(L, units, now) == [w \in DOMAIN L |-> AddShadow(w, L[w], units, now)]

ApplyClaude(L, o, drop, now) == Limit5h(Meter(Ingest(L, drop, now), o.units, now), o, now)

\* (Slip: the configured guess is written on every dispatch.)
AlwaysSeed(b, cap) == SetCapacityEstimate(b, cap)
SeedEstimate(b, cap) == IF b.cap = 0 THEN SetCapacityEstimate(b, cap) ELSE b

\* suppress: the 5h estimate is known to be a phantom (Suppress of the gate).
ApplyCodex(L, o, suppress, now) ==
  LET five == IF suppress THEN ClearCapacity("5h", L["5h"], now)
              ELSE SeedEstimate(L["5h"], GuessedCap)
      M    == [L EXCEPT !["5h"] = five,
                        !["7d"] = AnchorIfUnset("7d", @, now + SevenDays, now)]
  IN  Limit5h(IF o.units > 0 THEN Meter(M, o.units, now) ELSE M, o, now)

\* The documented quotas; shadow of before prompt metering is dropped once.
SeedGLM(b, cap, now) ==
  LET c == IF b.there /\ b.cap = 0 /\ b.shadow > 5 * GLM5hPrompts THEN ClearShadow(b, now) ELSE b
  IN  IF c.cap = 0 THEN SetCapacity(c, cap) ELSE c

\* A cooldown closes the 5h window, an offline class the week.
LimitGLM(L, o, now) ==
  LET resume(fallback) == IF o.flush > now THEN o.flush ELSE now + fallback
  IN  CASE o.class = "cooldown" ->
             On(L, "5h", ObserveLimit("5h", L["5h"], resume(FiveHours), now))
        [] o.class = "offline" ->
             On(L, "7d", ObserveLimit("7d", L["7d"], resume(DayLength), now))
        [] OTHER -> Limit5h(L, o, now)

ApplyGLM(L, o, now) ==
  IF o.class = "spawn_error" THEN L
  ELSE LET M == [L EXCEPT !["5h"] = SeedGLM(@, GLM5hPrompts, now),
                          !["7d"] = AnchorIfUnset("7d", SeedGLM(@, 5 * GLM5hPrompts, now),
                                                  now + SevenDays, now)]
       IN  LimitGLM(Meter(M, o.units, now), o, now)

ApplyCopilot(L, o, now) ==
  LET b == AnchorIfUnset("month", SeedEstimate(L["month"], GuessedCap), NextMonthlyReset(now), now)
      m == IF o.class = "ok" \/ o.units > 0
           THEN AddShadow("month", b, IF o.units > Floor THEN o.units ELSE Floor, now) ELSE b
  IN  On(L, "month", IF o.class = "rate_limit"
                     THEN ObserveLimit("month", m, NextMonthlyReset(now), now) ELSE m)

\* The vendor's own day figures: a measured capacity and a reading.
ReadHeaders(b, rate, now) ==
  IF rate.limit = 0 THEN b
  ELSE Observe("day", SetCapacity(b, rate.limit),
               [by |-> "poll", pct |-> rate.pct, at |-> now,
                reset |-> IF rate.reset > 0 THEN now + rate.reset ELSE NextDailyReset(now)], now)

\* A rate limit of the minute says nothing of the day; a payment demand is
\* checked again in a day.
LimitFree(w, b, o, now) ==
  CASE o.class = "rate_limit" /\ o.retry # "minute" ->
         ObserveLimit(w, b, IF o.retry = "hours" THEN now + FiveHours
                            ELSE IF w = "day" THEN NextDailyReset(now)
                            ELSE now + DayLength, now)
    [] o.class = "payment_required" -> ObserveLimit(w, b, now + DayLength, now)
    [] OTHER -> b

ApplyFree(L, w, o, now) ==
  LET b == AnchorIfUnset(w, SeedEstimate(L[w], GuessedCap),
                         IF w = "day" THEN NextDailyReset(now) ELSE now + TenYears, now)
      m == AddShadow(w, b, o.units, now)
      h == IF w = "day" THEN ReadHeaders(m, o.rate, now) ELSE m
  IN  On(L, w, IF o.class \in {"spawn_error", "config_error"} THEN b
               ELSE LimitFree(w, h, o, now))

\* suppress and drop matter to codex and claude only.
Apply(lane, L, o, drop, suppress, now) ==
  CASE lane = "claude"  -> ApplyClaude(L, o, drop, now)
    [] lane = "codex"   -> ApplyCodex(L, o, suppress, now)
    [] lane = "glm"     -> ApplyGLM(L, o, now)
    [] lane = "copilot" -> ApplyCopilot(L, o, now)
    [] OTHER            -> ApplyFree(L, FreeWindow(lane), o, now)
=============================================================================
