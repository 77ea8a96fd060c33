----------------------------- MODULE QuotaLedger -----------------------------
(***************************************************************************)
(* The quota ledger's buckets (internal/orch/ledger/ledger.go) and the     *)
(* admission decision read off them (internal/orch/admission).             *)
(*                                                                         *)
(* A bucket is the usage of one lane in one window.  Three kinds of signal *)
(* land in it: what the dispatches of this device spent (the shadow), what *)
(* the vendor reports (a statusline drop, a usage poll) and a vendor       *)
(* denial.  Instants are naturals, 0 is the zero time; percentages are     *)
(* integers, -1 is unknown, so the derived percentage loses its fraction.  *)
(***************************************************************************)
EXTENDS Integers, FiniteSets

CONSTANTS AuthorityTTL,  \* how long an authority outranks a lower one
          FiveHours,     \* the 5h window, and the resume guessed for it
          DayLength,     \* 24h: the calendar day, and the daily re-check
          MonthLength,   \* the calendar month
          ThrottlePct,   \* admission thresholds
          ExhaustPct

ASSUME LedgerAssumption ==
  /\ AuthorityTTL \in Nat
  /\ FiveHours \in Nat \ {0}
  /\ DayLength \in Nat \ {0}
  /\ MonthLength \in Nat \ {0}
  /\ ThrottlePct \in 1 .. 100
  /\ ExhaustPct \in 1 .. 100

Windows == {"5h", "7d", "day", "month", "trial"}
Zero == 0

\* The sources of a provider reading, and their authority.  "none" is a reading
\* of before sources were recorded.
Signals == {"none", "drop", "poll", "limit"}
Rank(by) == CASE by = "limit" -> 3 [] by = "poll" -> 2 [] by = "drop" -> 1 [] OTHER -> 0

NextDailyReset(now)   == (now \div DayLength + 1) * DayLength
NextMonthlyReset(now) == (now \div MonthLength + 1) * MonthLength

\* there: the row exists; guess: CapSource is the estimate mark; by: ProviderSource.
Bucket == [there: BOOLEAN, pct: Int, reset: Nat, src: {"none", "shadow", "provider"},
           by: Signals, obs: Nat, changed: Nat, shadow: Nat, cap: Nat, guess: BOOLEAN]

NewBucket == [there |-> FALSE, pct |-> -1, reset |-> Zero, src |-> "none", by |-> "none",
              obs |-> Zero, changed |-> Zero, shadow |-> 0, cap |-> 0, guess |-> FALSE]

-----------------------------------------------------------------------------
(* What the mutators do to one bucket.                                     *)

Passed(b, now) == b.reset # Zero /\ now > b.reset

\* (Slip: a trial pool renews like any other window.)
GenericRoll(w, b, now) ==
  IF Passed(b, now)
  THEN [b EXCEPT !.pct = -1, !.src = "shadow", !.reset = Zero, !.by = "none", !.shadow = 0]
  ELSE b

\* A window whose reset has passed starts over, but what was spent of a trial
\* pool is spent for good.
Roll(w, b, now) ==
  IF Passed(b, now)
  THEN [b EXCEPT !.pct = -1, !.src = "shadow", !.reset = Zero, !.by = "none",
                 !.shadow = IF w = "trial" THEN @ ELSE 0]
  ELSE b

\* get, then roll.
Fresh(w, b, now) == [Roll(w, b, now) EXCEPT !.there = TRUE]

FromProvider(b) == b.src = "provider"

\* (Slips: last writer wins; an older reading replaces a newer one.)
LastWriterWins(b, o, now) == FALSE
Outranked(b, o, now) ==
  /\ FromProvider(b)
  /\ b.obs # Zero
  /\ now - b.obs <= AuthorityTTL
  /\ Rank(o.by) < Rank(b.by)

AnyOrder(b, o, at) == FALSE
\* An older reading never replaces a newer one of the same or higher rank.
Rewinds(b, o, at) ==
  /\ FromProvider(b)
  /\ b.obs # Zero
  /\ at < b.obs
  /\ Rank(o.by) <= Rank(b.by)

\* (Slip: the observation is stamped when it is ingested.)
IngestTime(o, now) == now
\* No observation is from the future.
SeenAt(o, now) == IF o.at = Zero \/ o.at > now THEN now ELSE o.at

Observe(w, b, o, now) ==
  LET r  == Fresh(w, b, now)
      at == SeenAt(o, now)
  IN  IF Outranked(r, o, now) \/ Rewinds(r, o, at) THEN r
      ELSE [r EXCEPT !.pct = o.pct, !.reset = o.reset, !.src = "provider",
                     !.obs = at, !.by = o.by]

\* A vendor denial: the window is full until reset.
ObserveLimit(w, b, reset, now) ==
  Observe(w, b, [by |-> "limit", pct |-> 100, reset |-> reset, at |-> now], now)

AnchorIfUnset(w, b, reset, now) ==
  LET r == Fresh(w, b, now)
  IN  IF ~FromProvider(r) /\ r.reset = Zero THEN [r EXCEPT !.reset = reset] ELSE r

AnchorAuthoritative(w, b, reset, now) ==
  LET r == Fresh(w, b, now)
  IN  IF FromProvider(r) THEN r ELSE [r EXCEPT !.reset = reset]

\* (Slip: a capacity is enough to derive a percentage.)
DeriveUnanchored(b) == IF b.cap > 0 THEN (100 * b.shadow) \div b.cap ELSE -1
\* A percentage is derived only from a capped and anchored window.
Derived(b) == IF b.cap > 0 /\ b.reset # Zero THEN (100 * b.shadow) \div b.cap ELSE -1

\* The dispatch's usage; the percentage stays the provider's until it rolls.
AddShadow(w, b, tokens, now) ==
  LET r == Fresh(w, b, now)
      s == [r EXCEPT !.shadow = @ + tokens,
                     !.reset  = IF w = "5h" /\ @ = Zero THEN now + FiveHours ELSE @]
  IN  IF FromProvider(s) THEN s
      ELSE [s EXCEPT !.pct = Derived(s), !.src = "shadow", !.obs = now]

\* Note that the bucket is not rolled.
ClearShadow(b, now) ==
  LET c == [b EXCEPT !.there = TRUE, !.shadow = 0]
  IN  IF FromProvider(c) THEN c
      ELSE [c EXCEPT !.pct = IF c.cap > 0 /\ c.reset # Zero THEN 0 ELSE -1, !.obs = now]

SetCapacity(b, cap)         == [b EXCEPT !.there = TRUE, !.cap = cap, !.guess = FALSE]
SetCapacityEstimate(b, cap) == [b EXCEPT !.there = TRUE, !.cap = cap, !.guess = TRUE]

\* Withdraws a guessed capacity, never a measured one.
ClearCapacity(w, b, now) ==
  LET r == Fresh(w, b, now)
  IN  IF FromProvider(r) \/ (r.cap # 0 /\ ~r.guess) \/ (r.cap = 0 /\ ~r.guess /\ r.pct = -1)
      THEN r
      ELSE [r EXCEPT !.cap = 0, !.guess = FALSE, !.pct = -1, !.src = "shadow", !.obs = now]

-----------------------------------------------------------------------------
(* One transaction on the ledger file.                                     *)

\* The newest time the mutators were handed, but never one of the future.
StampTime(now, wall) == IF now > wall THEN wall ELSE now

\* UpdateChecked stamps the rows whose displayed value is new.  Percentages
\* are displayed as integers, which they already are here.
StampChanges(before, after, now, wall) ==
  [w \in DOMAIN after |->
     IF after[w].there /\ (\/ ~before[w].there
                           \/ before[w].pct # after[w].pct
                           \/ before[w].reset # after[w].reset)
     THEN [after[w] EXCEPT !.changed = StampTime(now, wall)]
     ELSE after[w]]

EmptyLedger(wins) == [w \in wins |-> NewBucket]

-----------------------------------------------------------------------------
(* Admission, on the buckets L of one lane.                                *)

\* A percentage over a guessed capacity may throttle, never exhaust.
EstimateSourced(b) == ~FromProvider(b) /\ b.guess

EstimatedResume(w, now) ==
  CASE w = "day" -> NextDailyReset(now)
    [] w \in {"7d", "trial"} -> now + DayLength
    [] OTHER -> now + FiveHours

LiveWindows(L, now) == {w \in DOMAIN L : L[w].there /\ ~Passed(L[w], now)}

\* (Slip: a guess exhausts like a measurement.)
GuessExhausts(L, now) == {w \in LiveWindows(L, now) : L[w].pct >= ExhaustPct}
Exhausting(L, now) ==
  {w \in LiveWindows(L, now) : L[w].pct >= ExhaustPct /\ ~EstimateSourced(L[w])}
Throttling(L, now) == {w \in LiveWindows(L, now) : L[w].pct >= ThrottlePct}

ResumeOf(w, b, now) == IF b.reset # Zero THEN b.reset ELSE EstimatedResume(w, now)

\* The earliest resume among the exhausted windows.
Decide(L, now) ==
  LET full    == Exhausting(L, now)
      resumes == {ResumeOf(w, L[w], now) : w \in full}
  IN  [admit  |-> full = {},
       state  |-> IF full # {} THEN "exhausted"
                 ELSE IF Throttling(L, now) # {} THEN "throttled" ELSE "open",
       resume |-> IF full = {} THEN Zero
                  ELSE CHOOSE r \in resumes : \A q \in resumes : r <= q]
=============================================================================
