------------------------------ MODULE QuotaStore ------------------------------
(***************************************************************************)
(* The ledger of one lane over time, under everything that writes it.      *)
(*                                                                         *)
(* Dispatches read it when they start (admission) and charge it when they  *)
(* end, with the instant they captured at the start; usage polls fetch     *)
(* outside the lock and land later; route, status and probe land the       *)
(* statusline drop and stream events at once.  Each write is one           *)
(* transaction under the file lock (ledger.UpdateChecked), whose own       *)
(* correctness is StateLock's subject.  poll-state.json, in which polls    *)
(* keep their stamp and the codex plan facts, has no lock: a poller writes *)
(* back the copy it loaded before the fetch.                               *)
(***************************************************************************)
EXTENDS LaneOutcomes

CONSTANTS Jobs,       \* concurrent dispatches
          Pollers,    \* concurrent status and poll commands
          LanesUsed,  \* the lanes under examination
          Readings,   \* percentages the vendor may report
          Outcomes,   \* what a dispatch may return, by lane
          PollEvery,  \* poll_min_interval_min
          FactsMaxAge,\* quota_stale_hours
          MaxWall,    \* bound, by lane: the clock
          MaxEvents   \* bound, by lane: dispatches, polls, drops, probes and faults

ASSUME StoreAssumption ==
  /\ LanesUsed \subseteq Lanes
  /\ Readings \subseteq 0 .. 100
  /\ \A l \in LanesUsed, o \in UNION {Outcomes[m] : m \in LanesUsed} :
       MaxEvents[l] \in Nat /\ MaxWall[l] \in Nat /\ o.units \in Nat /\ o.flush \in Nat
       /\ o.rate.limit \in Nat /\ o.rate.pct \in 0 .. 100 /\ o.rate.reset \in Nat
  /\ PollEvery \in Nat \ {0}
  /\ FactsMaxAge \in Nat

VARIABLES
  lane,    \* which lane this ledger is of
  ledger,  \* its buckets on disk
  rotten,  \* the file on disk does not parse
  wall,    \* the clock
  drop,    \* the statusline drop file
  polls,   \* poll-state.json: the stamp and the codex plan facts
  jobs,    \* when each running dispatch started, 0 for none
  poller,  \* each poller: where it is, when it started, the copy it loaded
  events,  \* how much has happened
  vendor   \* history: the vendor has closed a window, or a capacity was measured

quotaVars == <<lane, ledger, rotten, wall, drop, polls, jobs, poller, events, vendor>>

-----------------------------------------------------------------------------
NoFacts == [last |-> Zero, at |-> Zero, absent |-> FALSE]
Resting == [at |-> "off", now |-> Zero, copy |-> NoFacts]

\* What a reader sees: garbage reads as an empty ledger (fail open).
OnDisk == IF rotten THEN EmptyLedger(DOMAIN ledger) ELSE ledger

Event == events < MaxEvents[lane] /\ events' = events + 1

\* The transaction: stamp what changed, replace the file.
Write(L, now) ==
  /\ ledger' = StampChanges(OnDisk, L, now, wall)
  /\ rotten' = FALSE
  /\ UNCHANGED <<lane, wall>>

Heard(said) == vendor' = (vendor \/ said)
Closing(readings) == \E w \in DOMAIN readings : readings[w].pct >= ExhaustPct
Denials == {"rate_limit", "payment_required", "cooldown", "offline"}

\* codex_5h_estimate_off, armed: fresh facts that corroborate the absence of a
\* 5h window.
Suppress(now) ==
  /\ polls.at # Zero
  /\ now - polls.at \in 0 .. FactsMaxAge
  /\ polls.absent

\* GLM rows of before prompt metering hold tokens and no capacity.
LegacyGLM == [w \in WindowsOf("glm") |->
                [NewBucket EXCEPT !.there = TRUE, !.src = "shadow",
                                  !.shadow = 5 * GLM5hPrompts + 1]]

QuotaInit ==
  /\ lane \in LanesUsed
  /\ ledger \in {EmptyLedger(WindowsOf(lane))} \cup (IF lane = "glm" THEN {LegacyGLM} ELSE {})
  /\ rotten = FALSE
  /\ wall = 1
  /\ drop = NoDrop
  /\ polls = NoFacts
  /\ jobs = [j \in Jobs |-> Zero]
  /\ poller = [p \in Pollers |-> Resting]
  /\ events = 0
  /\ vendor = FALSE

Tick ==
  /\ wall < MaxWall[lane]
  /\ wall' = wall + 1
  /\ UNCHANGED <<lane, ledger, rotten, drop, polls, jobs, poller, events, vendor>>

\* The statusline tee; a restored or synced file may carry a future mtime.
Reading == [pct: Readings, reset: {Zero, wall - 1, wall + 1}]
TeeDrop(w, r, at) ==
  /\ lane = "claude"
  /\ Event
  /\ drop' = [at |-> at, obs |-> [v \in {w} |-> r]]
  /\ UNCHANGED <<lane, ledger, rotten, wall, polls, jobs, poller, vendor>>

FileRots ==
  /\ Event
  /\ ~rotten
  /\ rotten' = TRUE
  /\ UNCHANGED <<lane, ledger, wall, drop, polls, jobs, poller, vendor>>

\* route, or the ingest of a denied run.
Consult ==
  /\ lane = "claude" /\ drop # NoDrop
  /\ Write(Ingest(OnDisk, drop, wall), wall)
  /\ Heard(Closing(drop.obs))
  /\ UNCHANGED <<drop, polls, jobs, poller, events>>

\* A run past admission; a claude run reads its drop into its own copy.
Seen(now) == IF lane = "claude" THEN Ingest(OnDisk, drop, now) ELSE OnDisk
RunStart(j, force) ==
  /\ Event
  /\ jobs[j] = Zero
  /\ force \/ Decide(Seen(wall), wall).admit
  /\ jobs' = [jobs EXCEPT ![j] = wall]
  /\ UNCHANGED <<lane, ledger, rotten, wall, drop, polls, poller, vendor>>

\* The child returned o; the charge carries the instant of the start.
RunEnd(j, o) ==
  /\ jobs[j] # Zero
  /\ Write(Apply(lane, OnDisk, o, drop, Suppress(jobs[j]), jobs[j]), jobs[j])
  /\ Heard(Closing(drop.obs) \/ o.class \in Denials \/ o.rate.limit > 0)
  /\ jobs' = [jobs EXCEPT ![j] = Zero]
  /\ UNCHANGED <<drop, polls, poller, events>>

\* The ledger lock was busy: a warning, and the usage is not charged.
RunUncharged(j) ==
  /\ jobs[j] # Zero
  /\ jobs' = [jobs EXCEPT ![j] = Zero]
  /\ UNCHANGED <<lane, ledger, rotten, wall, drop, polls, poller, events, vendor>>

-----------------------------------------------------------------------------
(* Usage polls.                                                            *)

Polled == {"claude", "codex", "copilot"}
Due(last, now) == last = Zero \/ now - last >= PollEvery

PollStart(p, force) ==
  /\ Event
  /\ lane \in Polled
  /\ poller[p].at = "off"
  /\ force \/ Due(polls.last, wall)
  /\ poller' = [poller EXCEPT ![p] = [at |-> "fetching", now |-> wall, copy |-> polls]]
  /\ UNCHANGED <<lane, ledger, rotten, wall, drop, polls, jobs, vendor>>

\* The fetch succeeded with reading r of window w (and an entitlement cap, or
\* the 5h window said to be "absent" or "there" by codex facts with a plan
\* type); the transaction lands it.  status ingests the drop first, and fits a
\* capacity (0: no fit) after it.
PollLand(p, w, r, cap, said, status, fit) ==
  LET now == poller[p].now
      L   == IF status /\ lane = "claude" THEN Ingest(OnDisk, drop, now) ELSE OnDisk
      M   == ApplyPoll(L, [v \in {w} |-> r], cap, now)
  IN  /\ poller[p].at = "fetching"
      /\ Write(IF status /\ fit > 0 /\ lane # "copilot" THEN MaybeFit(M, w, fit) ELSE M, now)
      /\ poller' = [poller EXCEPT ![p].at = "landed",
                                  ![p].copy = IF said = "nothing" THEN [@ EXCEPT !.last = now]
                                              ELSE [last |-> now, at |-> now,
                                                    absent |-> said = "absent"]]
      /\ Heard(Closing(drop.obs) \/ Closing([v \in {w} |-> r]) \/ cap > 0 \/ fit > 0)
      /\ UNCHANGED <<drop, polls, jobs, events>>

\* The fetch failed: stamped all the same, the facts stay what they were.
PollMisses(p) ==
  /\ poller[p].at = "fetching"
  /\ poller' = [poller EXCEPT ![p].at = "landed", ![p].copy.last = poller[p].now]
  /\ UNCHANGED <<lane, ledger, rotten, wall, drop, polls, jobs, events, vendor>>

\* The ledger was busy: nothing is stamped.
PollBusy(p) ==
  /\ poller[p].at = "fetching"
  /\ poller' = [poller EXCEPT ![p] = Resting]
  /\ UNCHANGED <<lane, ledger, rotten, wall, drop, polls, jobs, events, vendor>>

\* finishPolls: the whole loaded copy is written back.
PollFinish(p) ==
  /\ poller[p].at = "landed"
  /\ polls' = poller[p].copy
  /\ poller' = [poller EXCEPT ![p] = Resting]
  /\ UNCHANGED <<lane, ledger, rotten, wall, drop, jobs, events, vendor>>

\* probe --stream files the rate_limit_events it captured.
Probe(w, status, reset) ==
  /\ Event
  /\ lane = "claude"
  /\ Write(IngestStream(OnDisk, w, status, reset, wall), wall)
  /\ Heard(status = "rejected")
  /\ UNCHANGED <<drop, polls, jobs, poller>>

-----------------------------------------------------------------------------
Measured == {2, 4}

Signal ==
  \/ Tick
  \/ FileRots
  \/ Consult
  \/ \E w \in DOMAIN ledger, r \in Reading, at \in {wall, wall + 2} : TeeDrop(w, r, at)
  \/ \E w \in DOMAIN ledger, status \in {"allowed", "rejected", "other"},
        reset \in {Zero, wall + 1} : Probe(w, status, reset)

Run(j) ==
  \/ \E force \in BOOLEAN : RunStart(j, force)
  \/ \E o \in Outcomes[lane] : RunEnd(j, o)
  \/ RunUncharged(j)

Poll(p) ==
  \/ \E force \in BOOLEAN : PollStart(p, force)
  \/ \E w \in DOMAIN ledger, r \in Reading,
        cap \in IF lane = "copilot" THEN {0} \cup Measured ELSE {0},
        said \in {"nothing"} \cup IF lane = "codex" THEN {"absent", "there"} ELSE {},
        status \in BOOLEAN,
        fit \in IF lane = "copilot" THEN {0} ELSE {0} \cup Measured :
       PollLand(p, w, r, cap, said, status, fit)
  \/ PollMisses(p)
  \/ PollBusy(p)
  \/ PollFinish(p)

QuotaNext == Signal \/ (\E j \in Jobs : Run(j)) \/ (\E p \in Pollers : Poll(p))

QuotaSpec == QuotaInit /\ [][QuotaNext]_quotaVars

-----------------------------------------------------------------------------
(* Properties.                                                             *)

\* The ledger and the poll state are well formed.
QuotaTypeOK ==
  /\ lane \in Lanes
  /\ ledger \in [WindowsOf(lane) -> Bucket]
  /\ rotten \in BOOLEAN
  /\ wall \in Nat
  /\ jobs \in [Jobs -> Nat]
  /\ vendor \in BOOLEAN
  /\ polls \in [last: Nat, at: Nat, absent: BOOLEAN]

\* A known percentage always has a reset moment, so no lane is locked for ever
\* ("a zero-reset provider bucket would never roll and could lock the lane
\* exhausted forever", quotasig.go): whatever is reported, anchored, rolled,
\* fitted or withdrawn, in any order.
NeverLockedForever == \A w \in DOMAIN ledger : ledger[w].pct >= 0 => ledger[w].reset # Zero

\* A drop row is never fresher than the drop file: ingesting it late, or again
\* and again, does not make old numbers look new (the 50h-old fixture that "kept
\* looking fresh to the E6 staleness alarm", ledger.go), whatever its mtime.
DropKeepsItsAge == \A w \in DOMAIN ledger : ledger[w].by = "drop" => ledger[w].obs <= drop.at

\* A guess never closes a lane (S2R-3): the dispatches of this device alone, with
\* no word of the vendor and no measured capacity, never make admission deny a
\* lane, however much they spend.  Only the GLM quota is documented.
OnlyTheVendorCloses == ~Decide(ledger, wall).admit => vendor \/ lane = "glm"

Denied(b) == FromProvider(b) /\ b.by = "limit"

\* A vendor denial stands while its authority is fresh and its window lasts: no
\* drop, poll, header or fit re-opens the lane under it, not even one a caller
\* with an older clock lands late.
DenialStands ==
  [][\A w \in DOMAIN ledger :
       Denied(ledger[w]) /\ ~Passed(ledger[w], wall) /\ wall - ledger[w].obs <= AuthorityTTL
         => Denied(ledger'[w]) \/ rotten]_quotaVars

\* No reading replaces a newer one of its own rank or above within a window
\* (the poller and the tee disagree by hours, and land in any order).
NoRewind ==
  [][\A w \in DOMAIN ledger :
       FromProvider(ledger[w]) /\ FromProvider(ledger'[w]) /\ ~rotten
       /\ ~Passed(ledger[w], wall) /\ Rank(ledger'[w].by) <= Rank(ledger[w].by)
         => ledger'[w].obs >= ledger[w].obs]_quotaVars

\* What was spent of a trial pool is never forgotten while the file survives,
\* through denials that expire and re-checks.
TrialSpendIsKept ==
  [][\A w \in DOMAIN ledger :
       w = "trial" /\ ~rotten => ledger'[w].shadow >= ledger[w].shadow]_quotaVars

\* A measured capacity is never overwritten by a configured guess, nor
\* withdrawn as one.
MeasuredCapStays ==
  [][\A w \in DOMAIN ledger :
       ledger[w].cap > 0 /\ ~ledger[w].guess /\ ~rotten
         => ledger'[w].cap > 0 /\ ~ledger'[w].guess]_quotaVars
=============================================================================
