----------------------------- MODULE Ledger_proofs -----------------------------
(***************************************************************************)
(* What holds of one lane's ledger for every length of its windows, every  *)
(* capacity, any number of dispatches and polls, and any readings of the   *)
(* vendor: no lane is locked for ever, a measured capacity and the spend   *)
(* of a trial pool are kept, a fresh denial stands, and no drop looks      *)
(* fresher than it is.                                                     *)
(*                                                                         *)
(* Every transaction is a chain of operators on single buckets, and what   *)
(* is claimed of a step is a relation of a bucket before and after that    *)
(* chains compose: Follows.  So there is one lemma per operator.           *)
(***************************************************************************)
EXTENDS QuotaStore, TLAPS

-----------------------------------------------------------------------------
(* One bucket.                                                             *)

BucketFields == {"there", "pct", "reset", "src", "by", "obs", "changed", "shadow", "cap", "guess"}

\* A window is full or partly so only until a reset moment; a provider reading
\* has its moment of observation, and only a provider reading has a source.
Good(b) ==
  /\ DOMAIN b = BucketFields
  /\ b.pct \in Int /\ b.reset \in Nat /\ b.obs \in Nat /\ b.shadow \in Nat /\ b.cap \in Nat
  /\ b.by \in Signals
  /\ b.pct >= 0 => b.reset # Zero
  /\ FromProvider(b) => b.obs # Zero
  /\ b.by # "none" <=> FromProvider(b)

\* While a provider's window lasts, a reading is replaced by none that is older
\* unless it ranks above, and by none of lower rank until its authority ends.
Advances(b, c, now) ==
  FromProvider(b) /\ ~ Passed(b, now) =>
    /\ FromProvider(c) /\ ~ Passed(c, now)
    /\ \/ Rank(c.by) = Rank(b.by) /\ c.obs >= b.obs
       \/ Rank(c.by) < Rank(b.by) /\ c.obs >= b.obs /\ now - b.obs > AuthorityTTL
       \/ Rank(c.by) > Rank(b.by) /\ c.obs = now

\* What a chain of operators may do to a window w, at the instant now, with a
\* drop file of the time d.
Follows(w, b, c, now, d) ==
  /\ Good(c)
  /\ b.cap > 0 /\ ~ b.guess => c.cap > 0 /\ ~ c.guess
  /\ w = "trial" => c.shadow >= b.shadow
  /\ Advances(b, c, now)
  /\ c.obs = b.obs \/ c.obs <= now
  /\ c.by = "drop" => c.obs <= d \/ (b.by = "drop" /\ c.obs = b.obs)

Instants == Nat \ {0}

\* Only "limit" ranks highest, and only no source lowest.
LEMMA Ranks ==
  \A by \in Signals : /\ Rank(by) \in 0 .. 3 /\ (Rank(by) = 3 => by = "limit")
                       /\ (Rank(by) = 0 <=> by = "none") /\ Rank("limit") = 3
BY DEF Rank, Signals

\* Doing nothing follows.
LEMMA Stays ==
  ASSUME NEW w, NEW b, Good(b), NEW now, NEW d
  PROVE  Follows(w, b, b, now, d)
BY DEF Follows, Advances, Good

\* Chains compose.
LEMMA Chain ==
  ASSUME NEW w, NEW b, NEW c, NEW e, NEW now \in Instants, NEW d, Good(b),
         Follows(w, b, c, now, d), Follows(w, c, e, now, d)
  PROVE  Follows(w, b, e, now, d)
<1>1. now \in Nat /\ AuthorityTTL \in Nat
  BY LedgerAssumption DEF Instants
<1>2. Advances(b, e, now)
  <2>1. \A x \in {b, c, e} : x.obs \in Nat /\ Rank(x.by) \in Nat
    BY Ranks DEF Follows, Good
  <2>2. Advances(b, c, now) /\ Advances(c, e, now) /\ (e.obs = c.obs \/ e.obs <= now)
    BY DEF Follows
  <2> QED
    BY <1>1, <2>1, <2>2 DEF Advances
<1> QED
  BY <1>2 DEF Follows, Good

\* Reading a window rolls it when its reset has passed, never a denial in force.
LEMMA FreshFollows ==
  ASSUME NEW w, NEW b, Good(b), NEW now \in Instants, NEW d
  PROVE  /\ Follows(w, b, Fresh(w, b, now), now, d)
         /\ Fresh(w, b, now).reset = Zero \/ Fresh(w, b, now).reset >= now
BY DEF Fresh, Roll, Passed, Follows, Good, Zero, Advances, FromProvider, Instants, Signals

\* A new observation: it cannot replace a denial in force, unless it is one.
LEMMA ObserveFollows ==
  ASSUME NEW w, NEW b, Good(b), NEW now \in Instants, NEW d,
         NEW o \in [by : Signals \ {"none"}, pct : Int, reset : Nat, at : Nat],
         o.reset >= now, o.by # "drop" => o.at = now,
         o.by = "drop" => o.at # Zero /\ o.at <= d /\ o.at <= now
  PROVE  Follows(w, b, Observe(w, b, o, now), now, d)
<1> DEFINE r == Fresh(w, b, now)
           at == SeenAt(o, now)
           n == [r EXCEPT !.pct = o.pct, !.reset = o.reset, !.src = "provider",
                          !.obs = at, !.by = o.by]
<1>1. Follows(w, b, r, now, d) /\ Good(r)
  BY FreshFollows DEF Follows
<1>2. at \in Nat /\ at # Zero /\ at <= now /\ (o.by = "drop" => at <= d)
      /\ (o.by # "drop" => at = now)
  BY DEF SeenAt, Instants, Zero
<1>3. Good(n)
  <2> HIDE DEF r, at
  <2> QED
    BY <1>1, <1>2 DEF Good, FromProvider, Zero, Instants
<1>4. CASE Outranked(r, o, now) \/ Rewinds(r, o, at)
  BY <1>1, <1>4 DEF Observe
<1>5. CASE ~ (Outranked(r, o, now) \/ Rewinds(r, o, at))
  <2>1. Observe(w, b, o, now) = n
    BY <1>5 DEF Observe
  <2>2. /\ n.cap = r.cap /\ n.guess = r.guess /\ n.shadow = r.shadow /\ n.obs = at /\ n.by = o.by
        /\ n.reset = o.reset /\ n.src = "provider"
    BY <1>1 DEF Good
  <2> HIDE DEF r, n, at
  <2>3. Advances(r, n, now)
    <3>1. SUFFICES ASSUME FromProvider(r), ~ Passed(r, now) PROVE Advances(r, n, now)
      BY DEF Advances
    <3>2. /\ Rank(r.by) \in 0 .. 3 /\ Rank(r.by) # 0 /\ r.obs \in Nat /\ r.obs # Zero
      BY <1>1, <3>1, Ranks DEF Good
    <3>3. Rank(o.by) \in 0 .. 3 /\ (o.by = "drop" => Rank(o.by) = 1) /\ (o.by # "drop" => at = now)
      BY <1>2, Ranks DEF Rank
    <3>4. FromProvider(n) /\ ~ Passed(n, now)
      BY <2>2 DEF FromProvider, Passed, Instants
    <3>5. Rank(o.by) <= Rank(r.by) => at >= r.obs
      BY <1>2, <1>5, <3>1, <3>2, <3>3 DEF Rewinds
    <3>6. Rank(o.by) < Rank(r.by) => now - r.obs > AuthorityTTL
      BY <1>5, <3>1, <3>2, LedgerAssumption DEF Outranked, Instants
    <3>7. Rank(o.by) > Rank(r.by) => at = now
      BY <3>2, <3>3
    <3> QED
      BY <1>2, <2>2, <3>2, <3>3, <3>4, <3>5, <3>6, <3>7 DEF Advances
  <2>4. Follows(w, r, n, now, d)
    BY <1>1, <1>2, <1>3, <2>2, <2>3 DEF Follows, Good
  <2> QED
    BY <1>1, <2>1, <2>4, Chain
<1> QED
  BY <1>4, <1>5

\* The next reset of a calendar window is ahead.
LEMMA NextReset ==
  ASSUME NEW now \in Nat, NEW D \in Nat \ {0}
  PROVE  (now \div D + 1) * D \in Nat /\ (now \div D + 1) * D > now
<1>1. /\ now \div D \in Int /\ now % D \in 0 .. D - 1
      /\ now = D * (now \div D) + (now % D)
  OBVIOUS
<1>2. (now \div D + 1) * D = D * (now \div D) + D
  BY <1>1
<1> QED
  BY <1>1, <1>2

\* A vendor denial.
LEMMA LimitFollows ==
  ASSUME NEW w, NEW b, Good(b), NEW now \in Instants, NEW d, NEW reset \in Nat, reset >= now
  PROVE  Follows(w, b, ObserveLimit(w, b, reset, now), now, d)
<1> DEFINE o == [by |-> "limit", pct |-> 100, reset |-> reset, at |-> now]
<1>1. o \in [by : Signals \ {"none"}, pct : Int, reset : Nat, at : Nat] /\ o.reset >= now /\ o.by # "drop" /\ o.at = now
  BY DEF Signals, Instants
<1> HIDE DEF o
<1>2. Follows(w, b, Observe(w, b, o, now), now, d)
  BY <1>1, ObserveFollows
<1> QED
  BY <1>2 DEF ObserveLimit, o

\* An anchor where there is none, and one that replaces another.
LEMMA AnchorFollows ==
  ASSUME NEW w, NEW b, Good(b), NEW now \in Instants, NEW d, NEW reset \in Nat \ {0}
  PROVE  /\ Follows(w, b, AnchorIfUnset(w, b, reset, now), now, d)
         /\ Follows(w, b, AnchorAuthoritative(w, b, reset, now), now, d)
<1> DEFINE r == Fresh(w, b, now)
           n == [r EXCEPT !.reset = reset]
<1>1. Follows(w, b, r, now, d) /\ Good(r)
  BY FreshFollows DEF Follows
<1>2. /\ n.cap = r.cap /\ n.guess = r.guess /\ n.shadow = r.shadow /\ n.obs = r.obs /\ n.by = r.by
      /\ n.reset = reset /\ n.src = r.src /\ n.pct = r.pct /\ DOMAIN n = BucketFields
  BY <1>1 DEF Good, BucketFields
<1>3. /\ AnchorIfUnset(w, b, reset, now) \in {r, n} /\ AnchorAuthoritative(w, b, reset, now) \in {r, n}
      /\ FromProvider(r) => AnchorIfUnset(w, b, reset, now) = r /\ AnchorAuthoritative(w, b, reset, now) = r
  BY DEF AnchorIfUnset, AnchorAuthoritative
<1> HIDE DEF r, n
<1>4. ~ FromProvider(r) => Follows(w, r, n, now, d)
  BY <1>1, <1>2 DEF Follows, Good, FromProvider, Advances, Zero
<1>5. ~ FromProvider(r) => Follows(w, b, n, now, d)
  BY <1>1, <1>4, Chain
<1> QED
  BY <1>1, <1>3, <1>5

\* A derived percentage belongs to an anchored window.
LEMMA DerivedOK ==
  ASSUME NEW b, b.shadow \in Nat, b.cap \in Nat, b.reset \in Nat
  PROVE  Derived(b) \in Int /\ (Derived(b) >= 0 => b.reset # Zero)
BY DEF Derived

\* The charge of a dispatch.
LEMMA ChargeFollows ==
  ASSUME NEW w, NEW b, Good(b), NEW now \in Instants, NEW d, NEW tokens \in Nat
  PROVE  Follows(w, b, AddShadow(w, b, tokens, now), now, d)
<1> DEFINE r == Fresh(w, b, now)
           s == [r EXCEPT !.shadow = @ + tokens,
                          !.reset  = IF w = "5h" /\ @ = Zero THEN now + FiveHours ELSE @]
           n == [s EXCEPT !.pct = Derived(s), !.src = "shadow", !.obs = now]
<1>1. Follows(w, b, r, now, d) /\ Good(r)
  BY FreshFollows DEF Follows
<1>2. /\ s.cap = r.cap /\ s.guess = r.guess /\ s.shadow = r.shadow + tokens /\ s.obs = r.obs
      /\ s.by = r.by /\ s.src = r.src /\ s.pct = r.pct /\ DOMAIN s = BucketFields
      /\ s.reset = r.reset \/ (r.reset = Zero /\ s.reset = now + FiveHours)
  BY <1>1 DEF Good, BucketFields
<1>3. AddShadow(w, b, tokens, now) = IF FromProvider(s) THEN s ELSE n
  BY DEF AddShadow
<1> HIDE DEF r
<1>4. /\ n.cap = s.cap /\ n.guess = s.guess /\ n.shadow = s.shadow /\ n.obs = now /\ n.by = s.by
      /\ n.src = "shadow" /\ n.pct = Derived(s) /\ n.reset = s.reset /\ DOMAIN n = BucketFields
  BY <1>2 DEF BucketFields
<1> HIDE DEF s, n
<1>5. s.reset \in Nat /\ s.shadow \in Nat /\ s.cap \in Nat /\ s.shadow >= r.shadow
  BY <1>1, <1>2, LedgerAssumption DEF Good, Instants
<1>6. Good(s)
  BY <1>1, <1>2, <1>5 DEF Good, FromProvider
<1>7. Follows(w, r, s, now, d)
  <2>1. Advances(r, s, now)
    BY <1>1, <1>2, LedgerAssumption DEF Advances, FromProvider, Passed, Good, Instants, Zero
  <2> QED
    BY <1>1, <1>2, <1>5, <1>6, <2>1 DEF Follows, Good
<1>8. CASE FromProvider(s)
  BY <1>1, <1>3, <1>7, <1>8, Chain
<1>9. CASE ~ FromProvider(s)
  <2>1. Derived(s) \in Int /\ (Derived(s) >= 0 => s.reset # Zero)
    BY <1>5, DerivedOK
  <2>2. n.by = "none"
    BY <1>4, <1>6, <1>9 DEF Good
  <2>3. Good(n)
    BY <1>4, <1>5, <2>1, <2>2 DEF Good, FromProvider, Instants, Signals
  <2>4. Follows(w, s, n, now, d)
    BY <1>4, <1>5, <1>9, <2>2, <2>3 DEF Follows, Advances, Instants
  <2>5. Follows(w, r, n, now, d)
    BY <1>1, <1>7, <2>4, Chain
  <2> QED
    BY <1>1, <1>3, <1>9, <2>5, Chain
<1> QED
  BY <1>8, <1>9

\* Capacities: a measured one, and an estimate where none was.
LEMMA CapFollows ==
  ASSUME NEW w, NEW b, Good(b), NEW now \in Instants, NEW d
  PROVE  /\ \A cap \in Nat \ {0} : Follows(w, b, SetCapacity(b, cap), now, d)
         /\ \A cap \in Nat : Follows(w, b, SeedEstimate(b, cap), now, d)
<1>1. ASSUME NEW cap \in Nat \ {0} PROVE Follows(w, b, SetCapacity(b, cap), now, d)
  <2> DEFINE n == SetCapacity(b, cap)
  <2>1. /\ n.cap = cap /\ n.guess = FALSE /\ n.shadow = b.shadow /\ n.obs = b.obs /\ n.by = b.by
        /\ n.src = b.src /\ n.pct = b.pct /\ n.reset = b.reset /\ DOMAIN n = BucketFields
    BY DEF SetCapacity, Good, BucketFields
  <2> HIDE DEF n
  <2>2. Follows(w, b, n, now, d)
    BY <2>1 DEF Follows, Good, FromProvider, Advances, Passed
  <2> QED
    BY <2>2 DEF n
<1>2. ASSUME NEW cap \in Nat PROVE Follows(w, b, SeedEstimate(b, cap), now, d)
  <2> DEFINE n == SetCapacityEstimate(b, cap)
  <2>1. /\ n.cap = cap /\ n.shadow = b.shadow /\ n.obs = b.obs /\ n.by = b.by
        /\ n.src = b.src /\ n.pct = b.pct /\ n.reset = b.reset /\ DOMAIN n = BucketFields
    BY DEF SetCapacityEstimate, Good, BucketFields
  <2> HIDE DEF n
  <2>2. b.cap = 0 => Follows(w, b, n, now, d)
    BY <2>1 DEF Follows, Good, FromProvider, Advances, Passed
  <2> QED
    BY <2>2, Stays DEF SeedEstimate, n
<1> QED
  BY <1>1, <1>2

\* Withdrawing a guess.
LEMMA WithdrawFollows ==
  ASSUME NEW w, NEW b, Good(b), NEW now \in Instants, NEW d
  PROVE  Follows(w, b, ClearCapacity(w, b, now), now, d)
<1> DEFINE r == Fresh(w, b, now)
           n == [r EXCEPT !.cap = 0, !.guess = FALSE, !.pct = -1, !.src = "shadow", !.obs = now]
<1>1. Follows(w, b, r, now, d) /\ Good(r)
  BY FreshFollows DEF Follows
<1>2. /\ n.cap = 0 /\ n.guess = FALSE /\ n.shadow = r.shadow /\ n.obs = now /\ n.by = r.by
      /\ n.src = "shadow" /\ n.pct = -1 /\ n.reset = r.reset /\ DOMAIN n = BucketFields
  BY <1>1 DEF Good, BucketFields
<1>3. \/ ClearCapacity(w, b, now) = r
      \/ ClearCapacity(w, b, now) = n /\ ~ FromProvider(r) /\ (r.cap = 0 \/ r.guess)
  BY DEF ClearCapacity
<1> HIDE DEF r, n
<1>4. ~ FromProvider(r) /\ (r.cap = 0 \/ r.guess) => Follows(w, r, n, now, d)
  BY <1>1, <1>2 DEF Follows, Good, FromProvider, Advances, Instants, Signals
<1> QED
  BY <1>1, <1>3, <1>4, Chain

\* Dropping the shadow of before prompt metering, not of a trial pool.
LEMMA ClearFollows ==
  ASSUME NEW w, w # "trial", NEW b, Good(b), NEW now \in Instants, NEW d
  PROVE  Follows(w, b, ClearShadow(b, now), now, d)
<1> DEFINE c == [b EXCEPT !.there = TRUE, !.shadow = 0]
           pct == IF c.cap > 0 /\ c.reset # Zero THEN 0 ELSE -1
           n == [c EXCEPT !.pct = pct, !.obs = now]
<1>1. /\ c.cap = b.cap /\ c.guess = b.guess /\ c.shadow = 0 /\ c.obs = b.obs /\ c.by = b.by
      /\ c.src = b.src /\ c.pct = b.pct /\ c.reset = b.reset /\ DOMAIN c = BucketFields
  BY DEF Good, BucketFields
<1>2. /\ n.cap = b.cap /\ n.guess = b.guess /\ n.shadow = 0 /\ n.obs = now /\ n.by = b.by
      /\ n.src = b.src /\ n.pct = pct /\ n.reset = b.reset /\ DOMAIN n = BucketFields
  BY DEF Good, BucketFields
<1>3. pct \in {0, -1} /\ (pct >= 0 => b.reset # Zero)
  BY <1>1
<1>4. ClearShadow(b, now) = IF FromProvider(c) THEN c ELSE n
  BY DEF ClearShadow
<1> HIDE DEF c, n, pct
<1>5. Follows(w, b, c, now, d)
  BY <1>1 DEF Follows, Good, FromProvider, Advances, Passed
<1>6. ~ FromProvider(b) => Follows(w, b, n, now, d)
  BY <1>2, <1>3 DEF Follows, Good, FromProvider, Advances, Instants
<1>7. FromProvider(c) = FromProvider(b)
  BY <1>1 DEF FromProvider
<1> QED
  BY <1>4, <1>5, <1>6, <1>7

-----------------------------------------------------------------------------
(* One lane.                                                               *)

\* The buckets of a lane, and a chain on each of them.
GoodLane(L) == \A w \in DOMAIN L : Good(L[w])
LaneFollows(L, M, now, d) ==
  DOMAIN M = DOMAIN L /\ \A w \in DOMAIN L : Follows(w, L[w], M[w], now, d)

\* Doing nothing follows, and chains compose, on a lane as on a bucket.
LEMMA LaneStays ==
  ASSUME NEW L, GoodLane(L), NEW now, NEW d
  PROVE  LaneFollows(L, L, now, d)
BY Stays DEF LaneFollows, GoodLane

\* Chains compose on a lane.
LEMMA LaneChain ==
  ASSUME NEW L, NEW M, NEW N, NEW now \in Instants, NEW d, GoodLane(L),
         LaneFollows(L, M, now, d), LaneFollows(M, N, now, d)
  PROVE  LaneFollows(L, N, now, d)
BY Chain DEF LaneFollows, GoodLane

\* What follows is good.
LEMMA LaneGood ==
  ASSUME NEW L, NEW M, NEW now, NEW d, LaneFollows(L, M, now, d)
  PROVE  GoodLane(M)
BY DEF LaneFollows, GoodLane, Follows

\* A chain on one window.
LEMMA OnFollows ==
  ASSUME NEW L, GoodLane(L), NEW w \in DOMAIN L, NEW b, NEW now, NEW d,
         Follows(w, L[w], b, now, d)
  PROVE  LaneFollows(L, On(L, w, b), now, d)
<1>1. DOMAIN On(L, w, b) = DOMAIN L /\ On(L, w, b)[w] = b
      /\ \A v \in DOMAIN L : v # w => On(L, w, b)[v] = L[v]
  BY DEF On
<1> HIDE DEF On
<1> QED
  BY <1>1, Stays DEF LaneFollows, GoodLane

\* The provider's readings, by a source that may not be fresher than the drop.
Reported(readings) == \A v \in DOMAIN readings : readings[v].pct \in Int /\ readings[v].reset \in Nat

\* Provider readings that land, each on its window.
LEMMA LandFollows ==
  ASSUME NEW L, GoodLane(L), NEW readings, Reported(readings), NEW by \in {"drop", "poll"},
         NEW at \in Nat, NEW now \in Instants, NEW d,
         by # "drop" => at = now, by = "drop" => at # Zero /\ at <= d /\ at <= now
  PROVE  LaneFollows(L, Land(L, readings, by, at, now), now, d)
<1> DEFINE M == Land(L, readings, by, at, now)
<1>1. ASSUME NEW w \in DOMAIN L PROVE Follows(w, L[w], M[w], now, d)
  <2>1. CASE w \in DOMAIN readings /\ Usable(readings[w], now)
    <3> DEFINE o == [by |-> by, pct |-> readings[w].pct, reset |-> readings[w].reset, at |-> at]
    <3>1. /\ o \in [by : Signals \ {"none"}, pct : Int, reset : Nat, at : Nat]
          /\ o.reset >= now /\ (o.by # "drop" => o.at = now) /\ (o.by = "drop" => o.at # Zero /\ o.at <= d /\ o.at <= now)
      BY <2>1 DEF Reported, Usable, Signals
    <3>2. M[w] = Observe(w, L[w], o, now)
      BY <2>1 DEF Land
    <3> HIDE DEF o, M
    <3> QED
      BY <3>1, <3>2, ObserveFollows DEF GoodLane
  <2>2. CASE ~ (w \in DOMAIN readings /\ Usable(readings[w], now))
    <3>1. M[w] = L[w]
      BY <2>2 DEF Land
    <3> HIDE DEF M
    <3> QED
      BY <3>1, Stays DEF GoodLane
  <2> QED
    BY <2>1, <2>2
<1>2. DOMAIN M = DOMAIN L
  BY DEF Land
<1> QED
  BY <1>1, <1>2 DEF LaneFollows

\* The drop file is never fresher than its mtime, nor than now.
DropOK(dr) == dr.at \in Nat /\ Reported(dr.obs) /\ (dr # NoDrop => dr.at # Zero)

\* The statusline's drop file, ingested.
LEMMA IngestFollows ==
  ASSUME NEW L, GoodLane(L), NEW dr, DropOK(dr), NEW now \in Instants
  PROVE  LaneFollows(L, Ingest(L, dr, now), now, dr.at)
<1> DEFINE at == DropTime(dr, now)
<1>1. dr # NoDrop => at \in Nat /\ at # Zero /\ at <= now /\ at <= dr.at
  BY DEF DropOK, DropTime, Instants, Zero
<1>2. Ingest(L, dr, now) = L \/ (dr # NoDrop /\ Ingest(L, dr, now) = Land(L, dr.obs, "drop", at, now))
  BY DEF Ingest
<1> HIDE DEF at
<1> QED
  BY <1>1, <1>2, LaneStays, LandFollows DEF DropOK

\* Metering charges every window.
LEMMA MeterFollows ==
  ASSUME NEW L, GoodLane(L), NEW units \in Nat, NEW now \in Instants, NEW d
  PROVE  LaneFollows(L, Meter(L, units, now), now, d)
BY ChargeFollows DEF LaneFollows, GoodLane, Meter

\* The upstream rate limit of the 5h window.
LEMMA Limit5hFollows ==
  ASSUME NEW L, GoodLane(L), "5h" \in DOMAIN L, NEW o, NEW now \in Instants, NEW d
  PROVE  LaneFollows(L, Limit5h(L, o, now), now, d)
<1>1. now + FiveHours \in Nat /\ now + FiveHours >= now
  BY LedgerAssumption DEF Instants
<1>2. Follows("5h", L["5h"], ObserveLimit("5h", L["5h"], now + FiveHours, now), now, d)
  BY <1>1, LimitFollows DEF GoodLane
<1> QED
  BY <1>2, OnFollows, LaneStays DEF Limit5h

-----------------------------------------------------------------------------
(* The outcome of a dispatch, lane by lane.                                *)

\* What a dispatch may return.
OutcomeOK(o) ==
  /\ o.units \in Nat /\ o.flush \in Nat
  /\ o.rate.limit \in Nat /\ o.rate.pct \in 0 .. 100 /\ o.rate.reset \in Nat

\* The windows of each lane.
LEMMA WindowsAre ==
  /\ WindowsOf("claude") = {"5h", "7d"} /\ WindowsOf("codex") = {"5h", "7d"}
  /\ WindowsOf("glm") = {"5h", "7d"} /\ WindowsOf("copilot") = {"month"}
  /\ WindowsOf("groq") = {"day"} /\ WindowsOf("nim") = {"trial"}
BY DEF WindowsOf, FreeWindow

\* Two windows, each followed.
LEMMA PairFollows ==
  ASSUME NEW L, DOMAIN L = {"5h", "7d"}, NEW M, DOMAIN M = {"5h", "7d"}, NEW now, NEW d,
         Follows("5h", L["5h"], M["5h"], now, d), Follows("7d", L["7d"], M["7d"], now, d)
  PROVE  LaneFollows(L, M, now, d)
BY DEF LaneFollows

\* A dispatch of the Claude lane.
LEMMA ClaudeFollows ==
  ASSUME NEW L, GoodLane(L), DOMAIN L = {"5h", "7d"}, NEW o, OutcomeOK(o),
         NEW dr, DropOK(dr), NEW now \in Instants
  PROVE  LaneFollows(L, ApplyClaude(L, o, dr, now), now, dr.at)
<1> DEFINE I == Ingest(L, dr, now)
           M == Meter(I, o.units, now)
           N == Limit5h(M, o, now)
<1>1. LaneFollows(L, I, now, dr.at) /\ GoodLane(I)
  BY IngestFollows, LaneGood
<1>2. LaneFollows(I, M, now, dr.at) /\ GoodLane(M)
  BY <1>1, MeterFollows, LaneGood DEF OutcomeOK
<1>3. "5h" \in DOMAIN M
  BY <1>1, <1>2 DEF LaneFollows
<1>4. LaneFollows(M, N, now, dr.at)
  BY <1>2, <1>3, Limit5hFollows
<1>5. ApplyClaude(L, o, dr, now) = N
  BY DEF ApplyClaude
<1> HIDE DEF I, M, N
<1> QED
  BY <1>1, <1>2, <1>4, <1>5, LaneChain

\* A dispatch of the codex lane.
LEMMA CodexFollows ==
  ASSUME NEW L, GoodLane(L), DOMAIN L = {"5h", "7d"}, NEW o, OutcomeOK(o),
         NEW suppress, NEW now \in Instants, NEW d
  PROVE  LaneFollows(L, ApplyCodex(L, o, suppress, now), now, d)
<1> DEFINE five == IF suppress THEN ClearCapacity("5h", L["5h"], now)
                   ELSE SeedEstimate(L["5h"], GuessedCap)
           week == AnchorIfUnset("7d", L["7d"], now + SevenDays, now)
           M == [L EXCEPT !["5h"] = five, !["7d"] = week]
           N == IF o.units > 0 THEN Meter(M, o.units, now) ELSE M
<1>1. Follows("5h", L["5h"], five, now, d)
  BY WithdrawFollows, CapFollows, OutcomeAssumption DEF GoodLane
<1>2. now + SevenDays \in Nat \ {0}
  BY OutcomeAssumption DEF Instants
<1>3. Follows("7d", L["7d"], week, now, d)
  BY <1>2, AnchorFollows DEF GoodLane
<1>4. DOMAIN M = {"5h", "7d"} /\ M["5h"] = five /\ M["7d"] = week
  OBVIOUS
<1>5. ApplyCodex(L, o, suppress, now) = Limit5h(N, o, now)
  BY DEF ApplyCodex
<1> HIDE DEF five, week, M
<1>6. LaneFollows(L, M, now, d) /\ GoodLane(M)
  BY <1>1, <1>3, <1>4, PairFollows, LaneGood
<1>7. LaneFollows(M, N, now, d) /\ GoodLane(N)
  BY <1>6, MeterFollows, LaneStays, LaneGood DEF OutcomeOK
<1>8. "5h" \in DOMAIN N
  BY <1>4, <1>7 DEF LaneFollows
<1> HIDE DEF N
<1>9. LaneFollows(N, Limit5h(N, o, now), now, d)
  BY <1>7, <1>8, Limit5hFollows
<1> QED
  BY <1>5, <1>6, <1>7, <1>9, LaneChain

\* The documented capacities of the GLM plan.
LEMMA SeedFollows ==
  ASSUME NEW w, w # "trial", NEW b, Good(b), NEW cap \in Nat \ {0}, NEW now \in Instants, NEW d
  PROVE  Follows(w, b, SeedGLM(b, cap, now), now, d)
<1> DEFINE c == IF b.there /\ b.cap = 0 /\ b.shadow > 5 * GLM5hPrompts THEN ClearShadow(b, now) ELSE b
<1>1. Follows(w, b, c, now, d) /\ Good(c)
  <2>1. Follows(w, b, c, now, d)
    BY ClearFollows, Stays
  <2> QED
    BY <2>1 DEF Follows
<1>2. SeedGLM(b, cap, now) = IF c.cap = 0 THEN SetCapacity(c, cap) ELSE c
  BY DEF SeedGLM
<1> HIDE DEF c
<1>3. Follows(w, c, SetCapacity(c, cap), now, d)
  BY <1>1, CapFollows
<1> QED
  BY <1>1, <1>2, <1>3, Chain

\* A dispatch of the GLM lane.
LEMMA GLMFollows ==
  ASSUME NEW L, GoodLane(L), DOMAIN L = {"5h", "7d"}, NEW o, OutcomeOK(o),
         NEW now \in Instants, NEW d
  PROVE  LaneFollows(L, ApplyGLM(L, o, now), now, d)
<1> DEFINE five == SeedGLM(L["5h"], GLM5hPrompts, now)
           seed == SeedGLM(L["7d"], 5 * GLM5hPrompts, now)
           week == AnchorIfUnset("7d", seed, now + SevenDays, now)
           M == [L EXCEPT !["5h"] = five, !["7d"] = week]
           N == Meter(M, o.units, now)
           resume(fallback) == IF o.flush > now THEN o.flush ELSE now + fallback
<1>1. GLM5hPrompts \in Nat \ {0} /\ 5 * GLM5hPrompts \in Nat \ {0} /\ now + SevenDays \in Nat \ {0}
  BY OutcomeAssumption DEF Instants
<1>2. Follows("5h", L["5h"], five, now, d)
  BY <1>1, SeedFollows DEF GoodLane
<1>3. Follows("7d", L["7d"], seed, now, d) /\ Good(seed)
  <2>1. Follows("7d", L["7d"], seed, now, d)
    BY <1>1, SeedFollows DEF GoodLane
  <2> QED
    BY <2>1 DEF Follows
<1>4. DOMAIN M = {"5h", "7d"} /\ M["5h"] = five /\ M["7d"] = week
  OBVIOUS
<1>5. ApplyGLM(L, o, now) = L \/ ApplyGLM(L, o, now) = LimitGLM(N, o, now)
  BY DEF ApplyGLM
<1> HIDE DEF five, seed, M
<1>6. Follows("7d", L["7d"], week, now, d)
  <2>1. Follows("7d", seed, week, now, d)
    BY <1>1, <1>3, AnchorFollows
  <2> HIDE DEF week
  <2> QED
    BY <1>3, <2>1, Chain DEF GoodLane
<1> HIDE DEF week
<1>7. LaneFollows(L, M, now, d) /\ GoodLane(M)
  BY <1>2, <1>4, <1>6, PairFollows, LaneGood
<1>8. LaneFollows(M, N, now, d) /\ GoodLane(N)
  BY <1>7, MeterFollows, LaneGood DEF OutcomeOK
<1>9. DOMAIN N = {"5h", "7d"}
  BY <1>4, <1>8 DEF LaneFollows
<1> HIDE DEF N
<1>10. \A fallback \in Nat : resume(fallback) \in Nat /\ resume(fallback) >= now
  BY DEF OutcomeOK, Instants
<1>11. FiveHours \in Nat /\ DayLength \in Nat
  BY LedgerAssumption
<1>12. LaneFollows(N, LimitGLM(N, o, now), now, d)
  <2>1. CASE o.class = "cooldown"
    <3> DEFINE r == resume(FiveHours)
    <3>1. LimitGLM(N, o, now) = On(N, "5h", ObserveLimit("5h", N["5h"], r, now))
      BY <2>1 DEF LimitGLM
    <3>2. r \in Nat /\ r >= now
      BY <1>10, <1>11
    <3> HIDE DEF r
    <3>3. Follows("5h", N["5h"], ObserveLimit("5h", N["5h"], r, now), now, d)
      BY <1>8, <1>9, <3>2, LimitFollows DEF GoodLane
    <3> QED
      BY <1>8, <1>9, <3>1, <3>3, OnFollows
  <2>2. CASE o.class = "offline"
    <3> DEFINE r == resume(DayLength)
    <3>1. LimitGLM(N, o, now) = On(N, "7d", ObserveLimit("7d", N["7d"], r, now))
      BY <2>2 DEF LimitGLM
    <3>2. r \in Nat /\ r >= now
      BY <1>10, <1>11
    <3> HIDE DEF r
    <3>3. Follows("7d", N["7d"], ObserveLimit("7d", N["7d"], r, now), now, d)
      BY <1>8, <1>9, <3>2, LimitFollows DEF GoodLane
    <3> QED
      BY <1>8, <1>9, <3>1, <3>3, OnFollows
  <2>3. CASE o.class # "cooldown" /\ o.class # "offline"
    <3>1. LimitGLM(N, o, now) = Limit5h(N, o, now)
      BY <2>3 DEF LimitGLM
    <3> QED
      BY <1>8, <1>9, <3>1, Limit5hFollows
  <2> QED
    BY <2>1, <2>2, <2>3
<1>13. LaneFollows(L, LimitGLM(N, o, now), now, d)
  BY <1>7, <1>8, <1>12, LaneChain
<1> QED
  BY <1>5, <1>13, LaneStays

\* A dispatch of the Copilot lane.
LEMMA CopilotFollows ==
  ASSUME NEW L, GoodLane(L), DOMAIN L = {"month"}, NEW o, OutcomeOK(o),
         NEW now \in Instants, NEW d
  PROVE  LaneFollows(L, ApplyCopilot(L, o, now), now, d)
<1> DEFINE next == NextMonthlyReset(now)
           seed == SeedEstimate(L["month"], GuessedCap)
           b == AnchorIfUnset("month", seed, next, now)
           units == IF o.units > Floor THEN o.units ELSE Floor
           c == AddShadow("month", b, units, now)
           m == IF o.class = "ok" \/ o.units > 0 THEN c ELSE b
           e == IF o.class = "rate_limit" THEN ObserveLimit("month", m, next, now) ELSE m
<1>1. next \in Nat \ {0} /\ next >= now
  BY NextReset, LedgerAssumption DEF NextMonthlyReset, Instants
<1>2. units \in Nat
  BY OutcomeAssumption DEF OutcomeOK
<1>3. ApplyCopilot(L, o, now) = On(L, "month", e)
  BY DEF ApplyCopilot
<1> HIDE DEF next, units
<1>4. Follows("month", L["month"], seed, now, d) /\ Good(seed)
  <2>1. Follows("month", L["month"], seed, now, d)
    BY CapFollows, OutcomeAssumption DEF GoodLane
  <2> QED
    BY <2>1 DEF Follows
<1> HIDE DEF seed
<1>5. Follows("month", seed, b, now, d) /\ Good(b)
  <2>1. Follows("month", seed, b, now, d)
    BY <1>1, <1>4, AnchorFollows
  <2> QED
    BY <2>1 DEF Follows
<1> HIDE DEF b
<1>6. Follows("month", b, m, now, d) /\ Good(m)
  <2>1. Follows("month", b, m, now, d)
    BY <1>2, <1>5, ChargeFollows, Stays
  <2> QED
    BY <2>1 DEF Follows
<1> HIDE DEF m
<1>7. Follows("month", m, e, now, d)
  BY <1>1, <1>6, LimitFollows, Stays
<1> HIDE DEF e
<1>8. Follows("month", L["month"], e, now, d)
  BY <1>4, <1>5, <1>6, <1>7, Chain DEF GoodLane
<1> QED
  BY <1>3, <1>8, OnFollows

\* A rate limit of a free lane, or a payment demand.
LEMMA LimitFreeFollows ==
  ASSUME NEW w, NEW b, Good(b), NEW o, NEW now \in Instants, NEW d
  PROVE  Follows(w, b, LimitFree(w, b, o, now), now, d)
<1> DEFINE reset == IF o.retry = "hours" THEN now + FiveHours
                    ELSE IF w = "day" THEN NextDailyReset(now)
                    ELSE now + DayLength
<1>1. NextDailyReset(now) \in Nat /\ NextDailyReset(now) >= now
  BY NextReset, LedgerAssumption DEF NextDailyReset, Instants
<1>2. now + FiveHours \in Nat /\ now + FiveHours >= now /\ now + DayLength \in Nat /\ now + DayLength >= now
  BY LedgerAssumption DEF Instants
<1>3. reset \in Nat /\ reset >= now
  BY <1>1, <1>2
<1>4. LimitFree(w, b, o, now) \in
        {b, ObserveLimit(w, b, reset, now), ObserveLimit(w, b, now + DayLength, now)}
  <2>1. CASE o.class = "rate_limit" /\ o.retry # "minute"
    BY <2>1 DEF LimitFree
  <2>2. CASE o.class = "payment_required"
    BY <2>2 DEF LimitFree
  <2>3. CASE ~ (o.class = "rate_limit" /\ o.retry # "minute") /\ o.class # "payment_required"
    BY <2>3 DEF LimitFree
  <2> QED
    BY <2>1, <2>2, <2>3
<1> HIDE DEF reset
<1> QED
  BY <1>2, <1>3, <1>4, LimitFollows, Stays

\* The vendor's own day figures.
LEMMA HeadersFollow ==
  ASSUME NEW b, Good(b), NEW o, OutcomeOK(o), NEW now \in Instants, NEW d
  PROVE  Follows("day", b, ReadHeaders(b, o.rate, now), now, d)
<1> DEFINE reset == IF o.rate.reset > 0 THEN now + o.rate.reset ELSE NextDailyReset(now)
           r == [by |-> "poll", pct |-> o.rate.pct, at |-> now, reset |-> reset]
           c == SetCapacity(b, o.rate.limit)
<1>1. NextDailyReset(now) \in Nat /\ NextDailyReset(now) >= now
  BY NextReset, LedgerAssumption DEF NextDailyReset, Instants
<1>2. reset \in Nat /\ reset >= now
  BY <1>1 DEF OutcomeOK, Instants
<1>3. r \in [by : Signals \ {"none"}, pct : Int, reset : Nat, at : Nat] /\ r.reset >= now /\ r.by # "drop" /\ r.at = now
  BY <1>2 DEF Signals, Instants, OutcomeOK
<1>4. ReadHeaders(b, o.rate, now) = IF o.rate.limit = 0 THEN b ELSE Observe("day", c, r, now)
  BY DEF ReadHeaders
<1> HIDE DEF reset, r
<1>5. CASE o.rate.limit = 0
  BY <1>4, <1>5, Stays
<1>6. CASE o.rate.limit # 0
  <2>1. Follows("day", b, c, now, d) /\ Good(c)
    <3>1. Follows("day", b, c, now, d)
      BY <1>6, CapFollows DEF OutcomeOK
    <3> QED
      BY <3>1 DEF Follows
  <2> HIDE DEF c
  <2>2. Follows("day", c, Observe("day", c, r, now), now, d)
    BY <1>3, <2>1, ObserveFollows
  <2> QED
    BY <1>4, <1>6, <2>1, <2>2, Chain
<1> QED
  BY <1>5, <1>6

\* A dispatch of a free lane.
LEMMA FreeFollows ==
  ASSUME NEW L, GoodLane(L), NEW w \in {"day", "trial"}, DOMAIN L = {w}, NEW o, OutcomeOK(o),
         NEW now \in Instants, NEW d
  PROVE  LaneFollows(L, ApplyFree(L, w, o, now), now, d)
<1> DEFINE next == IF w = "day" THEN NextDailyReset(now) ELSE now + TenYears
           seed == SeedEstimate(L[w], GuessedCap)
           b == AnchorIfUnset(w, seed, next, now)
           m == AddShadow(w, b, o.units, now)
           h == IF w = "day" THEN ReadHeaders(m, o.rate, now) ELSE m
           f == LimitFree(w, h, o, now)
           e == IF o.class \in {"spawn_error", "config_error"} THEN b ELSE f
<1>1. next \in Nat \ {0}
  <2>1. NextDailyReset(now) \in Nat \ {0}
    BY NextReset, LedgerAssumption DEF NextDailyReset, Instants
  <2> QED
    BY <2>1, OutcomeAssumption DEF Instants
<1>2. ApplyFree(L, w, o, now) = On(L, w, e)
  BY DEF ApplyFree
<1> HIDE DEF next
<1>3. Follows(w, L[w], seed, now, d) /\ Good(seed)
  <2>1. Follows(w, L[w], seed, now, d)
    BY CapFollows, OutcomeAssumption DEF GoodLane
  <2> QED
    BY <2>1 DEF Follows
<1> HIDE DEF seed
<1>4. Follows(w, seed, b, now, d) /\ Good(b)
  <2>1. Follows(w, seed, b, now, d)
    BY <1>1, <1>3, AnchorFollows
  <2> QED
    BY <2>1 DEF Follows
<1> HIDE DEF b
<1>5. Follows(w, b, m, now, d) /\ Good(m)
  <2>1. Follows(w, b, m, now, d)
    BY <1>4, ChargeFollows DEF OutcomeOK
  <2> QED
    BY <2>1 DEF Follows
<1> HIDE DEF m
<1>6. Follows(w, m, h, now, d) /\ Good(h)
  <2>1. Follows(w, m, h, now, d)
    BY <1>5, HeadersFollow, Stays
  <2> QED
    BY <2>1 DEF Follows
<1> HIDE DEF h
<1>7. Follows(w, h, f, now, d)
  BY <1>6, LimitFreeFollows
<1> HIDE DEF f
<1>8. Follows(w, b, f, now, d)
  BY <1>4, <1>5, <1>6, <1>7, Chain
<1>9. Follows(w, b, e, now, d)
  BY <1>4, <1>8, Stays
<1> HIDE DEF e
<1>10. Follows(w, L[w], e, now, d)
  BY <1>3, <1>4, <1>9, Chain DEF GoodLane
<1> QED
  BY <1>2, <1>10, OnFollows

\* Whatever the lane.
LEMMA ApplyFollows ==
  ASSUME NEW l \in Lanes, NEW L, GoodLane(L), DOMAIN L = WindowsOf(l), NEW o, OutcomeOK(o),
         NEW dr, DropOK(dr), NEW suppress, NEW now \in Instants
  PROVE  LaneFollows(L, Apply(l, L, o, dr, suppress, now), now, dr.at)
<1>1. CASE l = "claude"
  BY <1>1, WindowsAre, ClaudeFollows DEF Apply
<1>2. CASE l = "codex"
  BY <1>2, WindowsAre, CodexFollows DEF Apply
<1>3. CASE l = "glm"
  BY <1>3, WindowsAre, GLMFollows DEF Apply
<1>4. CASE l = "copilot"
  BY <1>4, WindowsAre, CopilotFollows DEF Apply
<1>5. CASE l \in {"groq", "nim"}
  <2>1. Apply(l, L, o, dr, suppress, now) = ApplyFree(L, FreeWindow(l), o, now)
    BY <1>5 DEF Apply
  <2>2. FreeWindow(l) \in {"day", "trial"} /\ DOMAIN L = {FreeWindow(l)}
    BY <1>5, WindowsAre DEF FreeWindow
  <2> QED
    BY <2>1, <2>2, FreeFollows
<1> QED
  BY <1>1, <1>2, <1>3, <1>4, <1>5 DEF Lanes

-----------------------------------------------------------------------------
(* The other transactions.                                                 *)

\* A usage poll: an entitlement is a measured capacity.
LEMMA PollFollows ==
  ASSUME NEW L, GoodLane(L), NEW readings, Reported(readings), NEW cap \in Nat,
         cap > 0 => "month" \in DOMAIN L, NEW now \in Instants, NEW d
  PROVE  LaneFollows(L, ApplyPoll(L, readings, cap, now), now, d)
<1> DEFINE b == SetCapacity(L["month"], cap)
           M == IF cap > 0 THEN On(L, "month", b) ELSE L
<1>1. LaneFollows(L, M, now, d) /\ GoodLane(M)
  <2>1. CASE cap > 0
    <3>1. Follows("month", L["month"], b, now, d)
      BY <2>1, CapFollows DEF GoodLane
    <3> HIDE DEF b
    <3> QED
      BY <2>1, <3>1, OnFollows, LaneGood
  <2>2. CASE ~ (cap > 0)
    BY <2>2, LaneStays
  <2> QED
    BY <2>1, <2>2
<1>2. ApplyPoll(L, readings, cap, now) = Land(M, readings, "poll", now, now)
  BY DEF ApplyPoll
<1> HIDE DEF M
<1>3. LaneFollows(M, Land(M, readings, "poll", now, now), now, d)
  BY <1>1, LandFollows DEF Instants
<1> QED
  BY <1>1, <1>2, <1>3, LaneChain

\* The stream events of a probe.
LEMMA StreamFollows ==
  ASSUME NEW L, GoodLane(L), NEW w \in DOMAIN L, NEW status, NEW reset \in Nat,
         NEW now \in Instants, NEW d
  PROVE  LaneFollows(L, IngestStream(L, w, status, reset, now), now, d)
<1>1. CASE reset = Zero \/ reset < now
  BY <1>1, LaneStays DEF IngestStream
<1>2. CASE ~ (reset = Zero \/ reset < now)
  <2>1. reset \in Nat \ {0} /\ reset >= now
    BY <1>2 DEF Zero, Instants
  <2>2. Follows(w, L[w], AnchorAuthoritative(w, L[w], reset, now), now, d)
    BY <2>1, AnchorFollows DEF GoodLane
  <2>3. Follows(w, L[w], ObserveLimit(w, L[w], reset, now), now, d)
    BY <2>1, LimitFollows DEF GoodLane
  <2>4. CASE status = "allowed"
    BY <1>2, <2>2, <2>4, OnFollows DEF IngestStream
  <2>5. CASE status = "rejected"
    BY <1>2, <2>3, <2>5, OnFollows DEF IngestStream
  <2>6. CASE status # "allowed" /\ status # "rejected"
    BY <1>2, <2>6, LaneStays DEF IngestStream
  <2> QED
    BY <2>4, <2>5, <2>6
<1> QED
  BY <1>1, <1>2

\* A fit is a measured capacity.
LEMMA FitFollows ==
  ASSUME NEW L, GoodLane(L), NEW w \in DOMAIN L, NEW fit \in Nat \ {0}, NEW now \in Instants, NEW d
  PROVE  LaneFollows(L, MaybeFit(L, w, fit), now, d)
<1>1. MaybeFit(L, w, fit) = L \/ MaybeFit(L, w, fit) = On(L, w, SetCapacity(L[w], fit))
  BY DEF MaybeFit
<1>2. Follows(w, L[w], SetCapacity(L[w], fit), now, d)
  BY CapFollows DEF GoodLane
<1> QED
  BY <1>1, <1>2, OnFollows, LaneStays

-----------------------------------------------------------------------------
(* The ledger over time.                                                   *)

\* No row is of the future, and no drop row fresher than the drop file.
LedgerOK(L) ==
  /\ DOMAIN L = WindowsOf(lane) /\ GoodLane(L)
  /\ \A w \in DOMAIN L : L[w].obs <= wall /\ (L[w].by = "drop" => L[w].obs <= drop.at)

\* Nobody carries an instant of the future.
Carried ==
  /\ DOMAIN jobs = Jobs /\ \A j \in Jobs : jobs[j] \in Nat /\ jobs[j] <= wall
  /\ DOMAIN poller = Pollers
  /\ \A p \in Pollers : /\ DOMAIN poller[p] = {"at", "now", "copy"}
                        /\ poller[p].at = "fetching" => poller[p].now \in Instants /\ poller[p].now <= wall

QuotaInv ==
  /\ lane \in LanesUsed /\ wall \in Instants
  /\ DropOK(drop) /\ LedgerOK(ledger) /\ Carried

\* An empty ledger, and one of before prompt metering, are in order.
LEMMA EmptyOK == wall \in Instants /\ drop.at \in Nat => LedgerOK(EmptyLedger(WindowsOf(lane)))
<1>1. Good(NewBucket) /\ NewBucket.obs = 0 /\ NewBucket.by = "none"
  BY DEF NewBucket, Good, BucketFields, Signals, FromProvider, Zero
<1> QED
  BY <1>1 DEF EmptyLedger, LedgerOK, GoodLane, Instants

\* What a reader of the file sees is in order, rotten or not.
LEMMA DiskOK == QuotaInv => LedgerOK(OnDisk)
BY EmptyOK DEF QuotaInv, OnDisk, DropOK, LedgerOK

\* The invariant holds at the start, the old GLM ledger's included.
LEMMA QuotaInvInit == QuotaInit => QuotaInv
<1> SUFFICES ASSUME QuotaInit PROVE QuotaInv
  OBVIOUS
<1>1. wall \in Instants /\ DropOK(drop) /\ Carried /\ lane \in LanesUsed
  BY DEF QuotaInit, Instants, DropOK, NoDrop, Reported, Carried, Resting, Zero
<1>2. CASE ledger = EmptyLedger(WindowsOf(lane))
  BY <1>1, <1>2, EmptyOK DEF QuotaInv, DropOK
<1>3. CASE lane = "glm" /\ ledger = LegacyGLM
  <2> DEFINE b == [NewBucket EXCEPT !.there = TRUE, !.src = "shadow", !.shadow = 5 * GLM5hPrompts + 1]
  <2>1. Good(b) /\ b.obs = 0 /\ b.by = "none"
    BY OutcomeAssumption DEF NewBucket, Good, BucketFields, Signals, FromProvider, Zero
  <2>2. DOMAIN ledger = WindowsOf(lane) /\ \A w \in DOMAIN ledger : ledger[w] = b
    BY <1>3 DEF LegacyGLM
  <2> HIDE DEF b
  <2> QED
    BY <1>1, <2>1, <2>2 DEF QuotaInv, LedgerOK, GoodLane, Instants
<1> QED
  BY <1>1, <1>2, <1>3 DEF QuotaInit

\* A transaction stamps what changed, and nothing else.
LEMMA StampFollows ==
  ASSUME NEW B, NEW M, GoodLane(M), NEW now, NEW d, NEW at, NEW u
  PROVE  LaneFollows(M, StampChanges(B, M, now, u), at, d)
<1> DEFINE N == StampChanges(B, M, now, u)
<1>1. ASSUME NEW w \in DOMAIN M PROVE Follows(w, M[w], N[w], at, d)
  <2> DEFINE b == M[w]
             c == [M[w] EXCEPT !.changed = StampTime(now, u)]
  <2>1. N[w] = b \/ N[w] = c
    BY DEF StampChanges
  <2>2. Good(b)
    BY DEF GoodLane
  <2>3. /\ c.cap = b.cap /\ c.guess = b.guess /\ c.shadow = b.shadow /\ c.obs = b.obs /\ c.by = b.by
        /\ c.src = b.src /\ c.pct = b.pct /\ c.reset = b.reset /\ DOMAIN c = BucketFields
    BY <2>2 DEF Good, BucketFields
  <2> HIDE DEF N, c
  <2>4. Follows(w, b, c, at, d)
    BY <2>2, <2>3 DEF Follows, Good, FromProvider, Advances, Passed
  <2> QED
    BY <2>1, <2>2, <2>4, Stays
<1>2. DOMAIN N = DOMAIN M
  BY DEF StampChanges
<1> QED
  BY <1>1, <1>2 DEF LaneFollows

\* What a transaction on the ledger may do.
Transaction(now) ==
  /\ now \in Instants /\ now <= wall
  /\ LaneFollows(OnDisk, ledger', now, drop.at)
  /\ UNCHANGED <<lane, wall, drop>>

\* To write what follows from the file is a transaction.
LEMMA WriteOK ==
  ASSUME QuotaInv, NEW now \in Instants, now <= wall, NEW M, LaneFollows(OnDisk, M, now, drop.at),
         Write(M, now), drop' = drop
  PROVE  Transaction(now)
<1>1. GoodLane(OnDisk) /\ GoodLane(M)
  BY DiskOK, LaneGood DEF LedgerOK
<1>2. LaneFollows(M, ledger', now, drop.at)
  BY <1>1, StampFollows DEF Write
<1> QED
  BY <1>1, <1>2, LaneChain DEF Transaction, Write

\* A transaction leaves the ledger in order.
LEMMA TransactionOK ==
  ASSUME QuotaInv, NEW now, Transaction(now)
  PROVE  LedgerOK(ledger)'
<1>1. LedgerOK(OnDisk) /\ DOMAIN ledger' = WindowsOf(lane)
  BY DiskOK DEF Transaction, LaneFollows, LedgerOK
<1>2. \A w \in DOMAIN ledger' : Follows(w, OnDisk[w], ledger'[w], now, drop.at)
  BY DEF Transaction, LaneFollows
<1>3. \A w \in DOMAIN ledger' : Good(ledger'[w]) /\ ledger'[w].obs \in Nat
  BY <1>2 DEF Follows, Good
<1>4. ASSUME NEW w \in DOMAIN ledger'
      PROVE  ledger'[w].obs <= wall /\ (ledger'[w].by = "drop" => ledger'[w].obs <= drop.at)
  <2>1. OnDisk[w].obs <= wall /\ (OnDisk[w].by = "drop" => OnDisk[w].obs <= drop.at)
    BY <1>1 DEF LedgerOK
  <2>2. now \in Nat /\ now <= wall /\ wall \in Nat
    BY DEF Transaction, QuotaInv, Instants
  <2> QED
    BY <1>2, <1>3, <2>1, <2>2 DEF Follows
<1>5. lane' = lane /\ wall' = wall /\ drop' = drop
  BY DEF Transaction
<1> QED
  BY <1>1, <1>3, <1>4, <1>5 DEF LedgerOK, GoodLane

\* What the vendor may report.
LEMMA ReadingOK == QuotaInv => \A r \in Reading : r.pct \in Int /\ r.reset \in Nat
<1> SUFFICES ASSUME QuotaInv, NEW r \in Reading PROVE r.pct \in Int /\ r.reset \in Nat
  OBVIOUS
<1>1. r.pct \in Readings /\ r.reset \in {0, wall - 1, wall + 1}
  BY DEF Reading, Zero
<1>2. Readings \subseteq 0 .. 100 /\ wall \in Nat \ {0}
  BY StoreAssumption DEF QuotaInv, Instants
<1>3. wall - 1 \in Nat /\ wall + 1 \in Nat
  BY <1>2
<1>4. r.pct \in 0 .. 100
  BY <1>1, <1>2
<1> QED
  BY <1>1, <1>3, <1>4

\* Each action that writes is a transaction at an instant that has come.
LEMMA ConsultWrites == QuotaInv /\ Consult => Transaction(wall)
<1> SUFFICES ASSUME QuotaInv, Consult PROVE Transaction(wall)
  OBVIOUS
<1>1. wall \in Instants /\ wall <= wall /\ DropOK(drop) /\ GoodLane(OnDisk)
  BY DiskOK DEF QuotaInv, LedgerOK, Instants
<1>2. LaneFollows(OnDisk, Ingest(OnDisk, drop, wall), wall, drop.at)
  BY <1>1, IngestFollows
<1> QED
  BY <1>1, <1>2, WriteOK DEF Consult

\* The end of a dispatch writes at the instant the dispatch carries.
LEMMA RunEndWrites ==
  ASSUME QuotaInv, NEW j \in Jobs, NEW o \in Outcomes[lane], RunEnd(j, o)
  PROVE  Transaction(jobs[j])
<1>1. jobs[j] \in Instants /\ jobs[j] <= wall
  BY DEF QuotaInv, Carried, RunEnd, Instants, Zero
<1>2. OutcomeOK(o) /\ lane \in Lanes
  BY StoreAssumption DEF QuotaInv, OutcomeOK
<1>3. GoodLane(OnDisk) /\ DOMAIN OnDisk = WindowsOf(lane) /\ DropOK(drop)
  BY DiskOK DEF LedgerOK, QuotaInv
<1> DEFINE M == Apply(lane, OnDisk, o, drop, Suppress(jobs[j]), jobs[j])
<1>4. LaneFollows(OnDisk, M, jobs[j], drop.at)
  BY <1>1, <1>2, <1>3, ApplyFollows
<1>5. Write(M, jobs[j]) /\ drop' = drop
  BY DEF RunEnd
<1> HIDE DEF M
<1> QED
  BY <1>1, <1>4, <1>5, WriteOK

\* A poll that lands writes at the instant it started.
LEMMA PollLandWrites ==
  ASSUME QuotaInv, NEW p \in Pollers, NEW w \in DOMAIN ledger, NEW r \in Reading,
         NEW cap \in IF lane = "copilot" THEN {0} \cup Measured ELSE {0}, NEW said,
         NEW status, NEW fit \in IF lane = "copilot" THEN {0} ELSE {0} \cup Measured,
         PollLand(p, w, r, cap, said, status, fit)
  PROVE  Transaction(poller[p].now)
<1> DEFINE now == poller[p].now
           readings == [v \in {w} |-> r]
           L == IF status /\ lane = "claude" THEN Ingest(OnDisk, drop, now) ELSE OnDisk
           M == ApplyPoll(L, readings, cap, now)
           N == IF status /\ fit > 0 /\ lane # "copilot" THEN MaybeFit(M, w, fit) ELSE M
<1>1. now \in Instants /\ now <= wall
  BY DEF QuotaInv, Carried, PollLand
<1>2. GoodLane(OnDisk) /\ DOMAIN OnDisk = WindowsOf(lane) /\ DOMAIN ledger = WindowsOf(lane) /\ DropOK(drop)
  BY DiskOK DEF LedgerOK, QuotaInv
<1>3. cap \in Nat /\ (cap > 0 => lane = "copilot") /\ fit \in Nat
  BY DEF Measured
<1>4. Reported(readings)
  BY ReadingOK DEF Reported
<1>5. Write(N, now) /\ drop' = drop
  BY DEF PollLand
<1> HIDE DEF now, readings
<1>6. LaneFollows(OnDisk, L, now, drop.at) /\ GoodLane(L)
  BY <1>1, <1>2, IngestFollows, LaneStays, LaneGood
<1>7. DOMAIN L = WindowsOf(lane)
  BY <1>2, <1>6 DEF LaneFollows
<1> HIDE DEF L
<1>8. cap > 0 => "month" \in DOMAIN L
  BY <1>3, <1>7, WindowsAre
<1>9. LaneFollows(L, M, now, drop.at) /\ GoodLane(M)
  BY <1>1, <1>3, <1>4, <1>6, <1>8, PollFollows, LaneGood
<1>10. w \in DOMAIN M
  BY <1>2, <1>7, <1>9 DEF LaneFollows
<1> HIDE DEF M
<1>11. LaneFollows(M, N, now, drop.at)
  BY <1>1, <1>3, <1>9, <1>10, FitFollows, LaneStays
<1> HIDE DEF N
<1>12. LaneFollows(OnDisk, N, now, drop.at)
  BY <1>1, <1>2, <1>6, <1>9, <1>11, LaneChain
<1> QED
  BY <1>1, <1>5, <1>12, WriteOK DEF now

\* A probe writes at once.
LEMMA ProbeWrites ==
  ASSUME QuotaInv, NEW w \in DOMAIN ledger, NEW status, NEW reset \in {Zero, wall + 1},
         Probe(w, status, reset)
  PROVE  Transaction(wall)
<1>1. wall \in Instants /\ wall <= wall /\ reset \in Nat
  BY DEF QuotaInv, Instants, Zero
<1>2. GoodLane(OnDisk) /\ w \in DOMAIN OnDisk
  BY DiskOK DEF LedgerOK, QuotaInv
<1>3. LaneFollows(OnDisk, IngestStream(OnDisk, w, status, reset, wall), wall, drop.at)
  BY <1>1, <1>2, StreamFollows
<1> QED
  BY <1>1, <1>3, WriteOK DEF Probe

\* Every other step leaves the ledger, and a drop is as new as its mtime.
LEMMA QuotaInvStep == QuotaInv /\ [QuotaNext]_quotaVars => QuotaInv'
<1> SUFFICES ASSUME QuotaInv, [QuotaNext]_quotaVars PROVE QuotaInv'
  OBVIOUS
<1> USE DEF Instants
<1>1. CASE UNCHANGED quotaVars
  BY <1>1 DEF quotaVars, QuotaInv, LedgerOK, Carried
<1>2. CASE Tick
  BY <1>2 DEF Tick, QuotaInv, LedgerOK, GoodLane, Good, Carried
<1>3. CASE FileRots
  BY <1>3 DEF FileRots, QuotaInv, LedgerOK, Carried
<1>4. CASE Consult
  <2>1. Transaction(wall)
    BY <1>4, ConsultWrites
  <2>2. LedgerOK(ledger)'
    BY <2>1, TransactionOK
  <2> QED
    BY <1>4, <2>1, <2>2 DEF Consult, Transaction, QuotaInv, Carried
<1>5. ASSUME NEW w \in DOMAIN ledger, NEW r \in Reading, NEW at \in {wall, wall + 2}, TeeDrop(w, r, at)
      PROVE  QuotaInv'
  <2>1. drop' = [at |-> at, obs |-> [v \in {w} |-> r]] /\ UNCHANGED <<lane, ledger, wall, jobs, poller>>
    BY <1>5 DEF TeeDrop
  <2>2. at \in Nat /\ at # Zero /\ at >= wall
    BY DEF QuotaInv, Zero
  <2>3. DropOK(drop')
    <3>1. Reported(drop'.obs)
      BY <2>1, ReadingOK DEF Reported
    <3> QED
      BY <2>1, <2>2, <3>1 DEF DropOK
  <2>4. \A v \in DOMAIN ledger : ledger[v].obs <= at
    BY <2>2 DEF QuotaInv, LedgerOK, GoodLane, Good
  <2> QED
    BY <2>1, <2>3, <2>4 DEF QuotaInv, LedgerOK, Carried, DropOK
<1>6. ASSUME NEW w \in DOMAIN ledger, NEW status, NEW reset \in {Zero, wall + 1}, Probe(w, status, reset)
      PROVE  QuotaInv'
  <2>1. Transaction(wall)
    BY <1>6, ProbeWrites
  <2>2. LedgerOK(ledger)'
    BY <2>1, TransactionOK
  <2> QED
    BY <1>6, <2>1, <2>2 DEF Probe, Transaction, QuotaInv, Carried
<1>7. ASSUME NEW j \in Jobs, NEW force, RunStart(j, force) PROVE QuotaInv'
  BY <1>7 DEF RunStart, QuotaInv, LedgerOK, Carried
<1>8. ASSUME NEW j \in Jobs, NEW o \in Outcomes[lane], RunEnd(j, o) PROVE QuotaInv'
  <2>1. Transaction(jobs[j])
    BY <1>8, RunEndWrites
  <2>2. LedgerOK(ledger)'
    BY <2>1, TransactionOK
  <2>3. Carried'
    BY <1>8, <2>1 DEF RunEnd, Transaction, QuotaInv, Carried, Zero
  <2> QED
    BY <2>1, <2>2, <2>3 DEF Transaction, QuotaInv
<1>9. ASSUME NEW j \in Jobs, RunUncharged(j) PROVE QuotaInv'
  BY <1>9 DEF RunUncharged, QuotaInv, LedgerOK, Carried, Zero
<1>10. ASSUME NEW p \in Pollers, NEW force, PollStart(p, force) PROVE QuotaInv'
  BY <1>10 DEF PollStart, QuotaInv, LedgerOK, Carried
<1>11. ASSUME NEW p \in Pollers, NEW w \in DOMAIN ledger, NEW r \in Reading,
              NEW cap \in IF lane = "copilot" THEN {0} \cup Measured ELSE {0}, NEW said,
              NEW status, NEW fit \in IF lane = "copilot" THEN {0} ELSE {0} \cup Measured,
              PollLand(p, w, r, cap, said, status, fit)
       PROVE  QuotaInv'
  <2>1. Transaction(poller[p].now)
    BY <1>11, PollLandWrites
  <2>2. LedgerOK(ledger)'
    BY <2>1, TransactionOK
  <2>3. Carried'
    BY <1>11, <2>1 DEF PollLand, Transaction, QuotaInv, Carried
  <2> QED
    BY <2>1, <2>2, <2>3 DEF Transaction, QuotaInv
<1>12. ASSUME NEW p \in Pollers, PollMisses(p) \/ PollBusy(p) \/ PollFinish(p) PROVE QuotaInv'
  <2>1. UNCHANGED <<lane, ledger, wall, drop, jobs>>
    BY <1>12 DEF PollMisses, PollBusy, PollFinish
  <2>2. Carried'
    BY <1>12, <2>1 DEF PollMisses, PollBusy, PollFinish, QuotaInv, Carried, Resting
  <2> QED
    BY <2>1, <2>2 DEF QuotaInv, LedgerOK
<1> QED
  BY <1>1, <1>2, <1>3, <1>4, <1>5, <1>6, <1>7, <1>8, <1>9, <1>10, <1>11, <1>12
  DEF QuotaNext, Signal, Run, Poll

\* The invariant holds of every reachable state.
LEMMA QuotaInvAlways == QuotaSpec => []QuotaInv
BY QuotaInvInit, QuotaInvStep, PTL DEF QuotaSpec

-----------------------------------------------------------------------------
(* What the runs check on small instances.                                 *)

\* A step either leaves the ledger and its file, or is a transaction, or is the
\* file's rotting.
LEMMA StepsAre ==
  ASSUME QuotaInv, [QuotaNext]_quotaVars
  PROVE  ledger' = ledger \/ \E now \in Instants : Transaction(now)
<1>1. ASSUME NEW j \in Jobs, NEW o \in Outcomes[lane], RunEnd(j, o)
      PROVE  \E now \in Instants : Transaction(now)
  BY <1>1, RunEndWrites DEF Transaction
<1>2. ASSUME NEW p \in Pollers, NEW w \in DOMAIN ledger, NEW r \in Reading,
             NEW cap \in IF lane = "copilot" THEN {0} \cup Measured ELSE {0}, NEW said,
             NEW status, NEW fit \in IF lane = "copilot" THEN {0} ELSE {0} \cup Measured,
             PollLand(p, w, r, cap, said, status, fit)
      PROVE  \E now \in Instants : Transaction(now)
  BY <1>2, PollLandWrites DEF Transaction
<1>3. ASSUME NEW w \in DOMAIN ledger, NEW status, NEW reset \in {Zero, wall + 1}, Probe(w, status, reset)
      PROVE  \E now \in Instants : Transaction(now)
  BY <1>3, ProbeWrites DEF Transaction
<1>4. CASE Consult
  BY <1>4, ConsultWrites DEF Transaction
<1>5. ASSUME NEW w, NEW r, NEW at, TeeDrop(w, r, at) PROVE ledger' = ledger
  BY <1>5 DEF TeeDrop
<1>6. Tick \/ FileRots \/ UNCHANGED quotaVars => ledger' = ledger
  BY DEF Tick, FileRots, quotaVars
<1>7. ASSUME NEW j \in Jobs, NEW force, RunStart(j, force) \/ RunUncharged(j) PROVE ledger' = ledger
  BY <1>7 DEF RunStart, RunUncharged
<1>8. ASSUME NEW p \in Pollers, NEW force,
             PollStart(p, force) \/ PollMisses(p) \/ PollBusy(p) \/ PollFinish(p)
      PROVE  ledger' = ledger
  BY <1>8 DEF PollStart, PollMisses, PollBusy, PollFinish
<1> QED
  BY <1>1, <1>2, <1>3, <1>4, <1>5, <1>6, <1>7, <1>8 DEF QuotaNext, Signal, Run, Poll

\* The buckets of a readable ledger before and after a step, at an instant that
\* has come.
LEMMA StepFollows ==
  ASSUME QuotaInv, [QuotaNext]_quotaVars, ~ rotten, NEW w \in DOMAIN ledger
  PROVE  /\ Good(ledger[w])
         /\ \E now \in Instants : now <= wall /\ Follows(w, ledger[w], ledger'[w], now, drop.at)
<1>1. Good(ledger[w]) /\ wall \in Instants /\ wall <= wall
  BY DEF QuotaInv, LedgerOK, GoodLane, Instants
<1>2. CASE ledger' = ledger
  BY <1>1, <1>2, Stays
<1>3. ASSUME NEW now \in Instants, Transaction(now)
      PROVE  now <= wall /\ Follows(w, ledger[w], ledger'[w], now, drop.at)
  BY <1>3 DEF Transaction, LaneFollows, OnDisk
<1> QED
  BY <1>1, <1>2, <1>3, StepsAre

\* No lane is locked for ever: a known percentage has a reset moment, for every
\* lane, after every transaction in any order.
THEOREM NeverLockedForeverAlways == QuotaSpec => []NeverLockedForever
<1>1. QuotaInv => NeverLockedForever
  BY DEF QuotaInv, LedgerOK, GoodLane, Good, NeverLockedForever
<1> QED
  BY <1>1, QuotaInvAlways, PTL

\* A drop row is never fresher than the drop file, whatever its mtime.
THEOREM DropKeepsItsAgeAlways == QuotaSpec => []DropKeepsItsAge
<1>1. QuotaInv => DropKeepsItsAge
  BY DEF QuotaInv, LedgerOK, DropKeepsItsAge
<1> QED
  BY <1>1, QuotaInvAlways, PTL

\* No configured guess ever replaces or withdraws a measured capacity.
THEOREM MeasuredCapStaysAlways == QuotaSpec => MeasuredCapStays
<1>1. ASSUME QuotaInv, [QuotaNext]_quotaVars, NEW w \in DOMAIN ledger,
             ledger[w].cap > 0, ~ ledger[w].guess, ~ rotten
      PROVE  ledger'[w].cap > 0 /\ ~ ledger'[w].guess
  BY <1>1, StepFollows DEF Follows
<1>2. QuotaInv /\ [QuotaNext]_quotaVars
      => [\A w \in DOMAIN ledger :
       ledger[w].cap > 0 /\ ~ledger[w].guess /\ ~rotten
         => ledger'[w].cap > 0 /\ ~ledger'[w].guess]_quotaVars
  BY <1>1
<1> QED
  BY <1>2, QuotaInvAlways, PTL DEF MeasuredCapStays, QuotaSpec

\* The spend of a trial pool never shrinks.
THEOREM TrialSpendIsKeptAlways == QuotaSpec => TrialSpendIsKept
<1>1. ASSUME QuotaInv, [QuotaNext]_quotaVars, NEW w \in DOMAIN ledger, w = "trial", ~ rotten
      PROVE  ledger'[w].shadow >= ledger[w].shadow
  BY <1>1, StepFollows DEF Follows
<1>2. QuotaInv /\ [QuotaNext]_quotaVars
      => [\A w \in DOMAIN ledger :
       w = "trial" /\ ~rotten => ledger'[w].shadow >= ledger[w].shadow]_quotaVars
  BY <1>1
<1> QED
  BY <1>2, QuotaInvAlways, PTL DEF TrialSpendIsKept, QuotaSpec

\* A fresh denial of the vendor stands, also against a late transaction of a
\* caller with an older clock.
THEOREM DenialStandsAlways == QuotaSpec => DenialStands
<1>1. ASSUME QuotaInv, [QuotaNext]_quotaVars, NEW w \in DOMAIN ledger, ~ rotten,
             Denied(ledger[w]), ~ Passed(ledger[w], wall), wall - ledger[w].obs <= AuthorityTTL
      PROVE  Denied(ledger'[w])
  <2> DEFINE b == ledger[w]
             c == ledger'[w]
  <2>1. PICK now \in Instants : now <= wall /\ Follows(w, b, c, now, drop.at)
    BY <1>1, StepFollows
  <2>2. Good(b) /\ Good(c) /\ wall \in Nat
    BY <1>1, <2>1, StepFollows DEF Follows, QuotaInv, Instants
  <2> HIDE DEF b, c
  <2>3. ~ Passed(b, now) /\ now - b.obs <= AuthorityTTL
    BY <1>1, <2>1, <2>2, LedgerAssumption DEF b, Passed, Good, Instants, Zero
  <2>4. Rank(b.by) = 3 /\ FromProvider(b)
    <3>1. FromProvider(b) /\ b.by = "limit"
      BY <1>1 DEF b, Denied
    <3>2. Rank("limit") = 3
      BY Ranks DEF Signals
    <3> QED
      BY <3>1, <3>2
  <2>5. FromProvider(c) /\ Rank(c.by) = 3
    <3>1. Rank(c.by) \in 0 .. 3 /\ now \in Nat /\ b.obs \in Nat /\ AuthorityTTL \in Nat
      BY <2>1, <2>2, Ranks, LedgerAssumption DEF Good, Instants
    <3> QED
      BY <2>1, <2>3, <2>4, <3>1 DEF Follows, Advances
  <2> QED
    BY <2>2, <2>5, Ranks DEF Good, Denied, c
<1>2. QuotaInv /\ [QuotaNext]_quotaVars
      => [\A w \in DOMAIN ledger :
       Denied(ledger[w]) /\ ~Passed(ledger[w], wall) /\ wall - ledger[w].obs <= AuthorityTTL
         => Denied(ledger'[w]) \/ rotten]_quotaVars
  BY <1>1
<1> QED
  BY <1>2, QuotaInvAlways, PTL DEF DenialStands, QuotaSpec

\* No reading replaces a newer one of its own rank or above.
THEOREM NoRewindAlways == QuotaSpec => NoRewind
<1>1. ASSUME QuotaInv, [QuotaNext]_quotaVars, NEW w \in DOMAIN ledger, ~ rotten,
             FromProvider(ledger[w]), ~ Passed(ledger[w], wall),
             Rank(ledger'[w].by) <= Rank(ledger[w].by)
      PROVE  ledger'[w].obs >= ledger[w].obs
  <2> DEFINE b == ledger[w]
             c == ledger'[w]
  <2>1. PICK now \in Instants : now <= wall /\ Follows(w, b, c, now, drop.at)
    BY <1>1, StepFollows
  <2>2. Good(b) /\ Good(c) /\ wall \in Nat
    BY <1>1, <2>1, StepFollows DEF Follows, QuotaInv, Instants
  <2> HIDE DEF b, c
  <2>3. ~ Passed(b, now)
    BY <1>1, <2>1, <2>2 DEF b, Passed, Good, Instants
  <2>4. Rank(b.by) \in 0 .. 3 /\ Rank(c.by) \in 0 .. 3
    BY <2>2, Ranks DEF Good
  <2>5. FromProvider(b) /\ Rank(c.by) <= Rank(b.by)
    BY <1>1 DEF b, c
  <2>6. c.obs >= b.obs
    BY <2>1, <2>3, <2>4, <2>5 DEF Follows, Advances
  <2> QED
    BY <2>6 DEF b, c
<1>2. QuotaInv /\ [QuotaNext]_quotaVars
      => [\A w \in DOMAIN ledger :
       FromProvider(ledger[w]) /\ FromProvider(ledger'[w]) /\ ~rotten
       /\ ~Passed(ledger[w], wall) /\ Rank(ledger'[w].by) <= Rank(ledger[w].by)
         => ledger'[w].obs >= ledger[w].obs]_quotaVars
  BY <1>1
<1> QED
  BY <1>2, QuotaInvAlways, PTL DEF NoRewind, QuotaSpec

-----------------------------------------------------------------------------
(* What this device alone can do to a lane.  As long as the vendor has said *)
(* nothing that closes it and no capacity has been measured, every          *)
(* capacity is a guess and no percentage over it counts as exhausted.       *)

Harmless(b) ==
  /\ b.cap > 0 => b.guess
  /\ b.pct >= ExhaustPct => ~ FromProvider(b) /\ b.guess

HarmlessLane(L) == \A w \in DOMAIN L : Harmless(L[w])

\* No window of such a lane exhausts it.
LEMMA HarmlessAdmits ==
  ASSUME NEW L, HarmlessLane(L), NEW now
  PROVE  Decide(L, now).admit
<1>1. Exhausting(L, now) = {}
  BY DEF Exhausting, LiveWindows, HarmlessLane, Harmless, EstimateSourced
<1> QED
  BY <1>1 DEF Decide

\* A window that rolls forgets its percentage.
LEMMA FreshHarmless ==
  ASSUME NEW w, NEW b, Good(b), Harmless(b), NEW now
  PROVE  Harmless(Fresh(w, b, now))
BY LedgerAssumption DEF Fresh, Roll, Passed, Good, BucketFields, Harmless, FromProvider

\* A reading below the threshold.
LEMMA ObserveHarmless ==
  ASSUME NEW w, NEW b, Good(b), Harmless(b), NEW now \in Instants,
         NEW o, o.pct \in Int, o.pct < ExhaustPct
  PROVE  Harmless(Observe(w, b, o, now))
<1> DEFINE r == Fresh(w, b, now)
           n == [r EXCEPT !.pct = o.pct, !.reset = o.reset, !.src = "provider",
                          !.obs = SeenAt(o, now), !.by = o.by]
<1>1. Harmless(r) /\ Good(r)
  BY FreshHarmless, FreshFollows DEF Follows
<1>2. Observe(w, b, o, now) = r \/ Observe(w, b, o, now) = n
  BY DEF Observe
<1> HIDE DEF r
<1>3. n.cap = r.cap /\ n.guess = r.guess /\ n.pct = o.pct
  BY <1>1 DEF Good, BucketFields
<1> HIDE DEF n
<1>4. Harmless(n)
  BY <1>1, <1>3, LedgerAssumption DEF Harmless
<1> QED
  BY <1>1, <1>2, <1>4

\* Anchors leave the percentage.
LEMMA AnchorHarmless ==
  ASSUME NEW w, NEW b, Good(b), Harmless(b), NEW now \in Instants, NEW reset
  PROVE  /\ Harmless(AnchorIfUnset(w, b, reset, now))
         /\ Harmless(AnchorAuthoritative(w, b, reset, now))
<1> DEFINE r == Fresh(w, b, now)
           n == [r EXCEPT !.reset = reset]
<1>1. Harmless(r) /\ Good(r)
  BY FreshHarmless, FreshFollows DEF Follows
<1>2. AnchorIfUnset(w, b, reset, now) \in {r, n} /\ AnchorAuthoritative(w, b, reset, now) \in {r, n}
  BY DEF AnchorIfUnset, AnchorAuthoritative
<1> HIDE DEF r
<1>3. n.cap = r.cap /\ n.guess = r.guess /\ n.pct = r.pct /\ n.src = r.src
  BY <1>1 DEF Good, BucketFields
<1> HIDE DEF n
<1>4. Harmless(n)
  BY <1>1, <1>3 DEF Harmless, FromProvider
<1> QED
  BY <1>1, <1>2, <1>4

\* A charge derives a percentage only from a capacity, which is a guess.
LEMMA ChargeHarmless ==
  ASSUME NEW w, NEW b, Good(b), Harmless(b), NEW now \in Instants, NEW tokens \in Nat
  PROVE  Harmless(AddShadow(w, b, tokens, now))
<1> DEFINE r == Fresh(w, b, now)
           s == [r EXCEPT !.shadow = @ + tokens,
                          !.reset  = IF w = "5h" /\ @ = Zero THEN now + FiveHours ELSE @]
           n == [s EXCEPT !.pct = Derived(s), !.src = "shadow", !.obs = now]
<1>1. Harmless(r) /\ Good(r)
  BY FreshHarmless, FreshFollows DEF Follows
<1>2. AddShadow(w, b, tokens, now) = IF FromProvider(s) THEN s ELSE n
  BY DEF AddShadow
<1> HIDE DEF r
<1>3. s.cap = r.cap /\ s.guess = r.guess /\ s.pct = r.pct /\ s.src = r.src /\ DOMAIN s = BucketFields
  BY <1>1 DEF Good, BucketFields
<1> HIDE DEF s
<1>4. n.cap = s.cap /\ n.guess = s.guess /\ n.pct = Derived(s) /\ n.src = "shadow"
  BY <1>3 DEF BucketFields
<1> HIDE DEF n
<1>5. Harmless(s)
  BY <1>1, <1>3 DEF Harmless, FromProvider
<1>6. s.cap > 0 \/ Derived(s) = -1
  BY DEF Derived
<1>7. Harmless(n)
  BY <1>4, <1>5, <1>6, LedgerAssumption DEF Harmless, FromProvider
<1> QED
  BY <1>2, <1>5, <1>7

\* A configured capacity is marked as the guess it is.
LEMMA SeedHarmless ==
  ASSUME NEW b, Good(b), Harmless(b), NEW cap
  PROVE  Harmless(SeedEstimate(b, cap))
<1> DEFINE n == SetCapacityEstimate(b, cap)
<1>1. n.guess = TRUE /\ n.pct = b.pct /\ n.src = b.src
  BY DEF SetCapacityEstimate, Good, BucketFields
<1>2. SeedEstimate(b, cap) = b \/ SeedEstimate(b, cap) = n
  BY DEF SeedEstimate
<1> HIDE DEF n
<1>3. Harmless(n)
  BY <1>1 DEF Harmless, FromProvider
<1> QED
  BY <1>2, <1>3

\* A guess that is withdrawn takes its percentage along.
LEMMA WithdrawHarmless ==
  ASSUME NEW w, NEW b, Good(b), Harmless(b), NEW now \in Instants
  PROVE  Harmless(ClearCapacity(w, b, now))
<1> DEFINE r == Fresh(w, b, now)
           n == [r EXCEPT !.cap = 0, !.guess = FALSE, !.pct = -1, !.src = "shadow", !.obs = now]
<1>1. Harmless(r) /\ Good(r)
  BY FreshHarmless, FreshFollows DEF Follows
<1>2. n.cap = 0 /\ n.pct = -1
  BY <1>1 DEF Good, BucketFields
<1>3. ClearCapacity(w, b, now) = r \/ ClearCapacity(w, b, now) = n
  BY DEF ClearCapacity
<1> HIDE DEF r, n
<1>4. Harmless(n)
  BY <1>2, LedgerAssumption DEF Harmless
<1> QED
  BY <1>1, <1>3, <1>4

-----------------------------------------------------------------------------
\* One window of a lane.
LEMMA OnHarmless ==
  ASSUME NEW L, HarmlessLane(L), NEW w \in DOMAIN L, NEW b, Harmless(b)
  PROVE  HarmlessLane(On(L, w, b))
BY DEF On, HarmlessLane

\* Readings that land, none of which says a window is full.
LEMMA LandHarmless ==
  ASSUME NEW L, GoodLane(L), HarmlessLane(L), NEW readings, Reported(readings),
         ~ Closing(readings), NEW by, NEW at, NEW now \in Instants
  PROVE  HarmlessLane(Land(L, readings, by, at, now))
<1> DEFINE M == Land(L, readings, by, at, now)
<1>1. ASSUME NEW w \in DOMAIN L PROVE Harmless(M[w])
  <2>1. CASE w \in DOMAIN readings /\ Usable(readings[w], now)
    <3> DEFINE o == [by |-> by, pct |-> readings[w].pct, reset |-> readings[w].reset, at |-> at]
    <3>1. o.pct \in Int /\ o.pct < ExhaustPct
      BY <2>1, LedgerAssumption DEF Reported, Closing
    <3>2. M[w] = Observe(w, L[w], o, now)
      BY <2>1 DEF Land
    <3> HIDE DEF o, M
    <3> QED
      BY <3>1, <3>2, ObserveHarmless DEF GoodLane, HarmlessLane
  <2>2. CASE ~ (w \in DOMAIN readings /\ Usable(readings[w], now))
    <3>1. M[w] = L[w]
      BY <2>2 DEF Land
    <3> QED
      BY <3>1 DEF HarmlessLane
  <2> QED
    BY <2>1, <2>2
<1>2. DOMAIN M = DOMAIN L
  BY DEF Land
<1> QED
  <2> HIDE DEF M
  <2>1. HarmlessLane(M)
    BY <1>1, <1>2 DEF HarmlessLane
  <2> QED
    BY <2>1 DEF M

\* The drop.
LEMMA IngestHarmless ==
  ASSUME NEW L, GoodLane(L), HarmlessLane(L), NEW dr, DropOK(dr), ~ Closing(dr.obs),
         NEW now \in Instants
  PROVE  HarmlessLane(Ingest(L, dr, now))
BY LandHarmless DEF Ingest, DropOK

\* Metering.
LEMMA MeterHarmless ==
  ASSUME NEW L, GoodLane(L), HarmlessLane(L), NEW units \in Nat, NEW now \in Instants
  PROVE  HarmlessLane(Meter(L, units, now))
BY ChargeHarmless DEF Meter, HarmlessLane, GoodLane

\* A dispatch that was not denied, and whose headers name no limit, on every
\* lane but GLM, whose quota is documented.
Undenied(o) == o.class \notin Denials /\ o.rate.limit = 0

\* Claude.
LEMMA ClaudeHarmless ==
  ASSUME NEW L, GoodLane(L), HarmlessLane(L), NEW o, OutcomeOK(o), Undenied(o),
         NEW dr, DropOK(dr), ~ Closing(dr.obs), NEW now \in Instants
  PROVE  HarmlessLane(ApplyClaude(L, o, dr, now))
<1> DEFINE I == Ingest(L, dr, now)
           M == Meter(I, o.units, now)
<1>1. HarmlessLane(I) /\ GoodLane(I)
  BY IngestHarmless, IngestFollows, LaneGood
<1> HIDE DEF I
<1>2. HarmlessLane(M)
  BY <1>1, MeterHarmless DEF OutcomeOK
<1>3. ApplyClaude(L, o, dr, now) = M
  BY DEF ApplyClaude, Limit5h, Undenied, Denials, I
<1> QED
  BY <1>2, <1>3

\* Codex, the phantom window's withdrawal included.
LEMMA CodexHarmless ==
  ASSUME NEW L, GoodLane(L), HarmlessLane(L), DOMAIN L = {"5h", "7d"}, NEW o, OutcomeOK(o),
         Undenied(o), NEW suppress, NEW now \in Instants
  PROVE  HarmlessLane(ApplyCodex(L, o, suppress, now))
<1> DEFINE five == IF suppress THEN ClearCapacity("5h", L["5h"], now)
                   ELSE SeedEstimate(L["5h"], GuessedCap)
           week == AnchorIfUnset("7d", L["7d"], now + SevenDays, now)
           M == [L EXCEPT !["5h"] = five, !["7d"] = week]
<1>1. Good(L["5h"]) /\ Good(L["7d"]) /\ Harmless(L["5h"]) /\ Harmless(L["7d"])
  BY DEF GoodLane, HarmlessLane
<1>2. Harmless(five) /\ Harmless(week)
  BY <1>1, WithdrawHarmless, SeedHarmless, AnchorHarmless
<1>3. Good(five) /\ Good(week)
  <2>1. now + SevenDays \in Nat \ {0}
    BY OutcomeAssumption DEF Instants
  <2> QED
    BY <1>1, <2>1, WithdrawFollows, CapFollows, AnchorFollows, OutcomeAssumption DEF Follows
<1>4. DOMAIN M = {"5h", "7d"} /\ M["5h"] = five /\ M["7d"] = week
  OBVIOUS
<1>5. ApplyCodex(L, o, suppress, now) = IF o.units > 0 THEN Meter(M, o.units, now) ELSE M
  BY DEF ApplyCodex, Limit5h, Undenied, Denials
<1> HIDE DEF five, week, M
<1>6. GoodLane(M) /\ HarmlessLane(M)
  BY <1>2, <1>3, <1>4 DEF GoodLane, HarmlessLane
<1> QED
  BY <1>5, <1>6, MeterHarmless DEF OutcomeOK

\* Copilot.
LEMMA CopilotHarmless ==
  ASSUME NEW L, GoodLane(L), HarmlessLane(L), DOMAIN L = {"month"}, NEW o, OutcomeOK(o),
         Undenied(o), NEW now \in Instants
  PROVE  HarmlessLane(ApplyCopilot(L, o, now))
<1> DEFINE next == NextMonthlyReset(now)
           seed == SeedEstimate(L["month"], GuessedCap)
           b == AnchorIfUnset("month", seed, next, now)
           units == IF o.units > Floor THEN o.units ELSE Floor
           m == IF o.class = "ok" \/ o.units > 0 THEN AddShadow("month", b, units, now) ELSE b
<1>1. ApplyCopilot(L, o, now) = On(L, "month", m)
  BY DEF ApplyCopilot, Undenied, Denials
<1>2. next \in Nat \ {0} /\ units \in Nat
  BY NextReset, LedgerAssumption, OutcomeAssumption DEF NextMonthlyReset, Instants, OutcomeOK
<1> HIDE DEF next, units
<1>3. Harmless(seed) /\ Good(seed)
  BY SeedHarmless, CapFollows, OutcomeAssumption DEF GoodLane, HarmlessLane, Follows
<1> HIDE DEF seed
<1>4. Harmless(b) /\ Good(b)
  BY <1>2, <1>3, AnchorHarmless, AnchorFollows DEF Follows
<1> HIDE DEF b
<1>5. Harmless(m)
  BY <1>2, <1>4, ChargeHarmless
<1> HIDE DEF m
<1> QED
  BY <1>1, <1>5, OnHarmless

\* A free lane.
LEMMA FreeHarmless ==
  ASSUME NEW L, GoodLane(L), HarmlessLane(L), NEW w \in {"day", "trial"}, DOMAIN L = {w},
         NEW o, OutcomeOK(o), Undenied(o), NEW now \in Instants
  PROVE  HarmlessLane(ApplyFree(L, w, o, now))
<1> DEFINE next == IF w = "day" THEN NextDailyReset(now) ELSE now + TenYears
           seed == SeedEstimate(L[w], GuessedCap)
           b == AnchorIfUnset(w, seed, next, now)
           m == AddShadow(w, b, o.units, now)
<1>1. ApplyFree(L, w, o, now) \in {On(L, w, b), On(L, w, m)}
  BY DEF ApplyFree, ReadHeaders, LimitFree, Undenied, Denials
<1>2. next \in Nat \ {0}
  BY NextReset, LedgerAssumption, OutcomeAssumption DEF NextDailyReset, Instants
<1> HIDE DEF next
<1>3. Harmless(seed) /\ Good(seed)
  BY SeedHarmless, CapFollows, OutcomeAssumption DEF GoodLane, HarmlessLane, Follows
<1> HIDE DEF seed
<1>4. Harmless(b) /\ Good(b)
  BY <1>2, <1>3, AnchorHarmless, AnchorFollows DEF Follows
<1> HIDE DEF b
<1>5. Harmless(m)
  BY <1>4, ChargeHarmless DEF OutcomeOK
<1> HIDE DEF m
<1> QED
  BY <1>1, <1>4, <1>5, OnHarmless

\* Whatever the lane, GLM apart.
LEMMA ApplyHarmless ==
  ASSUME NEW l \in Lanes, l # "glm", NEW L, GoodLane(L), HarmlessLane(L), DOMAIN L = WindowsOf(l),
         NEW o, OutcomeOK(o), Undenied(o), NEW dr, DropOK(dr), ~ Closing(dr.obs), NEW suppress,
         NEW now \in Instants
  PROVE  HarmlessLane(Apply(l, L, o, dr, suppress, now))
<1>1. CASE l = "claude"
  BY <1>1, ClaudeHarmless DEF Apply
<1>2. CASE l = "codex"
  BY <1>2, WindowsAre, CodexHarmless DEF Apply
<1>3. CASE l = "copilot"
  BY <1>3, WindowsAre, CopilotHarmless DEF Apply
<1>4. CASE l \in {"groq", "nim"}
  <2>1. Apply(l, L, o, dr, suppress, now) = ApplyFree(L, FreeWindow(l), o, now)
    BY <1>4 DEF Apply
  <2>2. FreeWindow(l) \in {"day", "trial"} /\ DOMAIN L = {FreeWindow(l)}
    BY <1>4, WindowsAre DEF FreeWindow
  <2> QED
    BY <2>1, <2>2, FreeHarmless
<1> QED
  BY <1>1, <1>2, <1>3, <1>4 DEF Lanes

\* A probe's event that is not a rejection.
LEMMA StreamHarmless ==
  ASSUME NEW L, GoodLane(L), HarmlessLane(L), NEW w \in DOMAIN L, NEW status, status # "rejected",
         NEW reset, NEW now \in Instants
  PROVE  HarmlessLane(IngestStream(L, w, status, reset, now))
<1>1. Harmless(AnchorAuthoritative(w, L[w], reset, now))
  BY AnchorHarmless DEF GoodLane, HarmlessLane
<1>2. IngestStream(L, w, status, reset, now) \in {L, On(L, w, AnchorAuthoritative(w, L[w], reset, now))}
  BY DEF IngestStream
<1> QED
  BY <1>1, <1>2, OnHarmless

-----------------------------------------------------------------------------
\* The ledger of a lane the vendor has said nothing closing of.
Unclosed == ~ vendor /\ lane # "glm" => HarmlessLane(ledger)

\* An empty ledger is harmless, and so is what a reader sees of a rotten one.
LEMMA DiskHarmless ==
  ASSUME Unclosed, ~ vendor, lane # "glm"
  PROVE  HarmlessLane(OnDisk)
BY LedgerAssumption DEF Unclosed, OnDisk, HarmlessLane, Harmless, EmptyLedger, NewBucket

\* To write a harmless ledger is harmless.
LEMMA WriteHarmless ==
  ASSUME NEW M, GoodLane(M), HarmlessLane(M), NEW now, Write(M, now)
  PROVE  HarmlessLane(ledger')
<1>1. ASSUME NEW w \in DOMAIN M PROVE Harmless(ledger'[w])
  <2> DEFINE c == [M[w] EXCEPT !.changed = StampTime(now, wall)]
  <2>1. ledger'[w] = M[w] \/ ledger'[w] = c
    BY DEF Write, StampChanges
  <2>2. c.cap = M[w].cap /\ c.guess = M[w].guess /\ c.pct = M[w].pct /\ c.src = M[w].src
    BY DEF GoodLane, Good, BucketFields
  <2> HIDE DEF c
  <2>3. Harmless(c)
    BY <2>2 DEF HarmlessLane, Harmless, FromProvider
  <2> QED
    BY <2>1, <2>3 DEF HarmlessLane
<1>2. DOMAIN ledger' = DOMAIN M
  BY DEF Write, StampChanges
<1> QED
  BY <1>1, <1>2 DEF HarmlessLane

\* Nothing this device does on its own closes a lane.
LEMMA UnclosedStep ==
  ASSUME QuotaInv, Unclosed, [QuotaNext]_quotaVars
  PROVE  Unclosed'
<1>1. /\ DropOK(drop) /\ GoodLane(OnDisk) /\ DOMAIN OnDisk = WindowsOf(lane) /\ wall \in Instants
      /\ DOMAIN ledger = WindowsOf(lane) /\ lane \in Lanes
  BY DiskOK, StoreAssumption DEF QuotaInv, LedgerOK
<1>2. CASE Consult
  <2> SUFFICES ASSUME ~ vendor', lane' # "glm" PROVE HarmlessLane(ledger')
    BY DEF Unclosed
  <2>1. lane # "glm" /\ ~ vendor /\ ~ Closing(drop.obs) /\ Write(Ingest(OnDisk, drop, wall), wall)
    BY <1>2 DEF Consult, Write, Heard
  <2>2. HarmlessLane(OnDisk)
    BY <2>1, DiskHarmless
  <2>3. HarmlessLane(Ingest(OnDisk, drop, wall)) /\ GoodLane(Ingest(OnDisk, drop, wall))
    BY <1>1, <2>1, <2>2, IngestHarmless, IngestFollows, LaneGood
  <2> QED
    BY <2>1, <2>3, WriteHarmless
<1>3. ASSUME NEW w \in DOMAIN ledger, NEW status, NEW reset \in {Zero, wall + 1}, Probe(w, status, reset)
      PROVE  Unclosed'
  <2> SUFFICES ASSUME ~ vendor', lane' # "glm" PROVE HarmlessLane(ledger')
    BY DEF Unclosed
  <2> DEFINE M == IngestStream(OnDisk, w, status, reset, wall)
  <2>1. lane # "glm" /\ ~ vendor /\ status # "rejected" /\ Write(M, wall)
    BY <1>3 DEF Probe, Write, Heard
  <2>2. HarmlessLane(OnDisk) /\ w \in DOMAIN OnDisk /\ reset \in Nat
    BY <1>1, <2>1, DiskHarmless DEF Zero, Instants
  <2>3. HarmlessLane(M) /\ GoodLane(M)
    BY <1>1, <2>1, <2>2, StreamHarmless, StreamFollows, LaneGood
  <2> QED
    BY <2>1, <2>3, WriteHarmless
<1>4. ASSUME NEW j \in Jobs, NEW o \in Outcomes[lane], RunEnd(j, o) PROVE Unclosed'
  <2> SUFFICES ASSUME ~ vendor', lane' # "glm" PROVE HarmlessLane(ledger')
    BY DEF Unclosed
  <2> DEFINE M == Apply(lane, OnDisk, o, drop, Suppress(jobs[j]), jobs[j])
  <2>1. lane # "glm" /\ ~ vendor /\ ~ Closing(drop.obs) /\ Write(M, jobs[j])
        /\ o.class \notin Denials /\ ~ (o.rate.limit > 0)
    BY <1>4 DEF RunEnd, Write, Heard
  <2>2. jobs[j] \in Instants
    BY <1>4 DEF QuotaInv, Carried, RunEnd, Instants, Zero
  <2>3. OutcomeOK(o)
    BY StoreAssumption DEF QuotaInv, OutcomeOK
  <2>4. Undenied(o)
    BY <2>1, <2>3 DEF OutcomeOK, Undenied
  <2>5. HarmlessLane(OnDisk)
    BY <2>1, DiskHarmless
  <2>6. HarmlessLane(M) /\ GoodLane(M)
    BY <1>1, <2>1, <2>2, <2>3, <2>4, <2>5, ApplyHarmless, ApplyFollows, LaneGood
  <2> HIDE DEF M
  <2> QED
    BY <2>1, <2>6, WriteHarmless
<1>5. ASSUME NEW p \in Pollers, NEW w \in DOMAIN ledger, NEW r \in Reading,
             NEW cap \in IF lane = "copilot" THEN {0} \cup Measured ELSE {0}, NEW said,
             NEW status, NEW fit \in IF lane = "copilot" THEN {0} ELSE {0} \cup Measured,
             PollLand(p, w, r, cap, said, status, fit)
      PROVE  Unclosed'
  <2> SUFFICES ASSUME ~ vendor', lane' # "glm" PROVE HarmlessLane(ledger')
    BY DEF Unclosed
  <2> DEFINE now == poller[p].now
             readings == [v \in {w} |-> r]
             L == IF status /\ lane = "claude" THEN Ingest(OnDisk, drop, now) ELSE OnDisk
             M == Land(L, readings, "poll", now, now)
  <2>0. Heard(Closing(drop.obs) \/ Closing(readings) \/ cap > 0 \/ fit > 0) /\ lane' = lane
    BY <1>5 DEF PollLand, Write
  <2> HIDE DEF readings
  <2>1. lane # "glm" /\ ~ vendor /\ ~ Closing(drop.obs) /\ ~ Closing(readings) /\ cap = 0 /\ fit = 0
    <3>1. ~ vendor /\ ~ Closing(drop.obs) /\ ~ Closing(readings) /\ ~ (cap > 0) /\ ~ (fit > 0)
      BY <2>0, Zenon DEF Heard
    <3>2. cap \in {0} \cup Measured /\ fit \in {0} \cup Measured
      BY Zenon
    <3> QED
      BY <2>0, <3>1, <3>2 DEF Measured
  <2> USE DEF readings
  <2>2. now \in Instants
    BY <1>5 DEF QuotaInv, Carried, PollLand
  <2>3. Reported(readings)
    BY ReadingOK DEF Reported
  <2>4. Write(M, now)
    BY <1>5, <2>1 DEF PollLand, ApplyPoll
  <2> HIDE DEF now, readings
  <2>5. HarmlessLane(OnDisk)
    BY <2>1, DiskHarmless
  <2>6. HarmlessLane(L) /\ GoodLane(L)
    BY <1>1, <2>1, <2>2, <2>5, IngestHarmless, IngestFollows, LaneGood
  <2> HIDE DEF L
  <2>7. HarmlessLane(M) /\ GoodLane(M)
    BY <2>1, <2>2, <2>3, <2>6, LandHarmless, LandFollows, LaneGood DEF Instants
  <2> HIDE DEF M
  <2> QED
    BY <2>4, <2>7, WriteHarmless
<1>6. ASSUME UNCHANGED <<lane, ledger, vendor>> PROVE Unclosed'
  BY <1>6 DEF Unclosed
<1>7. ASSUME NEW w, NEW r, NEW at, TeeDrop(w, r, at) PROVE Unclosed'
  BY <1>6, <1>7 DEF TeeDrop
<1>8. Tick \/ FileRots \/ UNCHANGED quotaVars => Unclosed'
  BY <1>6 DEF Tick, FileRots, quotaVars
<1>9. ASSUME NEW j \in Jobs, NEW force, RunStart(j, force) \/ RunUncharged(j) PROVE Unclosed'
  BY <1>6, <1>9 DEF RunStart, RunUncharged
<1>10. ASSUME NEW p \in Pollers, NEW force,
              PollStart(p, force) \/ PollMisses(p) \/ PollBusy(p) \/ PollFinish(p)
       PROVE  Unclosed'
  BY <1>6, <1>10 DEF PollStart, PollMisses, PollBusy, PollFinish
<1> QED
  BY <1>2, <1>3, <1>4, <1>5, <1>7, <1>8, <1>9, <1>10 DEF QuotaNext, Signal, Run, Poll

\* A guess never closes a lane: however much this device spends, with any
\* configured capacities and any windows, admission denies a lane other than
\* GLM only after a word of the vendor or a measured capacity.
THEOREM OnlyTheVendorClosesAlways == QuotaSpec => []OnlyTheVendorCloses
<1>1. QuotaInit => Unclosed
  BY LedgerAssumption DEF QuotaInit, Unclosed, HarmlessLane, Harmless, EmptyLedger, NewBucket
<1>2. QuotaInv /\ Unclosed /\ [QuotaNext]_quotaVars => Unclosed'
  BY UnclosedStep
<1>3. Unclosed => OnlyTheVendorCloses
  BY HarmlessAdmits DEF Unclosed, OnlyTheVendorCloses
<1> QED
  BY <1>1, <1>2, <1>3, QuotaInvAlways, PTL DEF QuotaSpec
=============================================================================
