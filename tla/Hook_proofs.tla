------------------------------ MODULE Hook_proofs ------------------------------
(***************************************************************************)
(* The rows of the usage log, for any number of sessions and prompts, any  *)
(* ports, rankers, candidates, slots and deadlines.                        *)
(***************************************************************************)
EXTENDS Hook, FiniteSetTheorems, WellFoundedInduction, TLAPS

-----------------------------------------------------------------------------
(* Sets of positions.                                                      *)

LEMMA LeastOf ==
  ASSUME NEW T \in SUBSET Nat, T # {}
  PROVE  \E m \in T : \A n \in T : m <= n
<1>1. IsWellFoundedOn(OpToRel(<, Nat), Nat)
  BY NatLessThanWellFounded
<1>2. PICK m \in T : \A n \in T : <<n, m>> \notin OpToRel(<, Nat)
  BY <1>1, WFMin
<1>3. ASSUME NEW n \in T PROVE m <= n
  <2>1. <<n, m>> \notin {ss \in Nat \X Nat : ss[1] < ss[2]}
    BY <1>2 DEF OpToRel
  <2> QED
    BY <2>1
<1> QED
  BY <1>3

LEMMA GreatestOf ==
  ASSUME NEW n \in Nat, NEW T \in SUBSET (1 .. n), T # {}
  PROVE  \E m \in T : \A k \in T : k <= m
<1> DEFINE U == {u \in Nat : \A k \in T : k <= u}
<1>1. n \in U
  OBVIOUS
<1>2. PICK m \in U : \A u \in U : m <= u
  BY <1>1, LeastOf
<1>3. m \in T
  <2> SUFFICES ASSUME m \notin T PROVE FALSE
    OBVIOUS
  <2>1. \A k \in T : k \in Int /\ k <= m /\ k # m /\ 1 <= k
    BY <1>2
  <2>2. \A k \in T : k <= m - 1
    BY <1>2, <2>1
  <2>3. m - 1 \in Nat
    <3>1. PICK k \in T : TRUE
      OBVIOUS
    <3>2. m \in Nat /\ k \in Int /\ 1 <= k /\ k <= m - 1
      BY <1>2, <2>1, <2>2
    <3> QED
      BY <3>2
  <2>4. m - 1 \in U
    BY <2>2, <2>3
  <2> QED
    BY <1>2, <2>4
<1> QED
  BY <1>2, <1>3

LEMMA PositionsAre ==
  ASSUME NEW V, NEW q \in Seq(V)
  PROVE  DOMAIN q = 1 .. Len(q) /\ Len(q) \in Nat
OBVIOUS

\* The first so many of a set of positions: as many as fit, and all of them or
\* exactly so many.
Firsts(F, many) == {i \in F : Cardinality({j \in F : j < i}) < many}

LEMMA FirstsAre ==
  ASSUME NEW n \in Nat, NEW F \in SUBSET (1 .. n), NEW many \in Nat
  PROVE  Firsts(F, many) = F \/ Cardinality(Firsts(F, many)) = many
<1> DEFINE Below(i) == {j \in F : j < i}
           S == Firsts(F, many)
<1>1. IsFiniteSet(F) /\ \A i \in F : i \in Nat
  <2>1. IsFiniteSet(1 .. n)
    BY FS_Interval
  <2>2. IsFiniteSet(F)
    BY <2>1, FS_Subset
  <2> QED
    BY <2>2
<1>2. \A T \in SUBSET F : IsFiniteSet(T) /\ Cardinality(T) \in Nat
  BY <1>1, FS_Subset, FS_CardinalityType
<1>3. ASSUME NEW T \in SUBSET F, NEW V \in SUBSET F, T \subseteq V
      PROVE  Cardinality(T) <= Cardinality(V)
  <2>1. IsFiniteSet(V)
    BY <1>2
  <2> QED
    BY <1>3, <2>1, FS_Subset
<1>4. \A i \in F : Below(i) \in SUBSET F
  OBVIOUS
<1>5. S \in SUBSET F /\ \A i \in F : i \in S <=> Cardinality(Below(i)) < many
  BY DEF Firsts
<1> HIDE DEF S
<1>6. SUFFICES ASSUME S # F PROVE Cardinality(S) = many
  BY DEF S
<1>7. F \ S \in SUBSET Nat /\ F \ S # {}
  BY <1>1, <1>5, <1>6
<1>8. PICK m \in F \ S : \A k \in F \ S : m <= k
  BY <1>7, LeastOf
<1>9. Cardinality(Below(m)) >= many
  BY <1>2, <1>4, <1>5, <1>8
<1>10. S = Below(m)
  <2>1. ASSUME NEW i \in S PROVE i < m
    <3>1. i \in F /\ i \in Nat /\ m \in Nat /\ i # m
      BY <1>1, <1>5, <1>8
    <3>2. CASE m < i
      <4>1. Below(m) \subseteq Below(i)
        <5>1. \A j \in F : j \in Int
          BY <1>1
        <5>2. \A j \in F : j < m => j < i
          BY <3>1, <3>2, <5>1
        <5> QED
          BY <5>2
      <4>2. Cardinality(Below(m)) <= Cardinality(Below(i))
        BY <1>3, <1>4, <1>8, <3>1, <4>1
      <4>3. Cardinality(Below(i)) < many
        BY <1>5, <3>1
      <4>4. Cardinality(Below(i)) \in Nat /\ Cardinality(Below(m)) \in Nat
        BY <1>2, <1>4, <1>8, <3>1
      <4> HIDE DEF Below
      <4> QED
        BY <1>9, <4>2, <4>3, <4>4
    <3> QED
      BY <3>1, <3>2
  <2>2. ASSUME NEW i \in Below(m) PROVE i \in S
    BY <1>1, <1>8, <2>2
  <2> QED
    BY <1>5, <2>1, <2>2
<1>11. Cardinality(S) <= many
  <2>1. CASE S = {}
    BY <2>1, FS_EmptySet
  <2>2. CASE S # {}
    <3>1. PICK g \in S : \A k \in S : k <= g
      BY <1>5, <2>2, GreatestOf
    <3>2. g \in F /\ g \in Nat
      BY <1>1, <1>5
    <3>3. S \subseteq Below(g) \cup {g}
      BY <1>1, <1>5, <3>1, <3>2
    <3>4. g \notin Below(g) /\ IsFiniteSet(Below(g))
      BY <1>2, <1>4, <3>2
    <3>5. Cardinality(Below(g) \cup {g}) = Cardinality(Below(g)) + 1
      BY <3>4, FS_AddElement
    <3>6. Cardinality(S) <= Cardinality(Below(g) \cup {g})
      <4>1. Below(g) \cup {g} \in SUBSET F
        BY <3>2
      <4> QED
        BY <1>3, <1>5, <3>3, <4>1
    <3>7. Cardinality(Below(g)) < many
      BY <1>5, <3>1, <3>2
    <3>8. Cardinality(Below(g)) \in Nat /\ Cardinality(S) \in Nat
      BY <1>2, <1>4, <1>5, <3>2
    <3> HIDE DEF Below
    <3> QED
      BY <3>5, <3>6, <3>7, <3>8
  <2> QED
    BY <2>1, <2>2
<1> QED
  BY <1>2, <1>5, <1>9, <1>10, <1>11

-----------------------------------------------------------------------------
(* The invariant: a load in flight is young, a list is the one found or    *)
(* its rerank, and each row of the log is true.                            *)

Reordered == [i \in DOMAIN hookConf.found |-> hookConf.found[hookConf.order[i]]]

\* What a row says.
True(r) ==
  LET shown == r.surfaced \cup r.would
      missed == {j \in DOMAIN r.list \ shown : r.list[j].cos = "clears" /\ Invocable(r.list[j])}
  IN  /\ r.mode = "rerank" => r.reordered
      /\ r.mode = "embed" => ~ r.reordered
      /\ \A j \in shown : Invocable(r.list[j])
      /\ r.mode \in {"embed", "rerank", "hybrid", "gated-empty"} =>
           missed = {} \/ Cardinality(shown) = Slots
      /\ r.mode = "cold-stuck-empty" => ~ r.slow

SeatOK == /\ now \in Nat /\ DOMAIN seat = {"st", "at", "begun"}
          /\ seat.st = "loading" => seat.begun \in Nat /\ now <= seat.begun + LoadTime
RowsOK == /\ rows \in Seq({rows[i] : i \in DOMAIN rows})
          /\ \A i \in DOMAIN rows : rows[i].at \in Nat /\ True(rows[i])
PromptOK(h) ==
  /\ h.pc # "none" => DOMAIN h = {"pc", "list"}
  /\ h.pc \in {"rerank", "decide reordered"} => hookConf.ranker = "rerank"
  /\ h.pc \in {"rerank", "decide"} => h.list = hookConf.found
  /\ h.pc = "decide reordered" => h.list = Reordered
PromptsOK == DOMAIN hook = Sessions /\ \A s \in Sessions : PromptOK(hook[s])

HookInv == hookConf \in HookConfigs /\ SeatOK /\ RowsOK /\ PromptsOK

LEMMA HookInvInit == HookInit => HookInv
<1> SUFFICES ASSUME HookInit PROVE HookInv
  OBVIOUS
<1>1. rows \in Seq({rows[i] : i \in DOMAIN rows}) /\ DOMAIN rows = {}
  BY DEF HookInit
<1>2. SeatOK
  BY HookAssumption DEF HookInit, SeatOK, Out
<1>3. PromptsOK
  BY DEF HookInit, PromptsOK, PromptOK, Quiet
<1> QED
  BY <1>1, <1>2, <1>3 DEF HookInv, RowsOK, HookInit

\* A row is appended, and the process that wrote it is gone.
RowOf(s, mode, shown, reordered) ==
  [mode |-> mode, at |-> now, surfaced |-> IF s \in hookConf.heldOut THEN {} ELSE shown,
   would |-> IF s \in hookConf.heldOut THEN shown ELSE {}, list |-> hook[s].list,
   reordered |-> reordered,
   slow |-> seat.st = "loading" /\ ColdRun # {} /\ seat.begun <= ColdSince]

LEMMA RowKeeps ==
  ASSUME HookInv, NEW s \in Sessions, NEW mode, NEW shown, NEW reordered,
         Row(s, mode, shown, reordered), True(RowOf(s, mode, shown, reordered)),
         hookConf' = hookConf
  PROVE  RowsOK' /\ PromptsOK'
<1> DEFINE r == RowOf(s, mode, shown, reordered)
<1>1. rows' = Append(rows, r) /\ hook' = [hook EXCEPT ![s] = Quiet]
  BY DEF Row, RowOf
<1>2. r.at \in Nat /\ True(r)
  BY DEF RowOf, HookInv, SeatOK
<1> HIDE DEF r
<1> DEFINE V == {rows[i] : i \in DOMAIN rows}
           n == Len(rows) + 1
<1>3. /\ rows' \in Seq(V \cup {r}) /\ DOMAIN rows' = 1 .. n /\ n \in Nat
      /\ \A i \in DOMAIN rows' : i = n \/ i \in DOMAIN rows
      /\ \A i \in DOMAIN rows' : rows'[i] = IF i = n THEN r ELSE rows[i]
  BY <1>1 DEF HookInv, RowsOK
<1>4. rows' \in Seq({rows'[i] : i \in DOMAIN rows'})
  <2> DEFINE t == rows'
  <2>1. \A W : \A u \in Seq(W) : u \in Seq({u[i] : i \in DOMAIN u})
    OBVIOUS
  <2> QED
    BY <1>3, <2>1
<1>5. ASSUME NEW q \in {r} \cup V, True(q) PROVE True(q)'
  <2>1. \A c : Invocable(c)' <=> Invocable(c)
    BY DEF Invocable
  <2> QED
    BY <1>5, <2>1 DEF True
<1>6. \A i \in DOMAIN rows' : rows'[i].at \in Nat /\ True(rows'[i])
  BY <1>2, <1>3 DEF HookInv, RowsOK
<1>7. RowsOK'
  BY <1>4, <1>6 DEF RowsOK, True, Invocable
<1>8. PromptsOK'
  BY <1>1 DEF HookInv, PromptsOK, PromptOK, Quiet, Reordered
<1> QED
  BY <1>7, <1>8

\* A row that shows nothing and claims nothing is true.
LEMMA SilentRow ==
  ASSUME NEW s, NEW mode, NEW reordered,
         mode \notin {"embed", "rerank", "hybrid", "gated-empty"},
         mode = "cold-stuck-empty" => ~ RowOf(s, mode, {}, reordered).slow
  PROVE  True(RowOf(s, mode, {}, reordered))
<1> DEFINE r == RowOf(s, mode, {}, reordered)
<1>1. r.mode = mode /\ r.surfaced \cup r.would = {}
  BY DEF RowOf
<1> HIDE DEF r
<1> QED
  BY <1>1 DEF True, r

\* The age of the oldest cold row is more than any load takes.
LEMMA StuckIsNotSlow ==
  ASSUME HookInv, LooksStuck, NEW s, NEW mode, NEW shown, NEW reordered
  PROVE  ~ RowOf(s, mode, shown, reordered).slow
<1> SUFFICES ASSUME seat.st = "loading", ColdRun # {}, seat.begun <= ColdSince PROVE FALSE
  BY DEF RowOf
<1>1. ColdRun \subseteq DOMAIN rows /\ ColdRun \in SUBSET Nat
  BY DEF HookInv, RowsOK, ColdRun, Telling
<1>2. First(ColdRun) \in ColdRun
  BY <1>1, LeastOf DEF First
<1>3. ColdSince \in Nat
  BY <1>1, <1>2 DEF HookInv, RowsOK, ColdSince
<1>4. now - ColdSince >= MinSpan
  BY DEF LooksStuck
<1>5. now \in Nat /\ seat.begun \in Nat /\ now <= seat.begun + LoadTime
  BY DEF HookInv, SeatOK
<1> QED
  BY <1>3, <1>4, <1>5, HookAssumption

\* What decide shows of a list leaves out only what has no slot left.
LEMMA DecisionIsTrue ==
  ASSUME HookInv, NEW s \in Sessions, hook[s].pc \in {"decide", "decide reordered"},
         NEW shown,
         shown = IF \A i \in DOMAIN hookConf.found : hookConf.found[i].cos = "below" THEN {}
                 ELSE Shown(hook[s].list)
  PROVE  LET reordered == hook[s].pc = "decide reordered"
         IN  True(RowOf(s, IF shown = {} THEN "gated-empty" ELSE ModeOf(reordered), shown, reordered))
<1> DEFINE reordered == hook[s].pc = "decide reordered"
           L == hook[s].list
           n == Len(hookConf.found)
           mode == IF shown = {} THEN "gated-empty" ELSE ModeOf(reordered)
           r == RowOf(s, mode, shown, reordered)
<1>1. /\ hookConf.ranker \in {"embed", "rerank", "hybrid"}
      /\ hookConf.found \in Seq({hookConf.found[i] : i \in DOMAIN hookConf.found})
      /\ hookConf.order \in [DOMAIN hookConf.found -> DOMAIN hookConf.found]
  BY HookAssumption DEF HookInv
<1>2. L = hookConf.found \/ L = Reordered
  BY DEF HookInv, PromptsOK, PromptOK
<1>3. /\ DOMAIN L = 1 .. n /\ n \in Nat
      /\ \A i \in DOMAIN L : \E j \in DOMAIN hookConf.found : L[i] = hookConf.found[j]
  <2>1. DOMAIN hookConf.found = 1 .. n /\ n \in Nat
    BY <1>1, PositionsAre
  <2>2. CASE L = hookConf.found
    BY <2>1, <2>2
  <2>3. CASE L = Reordered
    <3>1. DOMAIN L = DOMAIN hookConf.found
          /\ \A i \in DOMAIN L : L[i] = hookConf.found[hookConf.order[i]]
      BY <2>3 DEF Reordered
    <3>2. \A i \in DOMAIN hookConf.found : hookConf.order[i] \in DOMAIN hookConf.found
      BY <1>1
    <3> QED
      BY <2>1, <3>1, <3>2
  <2> QED
    BY <1>2, <2>2, <2>3
<1>4. reordered => hookConf.ranker = "rerank"
  BY DEF HookInv, PromptsOK, PromptOK
<1>5. /\ r.mode = mode /\ r.surfaced \cup r.would = shown /\ r.list = L
      /\ r.reordered = reordered /\ r.slow \in BOOLEAN
  BY DEF RowOf
<1>6. /\ mode = "rerank" => reordered
      /\ mode = "embed" => ~ reordered
      /\ mode # "cold-stuck-empty"
  BY <1>1, <1>4 DEF ModeOf
<1>7. Fit(L) \in SUBSET (1 .. n)
  BY <1>3 DEF Fit
<1>8. Shown(L) = Firsts(Fit(L), Slots)
  BY DEF Shown, Firsts
<1>9. \A j \in shown : Invocable(L[j])
  BY DEF Shown, Fit
<1> DEFINE missed == {j \in DOMAIN L \ shown : L[j].cos = "clears" /\ Invocable(L[j])}
<1>10. missed = {} \/ Cardinality(shown) = Slots
  <2>1. CASE \A i \in DOMAIN hookConf.found : hookConf.found[i].cos = "below"
    BY <1>3, <2>1
  <2>2. CASE ~ \A i \in DOMAIN hookConf.found : hookConf.found[i].cos = "below"
    <3>1. shown = Shown(L)
      BY <2>2
    <3>2. missed \subseteq Fit(L) \ Shown(L)
      BY <3>1 DEF Fit
    <3>3. Shown(L) = Fit(L) \/ Cardinality(Shown(L)) = Slots
      BY <1>3, <1>7, <1>8, HookAssumption, FirstsAre
    <3> QED
      BY <3>1, <3>2, <3>3
  <2> QED
    BY <2>1, <2>2
<1> HIDE DEF r, mode, L
<1>11. True(r)
  BY <1>5, <1>6, <1>9, <1>10 DEF True
<1> QED
  BY <1>11 DEF r, mode

-----------------------------------------------------------------------------
(* The steps.                                                              *)

LEMMA RequestIsYoung ==
  ASSUME SeatOK, seat' \in {seat, Request, Out}, now' = now
  PROVE  SeatOK'
<1>1. DOMAIN Request = {"st", "at", "begun"}
      /\ (Request.st = "loading" => Request.begun = now \/ (seat.st = "loading" /\ Request.begun = seat.begun))
  BY DEF SeatOK, Request
<1>2. DOMAIN Out = {"st", "at", "begun"} /\ Out.st = "out"
  BY DEF Out
<1>3. now <= now + LoadTime
  BY HookAssumption DEF SeatOK
<1> HIDE DEF Request
<1> QED
  BY <1>1, <1>2, <1>3 DEF SeatOK

\* Processes that write nothing yet.
LEMMA GoesOn ==
  ASSUME HookInv, NEW s \in Sessions, NEW h, hook' = [hook EXCEPT ![s] = h], PromptOK(h),
         seat' \in {seat, Request, Out}, UNCHANGED <<hookConf, now, rows>>
  PROVE  HookInv'
<1>1. SeatOK'
  BY RequestIsYoung DEF HookInv
<1>2. RowsOK'
  BY DEF HookInv, RowsOK, True, Invocable
<1>3. PromptsOK'
  BY DEF HookInv, PromptsOK, PromptOK, Reordered
<1> QED
  BY <1>1, <1>2, <1>3 DEF HookInv

LEMMA PromptKeeps ==
  ASSUME HookInv, NEW s \in Sessions, NEW kind, Prompt(s, kind)
  PROVE  HookInv'
<1> DEFINE pc == CASE hookConf.spec = "none" -> "error"
                   [] hookConf.spec = "mismatch" -> "tpl-mismatch"
                   [] hookConf.spec = "ok" /\ kind = "machine" -> "machine-turn"
                   [] hookConf.spec = "ok" /\ kind # "machine" /\ hookConf.child -> "lane-child"
                   [] hookConf.spec = "ok" /\ kind \in {"too-short", "too-long"}
                        /\ ~ hookConf.child -> kind
                   [] OTHER -> IF hookConf.coldSkip THEN "probe" ELSE "embed"
           h == [pc |-> pc, list |-> NoList]
<1>1. hook' = [hook EXCEPT ![s] = h] /\ UNCHANGED <<hookConf, now, seat, rows>>
  BY DEF Prompt
<1>2. pc \in {"error", "tpl-mismatch", "machine-turn", "lane-child", "too-short", "too-long",
              "probe", "embed"}
  OBVIOUS
<1> HIDE DEF pc
<1>3. PromptOK(h)
  BY <1>2 DEF PromptOK
<1> HIDE DEF h
<1> QED
  BY <1>1, <1>3, GoesOn

LEMMA MoveKeeps ==
  ASSUME HookInv, NEW s \in Sessions, NEW pc \in {"embed", "warm up", "cold", "decide"}, Move(s, pc),
         hook[s].pc # "none", pc = "decide" => hook[s].pc = "rerank",
         seat' \in {seat, Request, Out}, UNCHANGED <<hookConf, now, rows>>
  PROVE  HookInv'
<1> DEFINE h == [hook[s] EXCEPT !.pc = pc]
<1>1. hook' = [hook EXCEPT ![s] = h]
  BY DEF Move
<1>2. PromptOK(h)
  BY DEF HookInv, PromptsOK, PromptOK
<1> HIDE DEF h
<1> QED
  BY <1>1, <1>2, GoesOn

LEMMA EmbeddedKeeps ==
  ASSUME HookInv, NEW s \in Sessions, Embeds(s) \/ Reorders(s)
  PROVE  HookInv'
<1>1. DOMAIN hook = Sessions /\ DOMAIN hook[s] = {"pc", "list"} /\ PromptOK(hook[s])
  BY DEF HookInv, PromptsOK, PromptOK, Embeds, Reorders, At_
<1>2. CASE Embeds(s)
  <2> DEFINE pc == IF hookConf.ranker = "rerank" THEN "rerank" ELSE "decide"
             h == [hook[s] EXCEPT !.pc = pc, !.list = hookConf.found]
  <2>1. /\ hook' = [hook EXCEPT ![s].pc = pc, ![s].list = hookConf.found]
        /\ seat' \in {seat, Request, Out} /\ UNCHANGED <<hookConf, now, rows>>
    BY <1>2 DEF Embeds
  <2>2. DOMAIN h = {"pc", "list"} /\ h.pc = pc /\ h.list = hookConf.found
    BY <1>1
  <2>3. hook' = [hook EXCEPT ![s] = h]
    BY <1>1, <2>1
  <2> HIDE DEF h
  <2>4. PromptOK(h)
    BY <2>2 DEF PromptOK
  <2> QED
    BY <2>1, <2>3, <2>4, GoesOn
<1>3. CASE Reorders(s)
  <2> DEFINE h == [hook[s] EXCEPT !.pc = "decide reordered", !.list = Reordered]
  <2>1. /\ hook[s].pc = "rerank" /\ hook[s].list = hookConf.found /\ hookConf.ranker = "rerank"
        /\ UNCHANGED <<hookConf, now, seat, rows>>
    BY <1>1, <1>3 DEF Reorders, At_, PromptOK
  <2>2. hook' = [hook EXCEPT ![s].pc = "decide reordered",
                             ![s].list = [i \in DOMAIN @ |-> @[hookConf.order[i]]]]
    BY <1>3 DEF Reorders
  <2>3. hook' = [hook EXCEPT ![s].pc = "decide reordered", ![s].list = Reordered]
    BY <1>1, <2>1, <2>2 DEF Reordered
  <2>4. DOMAIN h = {"pc", "list"} /\ h.pc = "decide reordered" /\ h.list = Reordered
    BY <1>1
  <2>5. hook' = [hook EXCEPT ![s] = h]
    BY <1>1, <2>3
  <2> HIDE DEF h
  <2>6. PromptOK(h)
    BY <2>1, <2>4 DEF PromptOK
  <2> QED
    BY <2>1, <2>5, <2>6, GoesOn
<1> QED
  BY <1>2, <1>3

\* The ways a prompt ends.
LEMMA EndKeeps ==
  ASSUME HookInv, NEW s \in Sessions,
         EndsEarly(s) \/ SkipsCold(s) \/ EmbeddingFails(s) \/ Decides(s) \/ Deadline(s)
  PROVE  HookInv'
<1>1. hookConf' = hookConf /\ now' = now /\ seat' \in {seat, Request, Out}
  BY DEF EndsEarly, SkipsCold, EmbeddingFails, Decides, Deadline
<1>2. SeatOK' /\ hookConf' \in HookConfigs
  BY <1>1, RequestIsYoung DEF HookInv
<1>3. ASSUME NEW mode, NEW shown, NEW reordered, Row(s, mode, shown, reordered),
             True(RowOf(s, mode, shown, reordered))
      PROVE  HookInv'
  BY <1>1, <1>2, <1>3, RowKeeps DEF HookInv
<1>4. CASE EndsEarly(s)
  <2>1. Row(s, hook[s].pc, {}, FALSE)
        /\ hook[s].pc \in {"too-short", "machine-turn", "lane-child", "tpl-mismatch", "error", "too-long"}
    BY <1>4 DEF EndsEarly, LookedThrough
  <2> QED
    BY <1>3, <2>1, SilentRow
<1>5. CASE SkipsCold(s)
  <2> DEFINE mode == IF LooksStuck THEN "cold-stuck-empty" ELSE "cold-skip-empty"
  <2>1. Row(s, mode, {}, FALSE)
    BY <1>5 DEF SkipsCold
  <2>2. /\ mode \notin {"embed", "rerank", "hybrid", "gated-empty"}
        /\ mode = "cold-stuck-empty" => LooksStuck
    OBVIOUS
  <2> HIDE DEF mode
  <2>3. True(RowOf(s, mode, {}, FALSE))
    BY <2>2, SilentRow, StuckIsNotSlow
  <2> QED
    BY <1>3, <2>1, <2>3
<1>6. CASE EmbeddingFails(s) \/ Deadline(s)
  <2>1. Row(s, "embedder-down", {}, FALSE) \/ Row(s, "error", {}, FALSE)
    BY <1>6 DEF EmbeddingFails, Deadline
  <2> QED
    BY <1>3, <2>1, SilentRow
<1>7. CASE Decides(s)
  <2> DEFINE reordered == hook[s].pc = "decide reordered"
             shown == IF \A i \in DOMAIN hookConf.found : hookConf.found[i].cos = "below" THEN {}
                      ELSE Shown(hook[s].list)
             mode == IF shown = {} THEN "gated-empty" ELSE ModeOf(reordered)
  <2>1. hook[s].pc \in {"decide", "decide reordered"} /\ Row(s, mode, shown, reordered)
    BY <1>7 DEF Decides, At_
  <2> DEFINE out == True(RowOf(s, mode, shown, reordered))
  <2>2. out
    <3> HIDE DEF out
    <3> QED
      BY <2>1, DecisionIsTrue DEF out
  <2> HIDE DEF mode, shown, reordered
  <2> QED
    BY <1>3, <2>1, <2>2
<1> QED
  BY <1>4, <1>5, <1>6, <1>7

LEMMA RouterKeeps ==
  ASSUME HookInv, Loaded \/ LoadGivesUp \/ HookClock \/ UNCHANGED hookVars
  PROVE  HookInv'
<1>1. UNCHANGED <<hookConf, rows, hook>>
  BY DEF Loaded, LoadGivesUp, HookClock, hookVars
<1>2. RowsOK' /\ PromptsOK'
  <2>1. RowsOK'
    BY <1>1 DEF HookInv, RowsOK, True, Invocable
  <2>2. PromptsOK'
    BY <1>1 DEF HookInv, PromptsOK, PromptOK, Reordered
  <2> QED
    BY <2>1, <2>2
<1>3. SeatOK'
  <2>1. CASE Loaded
    BY <2>1 DEF Loaded, HookInv, SeatOK
  <2>2. CASE LoadGivesUp
    BY <2>2 DEF LoadGivesUp, HookInv, SeatOK, Out
  <2>3. CASE HookClock
    <3>1. now' = now + 1 /\ (seat.st = "loading" => now < seat.begun + LoadTime)
          /\ seat' \in {seat, Out}
      BY <2>3 DEF HookClock
    <3>2. seat.st = "loading" => now + 1 <= seat.begun + LoadTime
      BY <3>1, HookAssumption DEF HookInv, SeatOK
    <3> QED
      BY <3>1, <3>2 DEF HookInv, SeatOK, Out
  <2>4. CASE UNCHANGED hookVars
    BY <2>4 DEF hookVars, HookInv, SeatOK
  <2> QED
    BY <2>1, <2>2, <2>3, <2>4
<1> QED
  BY <1>1, <1>2, <1>3 DEF HookInv

LEMMA HookInvStep == HookInv /\ [HookNext]_hookVars => HookInv'
<1> SUFFICES ASSUME HookInv, [HookNext]_hookVars PROVE HookInv'
  OBVIOUS
<1>1. CASE Loaded \/ LoadGivesUp \/ HookClock \/ UNCHANGED hookVars
  BY <1>1, RouterKeeps
<1>2. ASSUME NEW s \in Sessions, NEW kind, Prompt(s, kind) PROVE HookInv'
  BY <1>2, PromptKeeps
<1>3. ASSUME NEW s \in Sessions,
             EndsEarly(s) \/ SkipsCold(s) \/ EmbeddingFails(s) \/ Decides(s) \/ Deadline(s)
      PROVE  HookInv'
  BY <1>3, EndKeeps
<1>4. ASSUME NEW s \in Sessions, Embeds(s) \/ Reorders(s) PROVE HookInv'
  BY <1>4, EmbeddedKeeps
<1>5. ASSUME NEW s \in Sessions, AsksRouter(s) PROVE HookInv'
  <2> DEFINE pc == CASE ProbeEmbedder \in {"warm", "unknown"} -> "embed"
                     [] ProbeEmbedder = "cold" -> "warm up"
                     [] OTHER -> "cold"
  <2>1. hook[s].pc = "probe" /\ Move(s, pc) /\ UNCHANGED <<hookConf, now, seat, rows>>
    BY <1>5 DEF AsksRouter, At_
  <2>2. pc \in {"embed", "warm up", "cold"}
    OBVIOUS
  <2> HIDE DEF pc
  <2> QED
    BY <2>1, <2>2, MoveKeeps
<1>6. ASSUME NEW s \in Sessions, WarmUp(s) PROVE HookInv'
  <2>1. hook[s].pc = "warm up" /\ Move(s, "cold") /\ seat' \in {seat, Request, Out}
        /\ UNCHANGED <<hookConf, now, rows>>
    BY <1>6 DEF WarmUp, At_
  <2> QED
    BY <2>1, MoveKeeps
<1>7. ASSUME NEW s \in Sessions, RerankFails(s) PROVE HookInv'
  BY <1>7, MoveKeeps DEF RerankFails, At_
<1> QED
  BY <1>1, <1>2, <1>3, <1>4, <1>5, <1>6, <1>7 DEF HookNext

\* Each row of the usage log is true, whichever processes wrote the rows before
\* it and whatever the router did meanwhile: a rerank it names took place, no
\* slot stayed empty that a candidate could have had, and no load that is
\* merely slow is called stuck.
THEOREM RowsTellTheTruthAlways == HookSpec => []RowsTellTheTruth
<1>1. HookInv => RowsTellTheTruth
  BY DEF HookInv, RowsOK, True, RowsTellTheTruth
<1> QED
  BY <1>1, HookInvInit, HookInvStep, PTL DEF HookSpec
===============================================================================
