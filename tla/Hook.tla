--------------------------------- MODULE Hook ---------------------------------
(***************************************************************************)
(* The prompt hook: which skills a prompt is shown, and what the usage log *)
(* says about it (cmd/mr-hook, internal/retrievers).  Each prompt runs its *)
(* own process under one hard deadline; they share the model router, which *)
(* unloads the embedder when it idles, and the log, from whose tail a cold *)
(* embedder is told from one that never loads.                             *)
(*                                                                         *)
(* A port is what listens there: "none", "router" (a model router with the *)
(* embedder's seat), "alien" (a router without our model), "plain" (an     *)
(* embedding server), "other dim", "other" (another service), "sick" (5xx) *)
(* or "hung".  A candidate is [id, cos], cos being "clears" or "below".    *)
(***************************************************************************)
EXTENDS Integers, Sequences, FiniteSets

CONSTANTS Sessions,
          HookConfigs, \* [ports, pinned, ranker, coldSkip, spec, child, heldOut,
                       \*  loads, found, order, barred, asks, kinds]
          Slots,       \* the most skills shown
          MinPrior, MinSpan, \* cold rows, and their age, that mean stuck
          LoadTime, IdleTime, \* of the router: a load at most, and the idle spell before it unloads
          MaxHookClock

\* No real load takes as long as the cold rows that mean stuck span, and a
\* rerank gives the candidates in some order.
ASSUME HookAssumption ==
  /\ Slots \in Nat /\ MinPrior \in Nat \ {0}
  /\ LoadTime \in Nat /\ MinSpan \in Nat /\ LoadTime < MinSpan
  /\ \A c \in HookConfigs :
       /\ c.ranker \in {"embed", "rerank", "hybrid"}
       /\ c.found \in Seq({c.found[i] : i \in DOMAIN c.found})
       /\ c.order \in [DOMAIN c.found -> DOMAIN c.found]

VARIABLES hookConf, now, seat, rows, hook
hookVars == <<hookConf, now, seat, rows, hook>>

Quiet == [pc |-> "none"]
Out == [st |-> "out", at |-> 0, begun |-> 0]
NoList == <<>>

-----------------------------------------------------------------------------
\* What asking finds, and what embedding finds, walking the ports in order.
Answering == {i \in DOMAIN hookConf.ports : hookConf.ports[i] # "none"}
First(S) == CHOOSE i \in S : \A j \in S : i <= j
Asked == IF Answering = {} THEN "none" ELSE hookConf.ports[First(Answering)]
ProbeEmbedder ==
  CASE Asked = "router" /\ seat.st = "in" -> "warm"
    [] Asked = "router" /\ seat.st = "loading" -> "loading"
    [] Asked = "router" /\ seat.st = "out" -> "cold"
    [] Asked \in {"sick", "hung"} -> IF hookConf.pinned THEN "cold" ELSE "unreadable"
    [] OTHER -> "unknown"

\* A port that serves no embeddings is passed over, whether the probe of a
\* guessed port or the answer of a configured one says so; a router that lacks
\* the model may instead reject the request, which is final.
Serving == {i \in Answering : hookConf.ports[i] \notin {"other", "sick", "alien"}}
Used == IF Serving = {} THEN "none" ELSE hookConf.ports[First(Serving)]
Rejecting ==
  /\ hookConf.pinned
  /\ \E i \in Answering : hookConf.ports[i] = "alien" /\ \A j \in Serving : i < j
Embedded == Used = "plain" \/ (Used = "router" /\ seat.st = "in")

\* A request to a router is what starts a load.
Request == IF seat.st = "out" THEN [st |-> "loading", at |-> now, begun |-> now]
           ELSE [seat EXCEPT !.at = now]

-----------------------------------------------------------------------------
\* coldRun: the cold rows that end the log; rows that never reached the
\* embedder are looked through.
LookedThrough == {"too-short", "machine-turn", "lane-child", "tpl-mismatch", "error"}
ColdModes == {"cold-skip-empty", "cold-stuck-empty"}
Telling == {i \in DOMAIN rows : rows[i].mode \notin LookedThrough}
ColdRun == {i \in Telling : \A j \in Telling : j >= i => rows[j].mode \in ColdModes}
ColdSince == rows[First(ColdRun)].at
\* (Slip: a count alone, as if four prompts could not fall into one load.)
CountOnly == Cardinality(ColdRun) >= MinPrior
LooksStuck == Cardinality(ColdRun) >= MinPrior /\ now - ColdSince >= MinSpan

\* decide: the positions of the first candidates that clear the floor and that
\* the model can invoke, no more than the slots; hybrid scores are no cosines,
\* so there only the best cosine is gated.
Invocable(c) == c.id \notin hookConf.barred
Fit(list) == {i \in DOMAIN list : /\ Invocable(list[i])
                                  /\ hookConf.ranker = "hybrid" \/ list[i].cos = "clears"}
Shown(list) == {i \in Fit(list) : Cardinality({j \in Fit(list) : j < i}) < Slots}

-----------------------------------------------------------------------------
HookInit ==
  /\ hookConf \in HookConfigs /\ now = 0 /\ seat = Out /\ rows = <<>>
  /\ hook = [s \in Sessions |-> Quiet]

At_(s, pc) == hook[s].pc = pc
Move(s, pc) == hook' = [hook EXCEPT ![s].pc = pc]

\* The row is written: what was shown, or would have been, as positions of the
\* list.
Row(s, mode, shown, reordered) ==
  /\ rows' = Append(rows,
       [mode |-> mode, at |-> now, surfaced |-> IF s \in hookConf.heldOut THEN {} ELSE shown,
        would |-> IF s \in hookConf.heldOut THEN shown ELSE {}, list |-> hook[s].list,
        reordered |-> reordered,
        \* ghost: one load has been in flight since before the run's oldest cold row
        slow |-> seat.st = "loading" /\ ColdRun # {} /\ seat.begun <= ColdSince])
  /\ hook' = [hook EXCEPT ![s] = Quiet]

\* main, up to the retriever: an index that does not load or whose template
\* this binary does not know, a notification, a dispatched child, and the
\* length gates all end before the embedder is asked.
Prompt(s, kind) ==
  /\ At_(s, "none") /\ kind \in hookConf.kinds
  /\ Len(rows) + Cardinality({t \in Sessions : ~ At_(t, "none")}) < hookConf.asks
  /\ hook' = [hook EXCEPT ![s] =
       [pc |-> CASE hookConf.spec = "none" -> "error"
                 [] hookConf.spec = "mismatch" -> "tpl-mismatch"
                 [] hookConf.spec = "ok" /\ kind = "machine" -> "machine-turn"
                 [] hookConf.spec = "ok" /\ kind # "machine" /\ hookConf.child -> "lane-child"
                 [] hookConf.spec = "ok" /\ kind \in {"too-short", "too-long"}
                      /\ ~ hookConf.child -> kind
                 [] OTHER -> IF hookConf.coldSkip THEN "probe" ELSE "embed",
        list |-> NoList]]
  /\ UNCHANGED <<hookConf, now, seat, rows>>

EndsEarly(s) ==
  /\ hook[s].pc \in LookedThrough \cup {"too-long"}
  /\ Row(s, hook[s].pc, {}, FALSE) /\ UNCHANGED <<hookConf, now, seat>>

AsksRouter(s) ==
  /\ At_(s, "probe")
  /\ Move(s, CASE ProbeEmbedder \in {"warm", "unknown"} -> "embed"
               [] ProbeEmbedder = "cold" -> "warm up"
               [] OTHER -> "cold")
  /\ UNCHANGED <<hookConf, now, seat, rows>>
WarmUp(s) ==
  /\ At_(s, "warm up") /\ Move(s, "cold")
  /\ seat' = IF Asked = "router" THEN Request ELSE seat
  /\ UNCHANGED <<hookConf, now, rows>>
SkipsCold(s) ==
  /\ At_(s, "cold")
  /\ Row(s, IF LooksStuck THEN "cold-stuck-empty" ELSE "cold-skip-empty", {}, FALSE)
  /\ UNCHANGED <<hookConf, now, seat>>

\* One embedding of the prompt; a cold router holds it until the budget ends,
\* and starts to load.
Embeds(s) ==
  /\ At_(s, "embed") /\ Embedded
  /\ hook' = [hook EXCEPT ![s].pc = IF hookConf.ranker = "rerank" THEN "rerank" ELSE "decide",
                          ![s].list = hookConf.found]
  /\ seat' = IF Used = "router" THEN Request ELSE seat
  /\ UNCHANGED <<hookConf, now, rows>>
EmbeddingFails(s) ==
  /\ At_(s, "embed") /\ (~ Embedded \/ Rejecting)
  /\ Row(s, "embedder-down", {}, FALSE)
  /\ seat' = IF Used = "router" /\ ~ Embedded THEN Request ELSE seat
  /\ UNCHANGED <<hookConf, now>>

\* The cross-encoder reorders what is in hand, or is left out.
Reorders(s) ==
  /\ At_(s, "rerank")
  /\ hook' = [hook EXCEPT ![s].pc = "decide reordered",
                          ![s].list = [i \in DOMAIN @ |-> @[hookConf.order[i]]]]
  /\ UNCHANGED <<hookConf, now, seat, rows>>
RerankFails(s) == At_(s, "rerank") /\ Move(s, "decide") /\ UNCHANGED <<hookConf, now, seat, rows>>

ModeOf(reordered) ==
  IF hookConf.ranker = "rerank" /\ ~ reordered THEN "embed" ELSE hookConf.ranker
Decides(s) ==
  LET reordered == At_(s, "decide reordered")
      shown == IF \A i \in DOMAIN hookConf.found : hookConf.found[i].cos = "below" THEN {}
               ELSE Shown(hook[s].list)
  IN  /\ hook[s].pc \in {"decide", "decide reordered"}
      /\ Row(s, IF shown = {} THEN "gated-empty" ELSE ModeOf(reordered), shown, reordered)
      /\ UNCHANGED <<hookConf, now, seat>>

\* The whole of it has one deadline; then nothing is shown.
Deadline(s) ==
  /\ hook[s].pc \in {"probe", "warm up", "cold", "embed", "rerank", "decide", "decide reordered"}
  /\ Row(s, "error", {}, FALSE) /\ UNCHANGED <<hookConf, now, seat>>

\* External: the router.  No process outlives a tick: a deadline is far shorter.
Loaded == seat.st = "loading" /\ hookConf.loads /\ seat' = [seat EXCEPT !.st = "in"]
          /\ UNCHANGED <<hookConf, now, rows, hook>>
LoadGivesUp == seat.st = "loading" /\ ~ hookConf.loads /\ seat' = Out
               /\ UNCHANGED <<hookConf, now, rows, hook>>
HookClock ==
  /\ now < MaxHookClock /\ now' = now + 1 /\ \A s \in Sessions : At_(s, "none")
  /\ seat.st = "loading" => now < seat.begun + LoadTime
  /\ seat' = IF seat.st = "in" /\ now' > seat.at + IdleTime THEN Out ELSE seat
  /\ UNCHANGED <<hookConf, rows, hook>>

HookNext ==
  \/ Loaded \/ LoadGivesUp \/ HookClock
  \/ \E s \in Sessions :
       \/ \E kind \in {"typed", "too-short", "too-long", "machine"} : Prompt(s, kind)
       \/ EndsEarly(s) \/ AsksRouter(s) \/ WarmUp(s) \/ SkipsCold(s)
       \/ Embeds(s) \/ EmbeddingFails(s) \/ Reorders(s) \/ RerankFails(s)
       \/ Decides(s) \/ Deadline(s)

HookSpec == HookInit /\ [][HookNext]_hookVars

-----------------------------------------------------------------------------
\* What a row of the usage log says is what happened, whichever processes
\* wrote the rows before it: a rerank it names took place; a list it shows has
\* only candidates the model can invoke, and leaves no slot empty that another
\* could have had; and "stuck" is never a load that is merely slow
\* (coldskip.go:36-48, main.go:183-190 and 556-559).
RowsTellTheTruth ==
  \A i \in DOMAIN rows :
    LET r == rows[i]
        shown == r.surfaced \cup r.would
        missed == {j \in DOMAIN r.list \ shown : r.list[j].cos = "clears" /\ Invocable(r.list[j])}
    IN  /\ r.mode = "rerank" => r.reordered
        /\ r.mode = "embed" => ~ r.reordered
        /\ \A j \in shown : Invocable(r.list[j])
        /\ r.mode \in {"embed", "rerank", "hybrid", "gated-empty"} =>
             missed = {} \/ Cardinality(shown) = Slots
        /\ r.mode = "cold-stuck-empty" => ~ r.slow
=============================================================================
