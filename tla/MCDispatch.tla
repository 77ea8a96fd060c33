------------------------------ MODULE MCDispatch ------------------------------
(***************************************************************************)
(* Dispatches on the GLM account, over failing adapters, through the       *)
(* router, and under everything the operator may forbid.                   *)
(***************************************************************************)
EXTENDS Dispatch

E(lane, rank) == [lane |-> lane, rank |-> rank]
\* Cut from the seed table.
Ranks ==
  [hard   |-> <<E("claude", 1), E("claude", 2), E("glm", 3), E("codex", 4)>>,
   verify |-> <<E("local", 1), E("glm", 2), E("copilot", 5)>>]

Req(lane) == [lane |-> lane, class |-> "hard", force |-> FALSE, live |-> TRUE, exclude |-> {},
              leaks |-> FALSE, ctx |-> "small", batch |-> FALSE, fable |-> FALSE]
Forced(r) == [r EXCEPT !.force = TRUE]
Auto_(class) == [Req("auto") EXCEPT !.class = class]

Usual == [billing |-> "subscription", retired |-> FALSE, freeOff |-> FALSE, credential |-> "ok",
          seated |-> {"hard"}, fable |-> FALSE, pacing |-> TRUE, incident |-> FALSE,
          exclusionOff |-> FALSE,
          requests |-> {}, asks |-> 2, deaths |-> 0, moving |-> {}, left |-> {}, leans |-> {"calm"},
          strained |-> {}]

OnGLM == [Usual EXCEPT !.left = {0, 4}, !.exclusionOff = TRUE, !.requests = {Req("glm")}]

Breaking == [Usual EXCEPT !.strained = {"local", "glm"}, !.pacing = FALSE,
                          !.requests = {Req("local"), Auto_("verify")}]

Routing == [Usual EXCEPT !.incident = TRUE, !.asks = 1, !.leans = {"burning", "idle"},
                         !.moving = {"glm"}, !.requests =
              {[Auto_("hard") EXCEPT !.exclude = {"claude"}],
               [Auto_("hard") EXCEPT !.batch = TRUE], [Auto_("verify") EXCEPT !.ctx = "large"]}]

Demands == {Forced(Req("claude")), [Req("claude") EXCEPT !.fable = TRUE], Req("codex"),
            Forced(Req("glm")), [Req("glm") EXCEPT !.leaks = TRUE],
            Forced(Req("groq")), [Forced(Req("gemini")) EXCEPT !.class = "verify"],
            [Forced(Req("claude")) EXCEPT !.exclude = {"claude"}],
            [Req("copilot") EXCEPT !.live = FALSE], Auto_("unknown")}
Allowing == [Usual EXCEPT !.requests = Demands, !.exclusionOff = TRUE, !.pacing = FALSE,
                          !.moving = {"claude"}, !.asks = 1, !.deaths = 1]
Forbidding == {[Allowing EXCEPT !.billing = "credits", !.freeOff = TRUE],
               [Allowing EXCEPT !.retired = TRUE, !.credential = "missing"],
               [Allowing EXCEPT !.credential = "corrupt"]}

\* Unknown, and half.
SomePercents == {-1, 50}

JustBreaking == {Breaking}
AllConfigs == {OnGLM, Breaking, Routing, Allowing} \cup Forbidding
=============================================================================
