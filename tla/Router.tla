-------------------------------- MODULE Router --------------------------------
(***************************************************************************)
(* The rank-table router (internal/orch/router): which lane a task class   *)
(* goes to, given what is known of each lane.  States are masked before    *)
(* anything is compared, a throttled or over-burning lane is one rank      *)
(* worse, a spend-down boost makes it better, and ties go to the emptier   *)
(* window and then to a fixed order.                                       *)
(*                                                                         *)
(* st[lane] is [state, pct, down, boost]; pct below 0 is unknown.  The     *)
(* pace_rank_on tie-break, which ships off, is left out.                   *)
(***************************************************************************)
EXTENDS Integers, Sequences, FiniteSets

CONSTANTS Table,     \* the rank table: for each class, entries [lane, rank]
          UnknownAs  \* the class whose entries an unknown class uses

ASSUME TableAssumption ==
  /\ UnknownAs \in DOMAIN Table
  /\ \A c \in DOMAIN Table : Table[c] \in Seq([lane : STRING, rank : Nat])

NoLane == ""

\* (Slip: the delegate-mode exclusion is not on the list.)
ForgetExcluded(state) ==
  state \in {"exhausted", "hard_stop", "model_retired", "unavailable", "retired",
             "unconfigured", "gated", "off"}
\* A list of the states that evict a lane: one that is missing is selectable.
Masked(state) ==
  state \in {"exhausted", "hard_stop", "model_retired", "unavailable", "retired", "excluded",
             "unconfigured", "gated", "off"}

\* ctx is "small", "large" (above the local floor) or "huge" (above codex's cap).
OverContext(lane, ctx) == \/ lane = "codex" /\ ctx = "huge"
                          \/ lane = "local" /\ ctx \in {"large", "huge"}

Priority(lane) ==
  CASE lane = "claude" -> 0 [] lane = "codex" -> 1 [] lane = "glm" -> 2
    [] lane = "local" -> 3 [] lane = "copilot" -> 4 [] OTHER -> 5

NormPct(pct) == IF pct < 0 THEN 0 ELSE pct

Candidates(class) == IF class \in DOMAIN Table THEN Table[class] ELSE Table[UnknownAs]

\* Incident mode: most of this class's lanes are pressured.
IncidentActive(class, st) ==
  LET lanes     == {Candidates(class)[i].lane : i \in DOMAIN Candidates(class)}
      pressured == {l \in lanes : st[l].state = "throttled" \/ Masked(st[l].state)}
  IN  2 * Cardinality(pressured) > Cardinality(lanes)

EffRank(e, st, incident) ==
  e.rank + (IF st[e.lane].state = "throttled" /\ ~ incident THEN 1 ELSE 0)
         + (IF st[e.lane].down >= 2 /\ ~ incident THEN 1 ELSE 0)
         - st[e.lane].boost

\* What the total order compares; the position in the table is the last word.
Score(class, st, incident, i) ==
  LET e == Candidates(class)[i]
  IN  <<EffRank(e, st, incident), NormPct(st[e.lane].pct), Priority(e.lane), i>>

LexLess(a, b) == \E k \in DOMAIN a : a[k] < b[k] /\ \A j \in 1 .. k - 1 : a[j] = b[j]

Pool(class, st, ctx) ==
  {i \in DOMAIN Candidates(class) :
     LET l == Candidates(class)[i].lane IN ~ Masked(st[l].state) /\ ~ OverContext(l, ctx)}

FirstOf(S, score) == CHOOSE i \in S : \A j \in S \ {i} : LexLess(score[i], score[j])

\* b is at least as good as a on both counts, and better on one.
Dominates(b, a) == b[1] <= a[1] /\ b[2] <= a[2] /\ (b[1] < a[1] \/ b[2] < a[2])

\* The runners-up that no other runner-up dominates.
Alternatives(pool, win, score) ==
  {i \in pool \ {win} : \A j \in pool \ {win} : ~ Dominates(score[j], score[i])}

\* The winner's lane, and the first lane that is not local among the winner
\* and the alternatives, which is what a dispatch to "auto" takes.
Route(class, st, ctx, incidentOn) ==
  LET incident == incidentOn /\ IncidentActive(class, st)
      score == [i \in DOMAIN Candidates(class) |-> Score(class, st, incident, i)]
      lane(i)  == Candidates(class)[i].lane
      pool     == Pool(class, st, ctx)
      win      == FirstOf(pool, score)
      others   == {i \in Alternatives(pool, win, score) : lane(i) # "local"}
  IN  IF pool = {} THEN [lane |-> NoLane, auto |-> NoLane]
      ELSE [lane |-> lane(win),
            auto |-> IF lane(win) # "local" THEN lane(win)
                     ELSE IF others = {} THEN NoLane ELSE lane(FirstOf(others, score))]
=============================================================================
