----------------------- MODULE SupervisorRuns_proofs -----------------------
(***************************************************************************)
(* That no marked paid run is repeated, that a rejection and a block are   *)
(* published, and that the processes together implement DispatchContract,  *)
(* for every DAG, every set of lanes and processes and every number of     *)
(* crashes, failed writes and lost receipts, as long as no living holder   *)
(* misses its heartbeats and a dispatch under way is driven again only     *)
(* with recovery.                                                          *)
(***************************************************************************)
EXTENDS Supervisor_proofs, FiniteSetTheorems

-----------------------------------------------------------------------------
(* The invariant.  Whoever drives knows every step that was started and    *)
(* has no outcome, and knows it as it is; so between two waves there is    *)
(* none, what a wave picks has not run, and what recovery repeats was      *)
(* marked as local.                                                        *)

\* What a driving process may hold about a step, by where it is.
Held == {"started", "running", "returned", "relane", "record"}
MayHold(where) ==
  CASE where = "reconcile" -> {"idle", "window", "probed", "blocked"}
    [] where = "start"     -> {"idle", "picked", "running", "returned"}
    [] where = "launch"    -> {"idle", "picked", "started", "running", "returned"}
    [] where = "wait"      -> {"idle", "running", "returned"}
    [] where = "persist"   -> {"idle", "returned", "relane", "record"}
    [] OTHER               -> {"idle"}

\* Where it holds nothing.
Quiet == {"beat", "mark", "loop", "finload", "finwrite",
          "rfinload", "rfinwrite", "reread"}

\* What it holds is true of state.json, and what it is about to run has not run.
TrueOf(j, s) ==
  /\ j.at \in Held \cup {"window", "probed"} <=> CrashWindow(s)
  /\ j.at \in {"window", "probed"} => j.attempt = step[s].attempt /\ j.lane = step[s].lane
  /\ j.at = "probed" => \/ j.class \in Outcomes
                        \/ j.class = Pending /\ j.lane = Local
                        \/ j.class = "blocked" /\ j.lane # Local
  /\ j.at = "blocked" => step[s].class = "blocked"
  /\ j.at \in {"picked", "started", "relane", "record"} => j.attempt = step[s].attempt
  /\ j.at = "started" => recorded[s][j.attempt] = 0 /\ j.lane = step[s].lane
  /\ j.at \in {"returned", "record"} => j.class \in Outcomes

\* Of these there is at most one at a time.
Lone == {"started", "relane", "record"}

Current(p) ==
  /\ \A s \in Steps : job[p][s].at \in MayHold(pc[p]) /\ TrueOf(job[p][s], s)
  /\ \A s, t \in Steps : job[p][s].at \in Lone /\ job[p][t].at \in Lone => s = t

Aware == Driving \ {"load", "release"}
MemoryOK == \A p \in Pids : pc[p] \in Aware => Current(p)

\* An attempt ran at most once, none ran that is still to come, and while one
\* that ran has no outcome, state.json says so.
CountsOK ==
  \A s \in Steps :
    /\ \A a \in Attempts : /\ recorded[s][a] <= 1
                           /\ recorded[s][a] > 0 => a <= step[s].attempt
    /\ recorded[s][step[s].attempt] > 0 /\ step[s].class = Pending
         => step[s].started /\ step[s].lane # Local

\* Who enters without recovery is the child, before anything was started.
NoneStarted == \A s \in Steps : ~ step[s].started
StartsOK ==
  /\ dispatcher = "spawn" => NoneStarted /\ \A p \in Pids : pc[p] = "off"
  /\ \A p \in Pids : pc[p] = "acquire" /\ ~ resuming[p] =>
       p = Child /\ NoneStarted /\ \A q \in Pids \ {p} : pc[q] = "off"

RunsInv == MemoryOK /\ CountsOK /\ StartsOK

-----------------------------------------------------------------------------
(* How it survives.                                                        *)

\* The types used below.
LEMMA RunTypes ==
  ASSUME Inv
  PROVE  /\ pc \in [Pids -> Pcs]
         /\ resuming \in [Pids -> BOOLEAN]
         /\ job \in [Pids -> [Steps -> Job]]
         /\ step \in [Steps -> StepRecords]
         /\ receipts \in [Steps -> [Attempts -> Receipt]]
         /\ recorded \in [Steps -> [Attempts -> 0 .. 2]]
BY DEF Inv, TypeInv, TypeOK, ProcessesOK, DiskOK, HistoryOK

\* A node never ends without a class, or blocked.
LEMMA RunClassIs ==
  ASSUME NEW c \in Outcomes
  PROVE  c # Pending /\ c # "blocked"
BY DEF Pending, Outcomes, OkClasses, RelegateClasses, HardClasses, RefusalClasses

\* The empty memory of a step.
LEMMA IdleIs == Idle \in Job /\ Idle.at = "idle"
<1>1. Idle.at = "idle"
  BY Zenon DEF Idle
<1> QED
  BY <1>1, FreshTypes

\* The places by name.
LEMMA Places ==
  /\ MayHold("reconcile") = {"idle", "window", "probed", "blocked"}
  /\ MayHold("start") = {"idle", "picked", "running", "returned"}
  /\ MayHold("launch") = {"idle", "picked", "started", "running", "returned"}
  /\ MayHold("wait") = {"idle", "running", "returned"}
  /\ MayHold("persist") = {"idle", "returned", "relane", "record"}
  /\ \A where \in Quiet : MayHold(where) = {"idle"}
BY DEF MayHold, Quiet

\* Nobody drives beside a driver.
LEMMA Sole ==
  ASSUME Inv, NEW p \in Pids, NEW q \in Pids, pc[p] \in Driving, pc[q] \in Driving
  PROVE  p = q
BY DEF Inv, LeaseInv

\* A driver's step concerns its own memory only ...
LEMMA MemoryDriving ==
  ASSUME Inv, NEW p \in Pids, pc[p] \in Driving, NEW to, Go(p, to),
         to \in Aware => Current(p)'
  PROVE  MemoryOK'
<1>1. \A q \in Pids : pc'[q] = IF q = p THEN to ELSE pc[q]
  BY RunTypes DEF Go
<1>2. \A q \in Pids : q # p => pc[q] \notin Driving
  BY Sole
<1> QED
  BY <1>1, <1>2 DEF MemoryOK, Aware

\* ... and nobody is about to enter without recovery.
LEMMA StartsDriving ==
  ASSUME Inv, StartsOK, NEW p \in Pids, pc[p] \in Driving, NEW to, Go(p, to), to # "acquire",
         dispatcher' = dispatcher, resuming' = resuming
  PROVE  StartsOK'
<1>1. \A q \in Pids : pc'[q] = IF q = p THEN to ELSE pc[q]
  BY RunTypes DEF Go
<1>2. pc[p] \notin {"off", "acquire"}
  BY DEF Driving, ResumePcs, ExecutePcs
<1>3. dispatcher # "spawn" /\ \A q \in Pids : pc[q] = "acquire" => resuming[q]
  BY <1>2, RunTypes DEF StartsOK
<1> QED
  BY <1>1, <1>3 DEF StartsOK

\* A driver that leaves, or that goes on with a memory that fits the new place.
LEMMA RunsLeave ==
  ASSUME Inv, RunsInv, NEW p \in Pids, pc[p] \in Driving,
         NEW to \in {"release", "off", "dead"}, Go(p, to),
         step' = step, recorded' = recorded, dispatcher' = dispatcher, resuming' = resuming
  PROVE  RunsInv'
<1>1. MemoryOK'
  BY MemoryDriving DEF Aware, Driving, ResumePcs, ExecutePcs
<1>2. CountsOK'
  BY DEF RunsInv, CountsOK
<1>3. StartsOK'
  BY StartsDriving DEF RunsInv
<1> QED
  BY <1>1, <1>2, <1>3 DEF RunsInv

\* With an empty memory, from one such place to another.
LEMMA RunsMove ==
  ASSUME Inv, RunsInv, NEW p \in Pids, pc[p] \in Aware,
         NEW to \in Quiet,
         Go(p, to), \A s \in Steps : job[p][s].at = "idle",
         job' = job, step' = step, recorded' = recorded, dispatcher' = dispatcher, resuming' = resuming
  PROVE  RunsInv'
<1>1. pc'[p] = to
  BY RunTypes DEF Go
<1>2. Current(p)'
  BY <1>1, Places DEF RunsInv, MemoryOK, Current, TrueOf, CrashWindow, Lone
<1>3. MemoryOK'
  BY <1>2, MemoryDriving DEF Aware
<1>4. CountsOK'
  BY DEF RunsInv, CountsOK
<1>5. to # "acquire" /\ pc[p] \in Driving
  BY DEF Aware, Quiet
<1>6. StartsOK'
  BY <1>5, StartsDriving DEF RunsInv
<1> QED
  BY <1>3, <1>4, <1>6 DEF RunsInv

\* At the places of an empty memory.
LEMMA MovesIdle ==
  ASSUME RunsInv, NEW p \in Pids, pc[p] \in Quiet
  PROVE  pc[p] \in Aware /\ \A s \in Steps : job[p][s].at = "idle"
BY Places DEF RunsInv, MemoryOK, Current, Aware, Driving, ResumePcs, ExecutePcs, Quiet

\* Steps that touch none of it.
LEMMA RunsUntouched ==
  ASSUME RunsInv, UNCHANGED <<pc, job, step, recorded, resuming>>,
         dispatcher' = "spawn" => dispatcher = "spawn"
  PROVE  RunsInv'
BY DEF RunsInv, MemoryOK, Current, TrueOf, CrashWindow, CountsOK, StartsOK, NoneStarted

\* A driver that goes on, with a memory and counts to be shown.
LEMMA RunsGo ==
  ASSUME Inv, RunsInv, NEW p \in Pids, pc[p] \in Driving, NEW to \in Aware, Go(p, to),
         Current(p)', CountsOK', dispatcher' = dispatcher, resuming' = resuming
  PROVE  RunsInv'
<1>1. to # "acquire"
  BY DEF Aware, Driving, ResumePcs, ExecutePcs
<1>2. MemoryOK'
  BY MemoryDriving
<1>3. StartsOK'
  BY <1>1, StartsDriving DEF RunsInv
<1> QED
  BY <1>2, <1>3 DEF RunsInv

-----------------------------------------------------------------------------
(* The actions that change memory, a step or a count.                      *)

\* What one record holds after a driver changed it.
LEMMA OneJob ==
  ASSUME Inv, NEW p \in Pids, NEW s \in Steps, NEW j, SetJob(p, s, j)
  PROVE  \A t \in Steps : job'[p][t] = IF t = s THEN j ELSE job[p][t]
BY RunTypes DEF SetJob

\* Recovery opens exactly the steps that were started and have no outcome.
LEMMA RunsResumeLoad ==
  ASSUME Inv, RunsInv, NEW p \in Pids, ResumeLoad(p)
  PROVE  RunsInv'
<1>1. /\ pc[p] \in Driving /\ "reconcile" \in Aware /\ Go(p, "reconcile")
      /\ step' = step /\ recorded' = recorded /\ dispatcher' = dispatcher /\ resuming' = resuming
  BY DEF ResumeLoad, disk, history, Driving, Aware, ResumePcs, ExecutePcs
<1>2. \A s \in Steps : job'[p][s] =
         IF CrashWindow(s)
         THEN [Idle EXCEPT !.at = "window", !.attempt = step[s].attempt, !.lane = step[s].lane]
         ELSE Idle
  BY RunTypes DEF ResumeLoad
<1>3. pc'[p] = "reconcile"
  BY <1>1, RunTypes DEF Go
<1>4. ASSUME NEW s \in Steps
      PROVE  /\ job'[p][s].at \in {"idle", "window"}
             /\ TrueOf(job[p][s], s)'
  <2>1. CASE CrashWindow(s)
    <3>1. /\ job'[p][s].at = "window" /\ job'[p][s].attempt = step[s].attempt
          /\ job'[p][s].lane = step[s].lane
      BY <1>2, <2>1, IdleIs DEF Job
    <3> QED
      BY <1>1, <2>1, <3>1 DEF TrueOf, CrashWindow
  <2>2. CASE ~ CrashWindow(s)
    <3>1. job'[p][s].at = "idle"
      BY <1>2, <2>2, IdleIs DEF Job
    <3> QED
      BY <1>1, <2>2, <3>1 DEF TrueOf, Held, CrashWindow
  <2> QED
    BY <2>1, <2>2
<1>5. Current(p)'
  BY <1>3, <1>4, Places DEF Current, Lone
<1>6. CountsOK'
  BY <1>1 DEF RunsInv, CountsOK
<1> QED
  BY <1>1, <1>5, <1>6, RunsGo

\* A receipt is looked up: a step is run again only if it was marked as local.
LEMMA RunsResumeProbe ==
  ASSUME Inv, RunsInv, NEW p \in Pids, ResumeProbe(p)
  PROVE  RunsInv'
<1>1. /\ pc[p] = "reconcile" /\ pc[p] \in Driving /\ "reconcile" \in Aware /\ pc' = pc
      /\ step' = step /\ recorded' = recorded /\ dispatcher' = dispatcher /\ resuming' = resuming
  BY DEF ResumeProbe, disk, history, Driving, Aware, ResumePcs, ExecutePcs
<1>2. PICK s \in First(At(p, "window")) :
         SetJob(p, s, [job[p][s] EXCEPT !.at = "probed",
                         !.class = RecoveredClass(job[p][s], receipts[s][job[p][s].attempt])])
  BY DEF ResumeProbe
<1>3. s \in Steps /\ job[p][s].at = "window"
  BY DEF First, At
<1> DEFINE j == [job[p][s] EXCEPT !.at = "probed",
                   !.class = RecoveredClass(job[p][s], receipts[s][job[p][s].attempt])]
<1>4. /\ j.at = "probed" /\ j.attempt = job[p][s].attempt /\ j.lane = job[p][s].lane
      /\ j.class = RecoveredClass(job[p][s], receipts[s][job[p][s].attempt])
  BY <1>3, RunTypes DEF Job
<1>5. \/ j.class \in Outcomes
      \/ j.class = Pending /\ j.lane = Local
      \/ j.class = "blocked" /\ j.lane # Local
  <2>1. receipts[s][job[p][s].attempt] \in Receipt
    BY <1>3, RunTypes DEF Job
  <2>2. receipts[s][job[p][s].attempt] # NoReceipt =>
          receipts[s][job[p][s].attempt].class \in Outcomes
    BY <2>1 DEF Receipt
  <2> QED
    BY <1>4, <2>2 DEF RecoveredClass
<1>6. \A t \in Steps : job'[p][t] = IF t = s THEN j ELSE job[p][t]
  BY <1>2, <1>3, OneJob
<1>7. Current(p)
  BY <1>1 DEF RunsInv, MemoryOK
<1> HIDE DEF j
<1>8. ASSUME NEW t \in Steps
      PROVE  job'[p][t].at \in {"idle", "window", "probed", "blocked"} /\ TrueOf(job[p][t], t)'
  <2>1. job[p][t].at \in {"idle", "window", "probed", "blocked"} /\ TrueOf(job[p][t], t)
    BY <1>1, <1>7, Places DEF Current
  <2>2. CASE t = s
    BY <1>1, <1>3, <1>4, <1>5, <1>6, <2>1, <2>2 DEF TrueOf, CrashWindow, Held
  <2>3. CASE t # s
    BY <1>1, <1>6, <2>1, <2>3 DEF TrueOf, CrashWindow
  <2> QED
    BY <2>2, <2>3
<1>9. Current(p)'
  BY <1>1, <1>8, Places DEF Current, Lone
<1>10. CountsOK' /\ Go(p, "reconcile")
  BY <1>1, RunTypes DEF RunsInv, CountsOK, Go
<1> QED
  BY <1>1, <1>9, <1>10, RunsGo

\* Recovery writes its verdict on a step: an outcome, or none for one that was
\* marked as local and so has no count.
LEMMA RunsResumeApply ==
  ASSUME Inv, RunsInv, NEW p \in Pids, ResumeApply(p)
  PROVE  RunsInv'
<1>1. /\ pc[p] = "reconcile" /\ pc[p] \in Driving /\ "reconcile" \in Aware /\ pc' = pc
      /\ recorded' = recorded /\ dispatcher' = dispatcher /\ resuming' = resuming
  BY DEF ResumeApply, history, Driving, Aware, ResumePcs, ExecutePcs
<1>2. PICK s \in At(p, "probed") :
        /\ step' = [step EXCEPT ![s].class = job[p][s].class,
                                ![s].started = @ /\ job[p][s].class # Pending]
        /\ SetJob(p, s, [Idle EXCEPT !.at = IF job[p][s].class = "blocked" THEN "blocked" ELSE "idle"])
  BY DEF ResumeApply
<1>3. s \in Steps /\ job[p][s].at = "probed"
  BY DEF At
<1> DEFINE j == [Idle EXCEPT !.at = IF job[p][s].class = "blocked" THEN "blocked" ELSE "idle"]
           r == step'[s]
<1>4. j.at \in {"idle", "blocked"} /\ (j.at = "blocked" => job[p][s].class = "blocked")
  BY DEF Idle
<1>5. \A t \in Steps : job'[p][t] = IF t = s THEN j ELSE job[p][t]
  BY <1>2, <1>3, OneJob
<1>6. \A t \in Steps : t # s => step'[t] = step[t]
  BY <1>2, RunTypes
<1>7. /\ r.attempt = step[s].attempt /\ r.lane = step[s].lane /\ r.class = job[p][s].class
      /\ r.started <=> step[s].started /\ job[p][s].class # Pending
  <2>1. step[s] \in StepRecords
    BY <1>3, RunTypes
  <2>2. r = [step[s] EXCEPT !.class = job[p][s].class, !.started = @ /\ job[p][s].class # Pending]
    BY <1>2, <1>3, RunTypes
  <2> HIDE DEF r
  <2> QED
    BY <2>1, <2>2 DEF StepRecords
<1>8. Current(p) /\ TrueOf(job[p][s], s)
  BY <1>1, <1>3 DEF RunsInv, MemoryOK, Current
<1> HIDE DEF j, r
<1>9. ASSUME NEW t \in Steps
      PROVE  job'[p][t].at \in {"idle", "window", "probed", "blocked"} /\ TrueOf(job[p][t], t)'
  <2>1. job[p][t].at \in {"idle", "window", "probed", "blocked"} /\ TrueOf(job[p][t], t)
    BY <1>1, <1>8, Places DEF Current
  <2>2. CASE t = s
    BY <1>4, <1>5, <1>7, <2>2 DEF TrueOf, CrashWindow, Held, r
  <2>3. CASE t # s
    BY <1>1, <1>5, <1>6, <2>1, <2>3 DEF TrueOf, CrashWindow
  <2> QED
    BY <2>2, <2>3
<1>10. Current(p)'
  BY <1>1, <1>9, Places DEF Current, Lone
<1>11. CountsOK'
  <2>1. CountsOK
    BY DEF RunsInv
  <2>2. job[p][s].class = Pending =>
          step[s].lane = Local /\ step[s].class = Pending /\ step[s].attempt \in Attempts
    BY <1>3, <1>8, RunTypes, RunClassIs, FreshTypes DEF TrueOf, CrashWindow, StepRecords
  <2>3. job[p][s].class = Pending => ~ recorded[s][step[s].attempt] > 0
    BY <1>3, <2>1, <2>2 DEF CountsOK
  <2> QED
    BY <1>1, <1>6, <1>7, <2>1, <2>3 DEF CountsOK, r
<1>12. Go(p, "reconcile")
  BY <1>1, RunTypes DEF Go
<1> QED
  BY <1>1, <1>10, <1>11, <1>12, RunsGo

\* Between two waves nothing is started without an outcome, so what is ready
\* has not run this attempt.
LEMMA RunsComposeWave ==
  ASSUME Inv, RunsInv, NEW p \in Pids, ComposeWave(p)
  PROVE  RunsInv'
<1>1. /\ pc[p] = "loop" /\ pc[p] \in Driving /\ pc[p] \in Aware /\ "start" \in Aware /\ Go(p, "start")
      /\ step' = step /\ recorded' = recorded /\ dispatcher' = dispatcher /\ resuming' = resuming
  BY DEF ComposeWave, disk, history, Driving, Aware, ResumePcs, ExecutePcs
<1>p. PICK lane : job' = [job EXCEPT ![p] = [s \in Steps |->
               IF s \in PickWave(ReadySet(step), lane, MaxConcurrency)
               THEN [Idle EXCEPT !.at = "picked", !.attempt = step[s].attempt]
               ELSE Idle]]
  BY DEF ComposeWave
<1> DEFINE wave == PickWave(ReadySet(step), lane, MaxConcurrency)
<1>2. \A s \in Steps : job'[p][s] =
         IF s \in wave THEN [Idle EXCEPT !.at = "picked", !.attempt = step[s].attempt]
         ELSE Idle
  BY <1>p, RunTypes
<1> HIDE DEF wave
<1>3. pc'[p] = "start"
  BY <1>1, RunTypes DEF Go
<1>4. Current(p) /\ \A s \in Steps : job[p][s].at = "idle"
  BY <1>1, MovesIdle DEF Quiet, RunsInv, MemoryOK
<1>5. ASSUME NEW s \in Steps
      PROVE  /\ job'[p][s].at \in {"idle", "picked"}
             /\ TrueOf(job[p][s], s)'
  <2>1. ~ CrashWindow(s)
    BY <1>4 DEF Current, TrueOf, Held
  <2>2. \/ job'[p][s].at = "idle"
        \/ job'[p][s].at = "picked" /\ job'[p][s].attempt = step[s].attempt
    BY <1>2, IdleIs DEF Job
  <2> QED
    BY <1>1, <2>1, <2>2 DEF TrueOf, Held, CrashWindow
<1>6. Current(p)'
  BY <1>3, <1>5, Places DEF Current, Lone
<1>7. CountsOK'
  BY <1>1 DEF RunsInv, CountsOK
<1> QED
  BY <1>1, <1>6, <1>7, RunsGo

\* What is marked was not started, so its attempt has not run.
LEMMA RunsMarkStarted ==
  ASSUME Inv, RunsInv, NEW p \in Pids, MarkStarted(p)
  PROVE  RunsInv'
<1>1. /\ pc[p] = "start" /\ pc[p] \in Driving /\ pc[p] \in Aware /\ "launch" \in Aware
      /\ Go(p, "launch")
      /\ recorded' = recorded /\ dispatcher' = dispatcher /\ resuming' = resuming
  BY DEF MarkStarted, history, Driving, Aware, ResumePcs, ExecutePcs
<1>2. PICK s \in First(At(p, "picked")), lane \in Lanes \cup {NoLane} :
        /\ step' = [step EXCEPT ![s].started = TRUE,
                                ![s].attempt = job[p][s].attempt,
                                ![s].lane = lane]
        /\ SetJob(p, s, [job[p][s] EXCEPT !.at = "started", !.lane = lane])
  BY IRAssumption DEF MarkStarted, Resolve, First, At
<1>3. s \in Steps /\ job[p][s].at = "picked"
  BY DEF First, At
<1> DEFINE j == [job[p][s] EXCEPT !.at = "started", !.lane = lane]
           r == step'[s]
<1>4. j.at = "started" /\ j.attempt = job[p][s].attempt /\ j.lane = lane
  BY <1>3, RunTypes DEF Job
<1>5. \A t \in Steps : job'[p][t] = IF t = s THEN j ELSE job[p][t]
  BY <1>2, <1>3, OneJob
<1>6. \A t \in Steps : t # s => step'[t] = step[t]
  BY <1>2, RunTypes
<1>7. /\ r.attempt = job[p][s].attempt /\ r.lane = lane /\ r.class = step[s].class
      /\ r.started
  <2>1. step[s] \in StepRecords
    BY <1>3, RunTypes
  <2>2. r = [step[s] EXCEPT !.started = TRUE, !.attempt = job[p][s].attempt, !.lane = lane]
    BY <1>2, <1>3, RunTypes
  <2> HIDE DEF r
  <2> QED
    BY <2>1, <2>2 DEF StepRecords
<1>8. Current(p) /\ TrueOf(job[p][s], s)
  BY <1>1, <1>3 DEF RunsInv, MemoryOK, Current
<1>9. step[s].class = Pending
  BY <1>1, <1>3 DEF Inv, WalkInv, Open
<1>10. step[s].attempt = job[p][s].attempt /\ ~ CrashWindow(s) /\ step[s].attempt \in Attempts
  BY <1>3, <1>8, RunTypes DEF TrueOf, Held, StepRecords
<1>11. recorded[s][step[s].attempt] = 0
  <2>1. recorded[s][step[s].attempt] \in 0 .. 2
    BY <1>3, <1>10, RunTypes
  <2>2. ~ recorded[s][step[s].attempt] > 0
    BY <1>3, <1>9, <1>10 DEF RunsInv, CountsOK, CrashWindow
  <2> QED
    BY <2>1, <2>2
<1> HIDE DEF j, r
<1>12. ASSUME NEW t \in Steps
      PROVE  /\ job'[p][t].at \in {"idle", "picked", "started", "running", "returned"}
             /\ job'[p][t].at \in Lone => t = s
             /\ TrueOf(job[p][t], t)'
  <2>1. job[p][t].at \in {"idle", "picked", "running", "returned"} /\ TrueOf(job[p][t], t)
    BY <1>1, <1>8, Places DEF Current
  <2>2. CASE t = s
    BY <1>1, <1>4, <1>5, <1>7, <1>9, <1>10, <1>11, <2>2 DEF TrueOf, CrashWindow, Held, r
  <2>3. CASE t # s
    BY <1>1, <1>5, <1>6, <2>1, <2>3 DEF TrueOf, CrashWindow, Lone
  <2> QED
    BY <2>2, <2>3
<1>13. pc'[p] = "launch"
  BY <1>1, RunTypes DEF Go
<1>14. Current(p)'
  BY <1>12, <1>13, Places DEF Current
<1>15. CountsOK'
  <2>1. CountsOK
    BY DEF RunsInv
  <2> QED
    BY <1>1, <1>6, <1>7, <1>10, <1>11, <2>1 DEF CountsOK, r
<1> QED
  BY <1>1, <1>14, <1>15, RunsGo

\* A marked step runs for the first time, and state.json says where.
LEMMA RunsLaunch ==
  ASSUME Inv, RunsInv, NEW p \in Pids, Launch(p)
  PROVE  RunsInv'
<1> DEFINE to == IF At(p, "picked") # {} THEN "start" ELSE "wait"
<1>1. /\ pc[p] = "launch" /\ pc[p] \in Driving /\ pc[p] \in Aware /\ to \in Aware /\ Go(p, to)
      /\ step' = step /\ dispatcher' = dispatcher /\ resuming' = resuming
  BY DEF Launch, disk, Driving, Aware, ResumePcs, ExecutePcs
<1>2. PICK s \in At(p, "started"), lane \in Lanes \cup {NoLane} :
        /\ SetJob(p, s, [job[p][s] EXCEPT !.at = "running", !.lane = lane])
        /\ recorded' = IF lane # Local /\ job[p][s].lane # Local
                       THEN [recorded EXCEPT ![s][job[p][s].attempt] = Bump(@)] ELSE recorded
  BY IRAssumption DEF Launch, RunLane, FirstLane, At
<1>3. s \in Steps /\ job[p][s].at = "started"
  BY DEF At
<1> DEFINE j == [job[p][s] EXCEPT !.at = "running", !.lane = lane]
<1>4. j.at = "running"
  BY <1>3, RunTypes DEF Job
<1>5. \A t \in Steps : job'[p][t] = IF t = s THEN j ELSE job[p][t]
  BY <1>2, <1>3, OneJob
<1>6. Current(p) /\ TrueOf(job[p][s], s)
  BY <1>1, <1>3 DEF RunsInv, MemoryOK, Current
<1>7. /\ CrashWindow(s) /\ step[s].attempt = job[p][s].attempt
      /\ job[p][s].lane = step[s].lane /\ recorded[s][step[s].attempt] = 0
      /\ step[s].attempt \in Attempts
  BY <1>3, <1>6, RunTypes DEF TrueOf, Held, StepRecords
<1>8. \A t \in Steps, a \in Attempts :
        \/ recorded'[t][a] = recorded[t][a]
        \/ t = s /\ a = step[s].attempt /\ recorded'[t][a] = 1 /\ step[s].lane # Local
  BY <1>2, <1>3, <1>7, RunTypes DEF Bump
<1> HIDE DEF j
<1>9. ASSUME NEW t \in Steps
      PROVE  job'[p][t].at \in MayHold(to) /\ job'[p][t].at \notin Lone /\ TrueOf(job[p][t], t)'
  <2>1. job[p][t].at \in {"idle", "picked", "started", "running", "returned"}
        /\ TrueOf(job[p][t], t) /\ (job[p][t].at = "started" => t = s)
    BY <1>1, <1>3, <1>6, Places DEF Current, Lone
  <2>2. MayHold(to) = IF At(p, "picked") # {} THEN {"idle", "picked", "running", "returned"}
                      ELSE {"idle", "running", "returned"}
    BY Places DEF Quiet
  <2>3. job[p][t].at = "picked" => At(p, "picked") # {}
    BY DEF At
  <2> HIDE DEF to
  <2>4. CASE t = s
    BY <1>1, <1>3, <1>4, <1>5, <1>7, <2>2, <2>4 DEF TrueOf, CrashWindow, Held, Lone
  <2>5. CASE t # s
    BY <1>1, <1>5, <2>1, <2>2, <2>3, <2>5 DEF TrueOf, CrashWindow, Lone
  <2> QED
    BY <2>4, <2>5
<1> HIDE DEF to
<1>10. pc'[p] = to
  BY <1>1, RunTypes DEF Go
<1>11. Current(p)'
  BY <1>9, <1>10 DEF Current
<1>12. CountsOK'
  <2>1. CountsOK /\ step \in [Steps -> StepRecords]
    BY RunTypes DEF RunsInv
  <2>2. \A t \in Steps : step[t].attempt \in Attempts
    BY <2>1 DEF StepRecords
  <2>3. 1 <= 1 /\ step[s].attempt <= step[s].attempt
    BY <1>7, SupervisorAssumption DEF Attempts
  <2> QED
    BY <1>1, <1>3, <1>7, <1>8, <2>1, <2>2, <2>3 DEF CountsOK, CrashWindow
<1> QED
  BY <1>1, <1>11, <1>12, RunsGo

\* What a node leaves is held until it is persisted.
LEMMA RunsPersistLoad ==
  ASSUME Inv, RunsInv, NEW p \in Pids, PersistLoad(p)
  PROVE  RunsInv'
<1>1. /\ pc[p] = "wait" /\ pc[p] \in Driving /\ pc[p] \in Aware /\ "persist" \in Aware
      /\ Go(p, "persist") /\ InFlight(p) = {}
      /\ step' = step /\ recorded' = recorded /\ dispatcher' = dispatcher /\ resuming' = resuming
  BY DEF PersistLoad, disk, history, Driving, Aware, ResumePcs, ExecutePcs
<1>2. PICK s \in First(At(p, "returned")), to \in {"relane", "record"} :
        SetJob(p, s, [job[p][s] EXCEPT !.at = to, !.attempt = step[s].attempt])
  BY DEF PersistLoad
<1>3. s \in Steps /\ job[p][s].at = "returned"
  BY DEF First, At
<1> DEFINE j == [job[p][s] EXCEPT !.at = to, !.attempt = step[s].attempt]
<1>4. j.at = to /\ j.attempt = step[s].attempt /\ j.class = job[p][s].class
  BY <1>3, RunTypes DEF Job
<1>5. \A t \in Steps : job'[p][t] = IF t = s THEN j ELSE job[p][t]
  BY <1>2, <1>3, OneJob
<1>6. Current(p) /\ TrueOf(job[p][s], s)
  BY <1>1, <1>3 DEF RunsInv, MemoryOK, Current
<1> HIDE DEF j
<1>7. ASSUME NEW t \in Steps
      PROVE  /\ job'[p][t].at \in {"idle", "returned", "relane", "record"}
             /\ job'[p][t].at \in Lone => t = s
             /\ TrueOf(job[p][t], t)'
  <2>1. job[p][t].at \in {"idle", "returned"} /\ TrueOf(job[p][t], t)
    BY <1>1, <1>6, Places DEF Current, InFlight, At
  <2>2. CASE t = s
    BY <1>1, <1>3, <1>4, <1>5, <1>6, <2>2 DEF TrueOf, CrashWindow, Held
  <2>3. CASE t # s
    BY <1>1, <1>5, <2>1, <2>3 DEF TrueOf, CrashWindow, Lone
  <2> QED
    BY <2>2, <2>3
<1>8. pc'[p] = "persist"
  BY <1>1, RunTypes DEF Go
<1>9. Current(p)'
  BY <1>7, <1>8, Places DEF Current
<1>10. CountsOK'
  BY <1>1 DEF RunsInv, CountsOK
<1> QED
  BY <1>1, <1>9, <1>10, RunsGo

\* After a step was persisted its record is forgotten, and it is out of the
\* crash window.
LEMMA RunsPersisted ==
  ASSUME Inv, RunsInv, NEW p \in Pids, pc[p] = "persist", AfterPersist(p),
         NEW s \in Steps, job[p][s].at \in Lone, SetJob(p, s, Idle),
         ~ CrashWindow(s)', \A t \in Steps \ {s} : step'[t] = step[t], CountsOK',
         recorded' = recorded, dispatcher' = dispatcher, resuming' = resuming
  PROVE  RunsInv'
<1> DEFINE to == IF At(p, "returned") # {} THEN "wait" ELSE "loop"
<1>1. /\ pc[p] \in Driving /\ pc[p] \in Aware /\ to \in Aware /\ Go(p, to)
  BY DEF AfterPersist, Driving, Aware, ResumePcs, ExecutePcs
<1>2. \A t \in Steps : job'[p][t] = IF t = s THEN Idle ELSE job[p][t]
  BY OneJob
<1>3. Current(p)
  BY <1>1 DEF RunsInv, MemoryOK
<1>4. ASSUME NEW t \in Steps
      PROVE  job'[p][t].at \in MayHold(to) /\ job'[p][t].at \notin Lone /\ TrueOf(job[p][t], t)'
  <2>1. job[p][t].at \in {"idle", "returned", "relane", "record"}
        /\ TrueOf(job[p][t], t) /\ (job[p][t].at \in Lone => t = s)
    BY <1>3, Places DEF Current
  <2>2. MayHold(to) = IF At(p, "returned") # {} THEN {"idle", "running", "returned"} ELSE {"idle"}
    BY Places DEF Quiet
  <2>3. job[p][t].at = "returned" => At(p, "returned") # {}
    BY DEF At
  <2> HIDE DEF to
  <2>4. CASE t = s
    <3>1. job'[p][t].at = "idle"
      BY <1>2, <2>4, IdleIs
    <3> QED
      BY <2>2, <2>4, <3>1 DEF TrueOf, Held, Lone
  <2>5. CASE t # s
    BY <1>2, <2>1, <2>2, <2>3, <2>5 DEF TrueOf, CrashWindow, Lone
  <2> QED
    BY <2>4, <2>5
<1> HIDE DEF to
<1>5. pc'[p] = to
  BY <1>1, RunTypes DEF Go
<1>6. Current(p)'
  BY <1>4, <1>5 DEF Current
<1> QED
  BY <1>1, <1>6, RunsGo

\* A re-lane opens the next attempt, which has not run.
LEMMA RunsReLane ==
  ASSUME Inv, RunsInv, NEW p \in Pids, ReLane(p), TypeInv'
  PROVE  RunsInv'
<1>1. /\ pc[p] = "persist" /\ pc[p] \in Aware /\ AfterPersist(p)
      /\ recorded' = recorded /\ dispatcher' = dispatcher /\ resuming' = resuming
  BY DEF ReLane, history, Driving, Aware, ResumePcs, ExecutePcs
<1>2. PICK s \in At(p, "relane") :
        /\ step' = [step EXCEPT ![s].attempt = job[p][s].attempt + 1,
                                ![s].class = Pending,
                                ![s].started = FALSE]
        /\ SetJob(p, s, Idle)
  BY DEF ReLane
<1>3. s \in Steps /\ job[p][s].at = "relane" /\ job[p][s].at \in Lone
  BY DEF At, Lone
<1> DEFINE r == step'[s]
<1>4. \A t \in Steps \ {s} : step'[t] = step[t]
  BY <1>2, RunTypes
<1>5. r.attempt = job[p][s].attempt + 1 /\ ~ r.started
  <2>1. step[s] \in StepRecords
    BY <1>3, RunTypes
  <2>2. r = [step[s] EXCEPT !.attempt = job[p][s].attempt + 1, !.class = Pending,
                            !.started = FALSE]
    BY <1>2, <1>3, RunTypes
  <2> HIDE DEF r
  <2> QED
    BY <2>1, <2>2 DEF StepRecords
<1>6. step[s].attempt = job[p][s].attempt /\ step[s].attempt \in Attempts
  BY <1>1, <1>3, RunTypes DEF RunsInv, MemoryOK, Current, TrueOf, StepRecords
<1>7. r.attempt \in Attempts
  BY <1>3 DEF TypeInv, TypeOK, DiskOK, StepRecords
<1>8. \A a \in Attempts : recorded[s][a] \in 0 .. 2
  BY <1>3, RunTypes
<1> HIDE DEF r
<1>9. CountsOK'
  <2>1. CountsOK
    BY DEF RunsInv
  <2>2. \A a \in Attempts : recorded[s][a] > 0 => a <= r.attempt /\ a # r.attempt
    BY <1>3, <1>5, <1>6, <1>7, <2>1, SupervisorAssumption DEF CountsOK, Attempts
  <2>3. \A t \in Steps \ {s} : step'[t].attempt = step[t].attempt /\ step'[t].class = step[t].class
          /\ step'[t].started = step[t].started /\ step'[t].lane = step[t].lane
    BY <1>4
  <2>4. \A a \in Attempts : /\ recorded'[s][a] <= 1
                            /\ recorded'[s][a] > 0 => a <= step'[s].attempt
    BY <1>1, <1>3, <2>1, <2>2 DEF CountsOK, r
  <2>5. ~ recorded'[s][step'[s].attempt] > 0
    BY <1>1, <1>7, <2>2 DEF r
  <2> QED
    BY <1>1, <2>1, <2>3, <2>4, <2>5 DEF CountsOK
<1>10. ~ CrashWindow(s)'
  BY <1>5 DEF CrashWindow, r
<1> QED
  BY <1>1, <1>2, <1>3, <1>4, <1>9, <1>10, RunsPersisted

\* An outcome closes the crash window.
LEMMA RunsRecordOutcome ==
  ASSUME Inv, RunsInv, NEW p \in Pids, RecordOutcome(p)
  PROVE  RunsInv'
<1>1. /\ pc[p] = "persist" /\ pc[p] \in Aware /\ AfterPersist(p)
      /\ recorded' = recorded /\ dispatcher' = dispatcher /\ resuming' = resuming
  BY DEF RecordOutcome, history, Driving, Aware, ResumePcs, ExecutePcs
<1>2. PICK s \in At(p, "record") :
        /\ step' = [step EXCEPT ![s].class = job[p][s].class, ![s].ref = TRUE,
                                ![s].lane = job[p][s].lane,
                                ![s].verdict = IF job[p][s].verdict # ""
                                             THEN job[p][s].verdict ELSE @]
        /\ SetJob(p, s, Idle)
  BY DEF RecordOutcome
<1>3. s \in Steps /\ job[p][s].at = "record" /\ job[p][s].at \in Lone
  BY DEF At, Lone
<1> DEFINE r == step'[s]
<1>4. \A t \in Steps \ {s} : step'[t] = step[t]
  BY <1>2, RunTypes
<1>5. r.attempt = step[s].attempt /\ r.class = job[p][s].class
  <2>1. step[s] \in StepRecords
    BY <1>3, RunTypes
  <2>2. r = [step[s] EXCEPT !.class = job[p][s].class, !.ref = TRUE, !.lane = job[p][s].lane,
                            !.verdict = IF job[p][s].verdict # ""
                                        THEN job[p][s].verdict ELSE step[s].verdict]
    BY <1>2, <1>3, RunTypes
  <2> HIDE DEF r
  <2> QED
    BY <2>1, <2>2 DEF StepRecords
<1>6. job[p][s].class # Pending
  BY <1>1, <1>3, RunClassIs DEF RunsInv, MemoryOK, Current, TrueOf
<1> HIDE DEF r
<1>7. CountsOK'
  <2>1. CountsOK
    BY DEF RunsInv
  <2>2. \A t \in Steps : /\ step'[t].attempt = step[t].attempt
                         /\ step'[t].class = Pending => /\ step[t].class = Pending
                                                        /\ step'[t].started = step[t].started
                                                        /\ step'[t].lane = step[t].lane
    BY <1>4, <1>5, <1>6 DEF r
  <2> QED
    BY <1>1, <2>1, <2>2 DEF CountsOK
<1>8. ~ CrashWindow(s)'
  BY <1>5, <1>6 DEF CrashWindow, r
<1> QED
  BY <1>1, <1>2, <1>3, <1>4, <1>7, <1>8, RunsPersisted

\* A node that ends is held with its class by whoever waits for it.
LEMMA RunsNodeReturns ==
  ASSUME Inv, RunsInv, NEW p \in Pids, NEW s \in Steps, NodeReturns(p, s)
  PROVE  RunsInv'
<1>1. /\ job[p][s].at = "running" /\ pc' = pc /\ step' = step
      /\ recorded' = recorded /\ dispatcher' = dispatcher /\ resuming' = resuming
  BY DEF NodeReturns, disk, history
<1>2. CountsOK' /\ StartsOK'
  BY <1>1 DEF RunsInv, CountsOK, StartsOK, NoneStarted
<1>3. CASE pc[p] \in Aware
  <2>1. Current(p) /\ TrueOf(job[p][s], s)
    BY <1>1, <1>3 DEF RunsInv, MemoryOK, Current
  <2>2. pc[p] \in {"start", "launch", "wait"}
    BY <1>1, <1>3, <2>1, Places DEF Current, Aware, Driving, ResumePcs, ExecutePcs, Quiet
  <2>3. pc[p] \in ExecutePcs
    BY <2>2 DEF ExecutePcs
  <2>r. PICK class \in Outcomes, verdict \in Verdicts :
          SetJob(p, s, [job[p][s] EXCEPT !.at = "returned", !.verdict = verdict,
                                         !.class = class])
    BY <2>3, NodeOutcome, Zenon DEF Inv
  <2> DEFINE j == [job[p][s] EXCEPT !.at = "returned", !.verdict = verdict, !.class = class]
  <2>4. j.at = "returned" /\ j.class = class
    BY RunTypes DEF Job
  <2>5. \A t \in Steps : job'[p][t] = IF t = s THEN j ELSE job[p][t]
    BY <2>r, OneJob
  <2> HIDE DEF j
  <2>7. ASSUME NEW t \in Steps
        PROVE  /\ job'[p][t].at \in MayHold(pc[p])
               /\ job'[p][t].at \in Lone => job[p][t].at \in Lone
               /\ TrueOf(job[p][t], t)'
    <3>1. job[p][t].at \in MayHold(pc[p]) /\ TrueOf(job[p][t], t)
      BY <2>1 DEF Current
    <3>2. "returned" \in MayHold(pc[p]) /\ "returned" \notin Lone
      BY <2>2, Places DEF Lone
    <3>3. CASE t = s
      BY <1>1, <2>1, <2>4, <2>5, <3>2, <3>3 DEF TrueOf, CrashWindow, Held
    <3>4. CASE t # s
      BY <1>1, <2>5, <3>1, <3>4 DEF TrueOf, CrashWindow
    <3> QED
      BY <3>3, <3>4
  <2>8. Current(p)'
    BY <1>1, <2>1, <2>7 DEF Current
  <2>9. pc[p] \in Driving /\ Go(p, pc[p]) 
    BY <1>1, <1>3, RunTypes DEF Aware, Go
  <2>10. MemoryOK'
    BY <2>8, <2>9, MemoryDriving
  <2> QED
    BY <1>2, <2>10 DEF RunsInv
<1>4. CASE pc[p] \notin Aware
  <2>1. \A q \in Pids \ {p} : job'[q] = job[q]
    BY RunTypes DEF NodeReturns, SetJob
  <2>2. MemoryOK'
    BY <1>1, <1>4, <2>1 DEF RunsInv, MemoryOK, Current, TrueOf, CrashWindow
  <2> QED
    BY <1>2, <2>2 DEF RunsInv
<1> QED
  BY <1>3, <1>4

-----------------------------------------------------------------------------
(* Coming and going.                                                       *)

\* A process outside changes nothing for those inside.
LEMMA MemoryOutside ==
  ASSUME Inv, RunsInv, NEW p \in Pids, NEW to, to \notin Aware, Go(p, to),
         \A q \in Pids \ {p} : job'[q] = job[q], step' = step, recorded' = recorded
  PROVE  MemoryOK' /\ CountsOK'
<1>1. \A q \in Pids : pc'[q] = IF q = p THEN to ELSE pc[q]
  BY RunTypes DEF Go
<1> QED
  BY <1>1 DEF RunsInv, MemoryOK, Current, TrueOf, CrashWindow, CountsOK

\* The child comes first.
LEMMA RunsSpawn ==
  ASSUME Inv, RunsInv, Spawn
  PROVE  RunsInv'
<1>1. /\ Go(Child, "acquire") /\ dispatcher = "spawn" /\ dispatcher' = "mark"
      /\ step' = step /\ recorded' = recorded /\ Child \in Pids
      /\ \A q \in Pids \ {Child} : job'[q] = job[q]
  BY RunTypes, SupervisorAssumption DEF Spawn, disk, history
<1>2. MemoryOK' /\ CountsOK'
  BY <1>1, MemoryOutside DEF Aware, Driving, ResumePcs, ExecutePcs
<1>3. \A q \in Pids : pc'[q] = IF q = Child THEN "acquire" ELSE "off"
  BY <1>1, RunTypes DEF RunsInv, StartsOK, Go
<1>4. StartsOK'
  BY <1>1, <1>3 DEF RunsInv, StartsOK, NoneStarted
<1> QED
  BY <1>2, <1>4 DEF RunsInv

\* Operators come later, with recovery, and not before a late child.
LEMMA RunsStartDrive ==
  ASSUME "plain" \notin Modes, Inv, RunsInv, NEW p \in Pids, NEW mode \in Modes,
         StartDrive(p, mode)
  PROVE  RunsInv'
<1>1. /\ Go(p, "acquire") /\ dispatcher = "done" /\ dispatcher' = "done" /\ ~ ChildLate
      /\ pc[p] = "off" /\ step' = step /\ recorded' = recorded
      /\ \A q \in Pids \ {p} : job'[q] = job[q]
      /\ \A q \in Pids : resuming'[q] = IF q = p THEN TRUE ELSE resuming[q]
  BY RunTypes DEF StartDrive, disk, history
<1>2. MemoryOK' /\ CountsOK'
  BY <1>1, MemoryOutside DEF Aware, Driving, ResumePcs, ExecutePcs
<1>3. \A q \in Pids : pc'[q] = IF q = p THEN "acquire" ELSE pc[q]
  BY <1>1, RunTypes DEF Go
<1>4. StartsOK'
  BY <1>1, <1>3 DEF RunsInv, StartsOK, ChildLate
<1> QED
  BY <1>2, <1>4 DEF RunsInv

\* One that leaves without having entered.
LEMMA RunsTurnBack ==
  ASSUME Inv, RunsInv, NEW p \in Pids, pc[p] = "acquire", NEW to \in {"off", "dead"}, Go(p, to),
         \A q \in Pids \ {p} : job'[q] = job[q], step' = step, recorded' = recorded,
         dispatcher' = dispatcher, resuming' = resuming
  PROVE  RunsInv'
<1>1. MemoryOK' /\ CountsOK'
  BY MemoryOutside DEF Aware, Driving, ResumePcs, ExecutePcs
<1>2. \A q \in Pids : pc'[q] = IF q = p THEN to ELSE pc[q]
  BY RunTypes DEF Go
<1>3. StartsOK'
  BY <1>2 DEF RunsInv, StartsOK
<1> QED
  BY <1>1, <1>3 DEF RunsInv

\* One that enters without recovery finds nothing started.
LEMMA RunsAcquireLease ==
  ASSUME Inv, RunsInv, NEW p \in Pids, AcquireLease(p)
  PROVE  RunsInv'
<1> DEFINE to == IF resuming[p] THEN "load" ELSE "beat"
<1>1. /\ pc[p] = "acquire" /\ Go(p, to) /\ job' = job /\ step' = step /\ recorded' = recorded
      /\ dispatcher' = dispatcher /\ resuming' = resuming
  BY DEF AcquireLease, memory, history
<1>2. \A q \in Pids : pc'[q] = IF q = p THEN to ELSE pc[q]
  BY <1>1, RunTypes DEF Go
<1>3. CountsOK'
  BY <1>1 DEF RunsInv, CountsOK
<1>4. StartsOK'
  BY <1>1, <1>2 DEF RunsInv, StartsOK
<1>5. ~ resuming[p] => Current(p)'
  <2> SUFFICES ASSUME ~ resuming[p] PROVE Current(p)'
    OBVIOUS
  <2>1. pc'[p] = "beat" /\ MayHold("beat") = {"idle"}
    BY <1>2, Places DEF Quiet
  <2>2. \A s \in Steps : job[p][s].at = "idle"
    BY <1>1 DEF Inv, WalkInv
  <2>3. NoneStarted
    BY <1>1, RunTypes DEF RunsInv, StartsOK
  <2>4. \A s \in Steps : ~ CrashWindow(s)
    BY <2>3 DEF NoneStarted, CrashWindow
  <2> QED
    BY <1>1, <2>1, <2>2, <2>4 DEF Current, TrueOf, CrashWindow, Lone, Held
<1>6. "load" \notin Aware
  BY DEF Aware
<1>7. MemoryOK'
  BY <1>1, <1>2, <1>5, <1>6 DEF RunsInv, MemoryOK, Current, TrueOf, CrashWindow
<1> QED
  BY <1>3, <1>4, <1>7 DEF RunsInv

\* A crash loses the memory and nothing else.
LEMMA RunsCrash ==
  ASSUME Inv, RunsInv, NEW p \in Pids, Crash(p)
  PROVE  RunsInv'
<1>1. /\ Go(p, "dead") /\ pc[p] \in Driving \cup {"acquire"}
      /\ \A q \in Pids \ {p} : job'[q] = job[q]
      /\ step' = step /\ recorded' = recorded
      /\ dispatcher' = dispatcher /\ resuming' = resuming
  BY RunTypes DEF Crash, disk, history
<1> QED
  BY <1>1, RunsLeave, RunsTurnBack

\* When recovery is through, nothing is left in the crash window.
LEMMA RunsResumeVerdict ==
  ASSUME Inv, RunsInv, NEW p \in Pids, ResumeVerdict(p)
  PROVE  RunsInv'
<1>1. /\ pc[p] = "reconcile" /\ pc[p] \in Aware
      /\ Go(p, "beat") \/ Go(p, "rfinload")
      /\ At(p, "window") \cup At(p, "probed") = {} /\ At(p, "blocked") = {}
      /\ job' = job /\ step' = step /\ recorded' = recorded
      /\ dispatcher' = dispatcher /\ resuming' = resuming
  BY DEF ResumeVerdict, Reconciled, disk, memory, history, Aware, Driving, ResumePcs
<1>2. \A s \in Steps : job[p][s].at = "idle"
  BY <1>1, Places DEF RunsInv, MemoryOK, Current, At
<1> QED
  BY <1>1, <1>2, RunsMove DEF Quiet

-----------------------------------------------------------------------------
\* Nothing runs and nothing is held before the first driver.
LEMMA RunsInit == Init => RunsInv
<1> SUFFICES ASSUME Init PROVE RunsInv
  OBVIOUS
<1>1. /\ \A p \in Pids : pc[p] = "off"
      /\ \A s \in Steps : step[s] = FreshStep /\ \A a \in Attempts : recorded[s][a] = 0
  BY DEF Init
<1>f. ~ FreshStep.started /\ FreshStep.attempt = 0
  BY Zenon DEF FreshStep
<1>2. \A s \in Steps : ~ step[s].started /\ step[s].attempt = 0
  BY <1>1, <1>f
<1>3. 0 \in Attempts
  BY SupervisorAssumption DEF Attempts
<1>4. MemoryOK /\ StartsOK
  BY <1>1, <1>2 DEF MemoryOK, StartsOK, NoneStarted, Aware, Driving, ResumePcs, ExecutePcs
<1>5. CountsOK
  BY <1>1, <1>2, <1>3 DEF CountsOK
<1> QED
  BY <1>4, <1>5 DEF RunsInv

\* Every step keeps it: one case per action.
LEMMA RunsStep ==
  ASSUME "plain" \notin Modes
  PROVE  Inv /\ RunsInv /\ [Next]_vars => RunsInv'
<1> SUFFICES ASSUME Inv, RunsInv, [Next]_vars PROVE RunsInv'
  OBVIOUS
<1>1. CASE Spawn
  BY <1>1, RunsSpawn
<1>2. CASE SpawnFails
  BY <1>2, RunsUntouched DEF SpawnFails, disk, memory, history
<1>3. CASE MarkWorking
  BY <1>3, RunsUntouched DEF MarkWorking, disk, memory, history
<1>4. CASE RequestCancel
  BY <1>4, RunsUntouched DEF RequestCancel, disk, memory, history
<1>5. CASE Lapse
  BY <1>5, RunsUntouched DEF Lapse, disk, memory, history
<1>6. CASE Freeze
  BY <1>6, RunsUntouched DEF Freeze, disk, memory, history
<1>7. ASSUME NEW p \in Pids, NEW mode \in Modes, StartDrive(p, mode) PROVE RunsInv'
  BY <1>7, RunsStartDrive
<1>8. ASSUME NEW p \in Pids, NEW s \in Steps, NodeReturns(p, s) PROVE RunsInv'
  BY <1>8, RunsNodeReturns
<1>9. ASSUME NEW p \in Pids, ReLane(p) PROVE RunsInv'
  BY <1>9, RunsReLane, TypeStep DEF Inv
<1>10. ASSUME NEW p \in Pids, AcquireLease(p) PROVE RunsInv'
  BY <1>10, RunsAcquireLease
<1>11. ASSUME NEW p \in Pids, ResumeLoad(p) PROVE RunsInv'
  BY <1>11, RunsResumeLoad
<1>12. ASSUME NEW p \in Pids, ResumeProbe(p) PROVE RunsInv'
  BY <1>12, RunsResumeProbe
<1>13. ASSUME NEW p \in Pids, ResumeApply(p) PROVE RunsInv'
  BY <1>13, RunsResumeApply
<1>14. ASSUME NEW p \in Pids, ComposeWave(p) PROVE RunsInv'
  BY <1>14, RunsComposeWave
<1>15. ASSUME NEW p \in Pids, MarkStarted(p) PROVE RunsInv'
  BY <1>15, RunsMarkStarted
<1>16. ASSUME NEW p \in Pids, Launch(p) PROVE RunsInv'
  BY <1>16, RunsLaunch
<1>17. ASSUME NEW p \in Pids, PersistLoad(p) PROVE RunsInv'
  BY <1>17, RunsPersistLoad
<1>18. ASSUME NEW p \in Pids, RecordOutcome(p) PROVE RunsInv'
  BY <1>18, RunsRecordOutcome
<1>19. ASSUME NEW p \in Pids, Crash(p) PROVE RunsInv'
  BY <1>19, RunsCrash
<1>20. ASSUME NEW p \in Pids, RefuseDrive(p) PROVE RunsInv'
  BY <1>20, RunsTurnBack DEF RefuseDrive, disk, memory, history
<1>21. ASSUME NEW p \in Pids, Heartbeat(p) PROVE RunsInv'
  BY <1>21, RunsUntouched DEF Heartbeat, memory, history
<1>22. ASSUME NEW p \in Pids, ResumeBlocked(p) PROVE RunsInv'
  BY <1>22, RunsLeave DEF ResumeBlocked, Reconciled, memory, history, Driving, ResumePcs
<1>23. ASSUME NEW p \in Pids, CancelStop(p) PROVE RunsInv'
  BY <1>23, RunsLeave DEF CancelStop, disk, memory, history, Driving, ResumePcs, ExecutePcs
<1>24. ASSUME NEW p \in Pids, StepAside(p) PROVE RunsInv'
  BY <1>24, RunsLeave DEF StepAside, disk, memory, history, Driving, ResumePcs, ExecutePcs
<1>25. ASSUME NEW p \in Pids, MarkStolen(p) PROVE RunsInv'
  BY <1>25, RunsLeave DEF MarkStolen, disk, memory, history, Driving, ResumePcs, ExecutePcs
<1>26. ASSUME NEW p \in Pids, ReleaseLease(p) PROVE RunsInv'
  BY <1>26, RunsLeave
     DEF ReleaseLease, disk, memory, history, Driving, ResumePcs, ExecutePcs
<1>27. ASSUME NEW p \in Pids, WriteFails(p) PROVE RunsInv'
  BY <1>27, RunsLeave DEF WriteFails, disk, memory, history, Driving, ResumePcs, ExecutePcs
<1>28. ASSUME NEW p \in Pids, FirstBeat(p) PROVE RunsInv'
  BY <1>28, MovesIdle, RunsMove DEF Quiet, FirstBeat, disk, memory, history
<1>29. ASSUME NEW p \in Pids, MarkRunning(p) PROVE RunsInv'
  BY <1>29, MovesIdle, RunsMove DEF Quiet, MarkRunning, disk, memory, history
<1>30. ASSUME NEW p \in Pids, NothingReady(p) PROVE RunsInv'
  BY <1>30, MovesIdle, RunsMove DEF Quiet, NothingReady, disk, memory, history
<1>31. ASSUME NEW p \in Pids, FinalizeLoad(p) PROVE RunsInv'
  BY <1>31, MovesIdle, RunsMove DEF Quiet, FinalizeLoad, disk, memory, history
<1>32. ASSUME NEW p \in Pids, FinalizeWrite(p) PROVE RunsInv'
  BY <1>32, MovesIdle, RunsMove, RunsLeave DEF Quiet, FinalizeWrite, memory, history, Aware
<1>33. ASSUME NEW p \in Pids, ResumeReread(p) PROVE RunsInv'
  BY <1>33, MovesIdle, RunsMove, RunsLeave
     DEF Quiet, ResumeReread, disk, memory, history, Aware
<1>34. ASSUME NEW p \in Pids, ResumeVerdict(p) PROVE RunsInv'
  BY <1>34, RunsResumeVerdict
<1>35. CASE UNCHANGED vars
  BY <1>35, RunsUntouched DEF vars, disk, memory, history
<1> QED
  BY <1>1, <1>2, <1>3, <1>4, <1>5, <1>6, <1>7, <1>8, <1>9, <1>10,
     <1>11, <1>12, <1>13, <1>14, <1>15, <1>16, <1>17, <1>18, <1>19,
     <1>20, <1>21, <1>22, <1>23, <1>24, <1>25, <1>26, <1>27, <1>28,
     <1>29, <1>30, <1>31, <1>32, <1>33, <1>34, <1>35
     DEF Next, Dispatcher, Supervise, Recover, Walk, Finish

-----------------------------------------------------------------------------
\* No attempt that state.json marked with a cloud lane is run on one twice (the
\* R10 rule of recovery.go and executor.go), over any DAG, any number of
\* drivers, crashes, failed writes and lost receipts.
THEOREM NoSecondMarkedRunAlways ==
  ASSUME MaxFreezes = 0, "plain" \notin Modes
  PROVE  Spec => []NoSecondMarkedRun
<1>1. Inv /\ RunsInv => NoSecondMarkedRun
  BY DEF RunsInv, CountsOK, NoSecondMarkedRun
<1>2. Init => RunsInv
  BY RunsInit
<1>3. Inv /\ RunsInv /\ [Next]_vars => RunsInv'
  BY RunsStep
<1> QED
  BY <1>1, <1>2, <1>3, InvHolds, PTL DEF Spec

-----------------------------------------------------------------------------
(* What is published.  The verdict a finalize is about to write is still   *)
(* the verdict of the steps, and as long as a step is blocked, or may turn *)
(* out to be, nothing else is published than what keeps it in sight.       *)

Walking == {"loop", "start", "launch", "wait", "persist", "finload", "finwrite"}
Sighted == {"blocked", "cancelled"} \cup LiveStates

Flagged == step[LastStep].verdict = "no" => verify.flag

VerdictInv ==
  /\ \A p \in Pids : pc[p] \in Walking => status = "running"
  /\ \A p \in Pids : pc[p] \in {"finwrite", "rfinwrite"} =>
       fin[p].state = FinalState(step) /\ fin[p].flag = FinalFlag(step)
  /\ \A s \in Steps : step[s].class # Pending => step[s].started
  /\ \A s \in Steps : step[s].class = "blocked" \/ CrashWindow(s) => status \in Sighted
  /\ status = "done" => Flagged

\* A rejection by the terminal verifier is the authoritative verdict.
LEMMA LastVerdictFlags ==
  step[LastStep].verdict = "no" => FinalFlag(step)
<1> SUFFICES ASSUME step[LastStep].verdict = "no" PROVE FinalFlag(step)
  OBVIOUS
<1> DEFINE judged == {s \in Steps : step[s].verdict # ""}
           latest(s) == \A t \in judged : t <= s
<1>1. LastStep \in judged
  <2>1. LastStep \in Steps
    BY IRAssumption DEF LastStep, Steps
  <2>2. "no" # ""
    BY Zenon
  <2> QED
    BY <2>1, <2>2, Zenon
<1>2. \A s \in judged : s <= LastStep /\ s \in Int
  <2>1. \A s \in judged : s \in Steps
    BY Zenon
  <2> HIDE DEF judged
  <2> QED
    BY <2>1, IRAssumption DEF LastStep, Steps
<1>3. \A s \in judged : latest(s) <=> s = LastStep
  <2> HIDE DEF judged
  <2> QED
    BY <1>1, <1>2
<1>4. (CHOOSE s \in judged : latest(s)) = LastStep
  <2> HIDE DEF judged, latest
  <2> QED
    BY <1>1, <1>3
<1>5. FinalVerdict(step) = step[LastStep].verdict
  <2>1. judged # {}
    BY <1>1
  <2> QED
    BY <1>4, <2>1, Zenon DEF FinalVerdict
<1>6. "no" \notin {"", "yes"}
  BY Zenon
<1> QED
  BY <1>5, <1>6, Zenon DEF FinalFlag

\* Steps that touch none of it.
LEMMA VerdictUntouched ==
  ASSUME VerdictInv, UNCHANGED <<pc, fin, step, status, verify>>
  PROVE  VerdictInv'
BY DEF VerdictInv, CrashWindow, Flagged

\* A process that moves on without publishing anything.
LEMMA VerdictMove ==
  ASSUME Inv, VerdictInv, NEW p \in Pids, NEW to, Go(p, to),
         to \notin {"finwrite", "rfinwrite"}, to \in Walking => pc[p] \in Walking,
         \A q \in Pids \ {p} : fin'[q] = fin[q],
         step' = step, status' = status, verify' = verify
  PROVE  VerdictInv'
<1>1. \A q \in Pids : pc'[q] = IF q = p THEN to ELSE pc[q]
  BY RunTypes DEF Go
<1> QED
  BY <1>1 DEF VerdictInv, CrashWindow, Flagged

\* A driver that publishes a state in which a blocked step is in sight.
LEMMA VerdictPublish ==
  ASSUME Inv, VerdictInv, NEW p \in Pids, pc[p] \in Driving, NEW to, Go(p, to),
         to \notin {"finwrite", "rfinwrite"}, to \in Walking => status' = "running",
         status' \in Sighted, step' = step
  PROVE  VerdictInv'
<1>1. \A q \in Pids : pc'[q] = IF q = p THEN to ELSE pc[q]
  BY RunTypes DEF Go
<1>2. \A q \in Pids \ {p} : pc[q] \notin Walking \cup {"rfinwrite"}
  BY Sole DEF Walking, Driving, ResumePcs, ExecutePcs
<1>3. status' # "done"
  BY DEF Sighted, LiveStates
<1>4. \A s \in Steps : CrashWindow(s)' <=> CrashWindow(s)
  BY DEF CrashWindow
<1> QED
  BY <1>1, <1>2, <1>3, <1>4 DEF VerdictInv, Walking

\* A driver that writes a step while a blocked step is in sight.
LEMMA VerdictWrite ==
  ASSUME Inv, VerdictInv, NEW p \in Pids, pc[p] \in Driving, NEW to, Go(p, to),
         to \notin {"finwrite", "rfinwrite"}, to \in Walking => pc[p] \in Walking,
         NEW s \in Steps, \A t \in Steps \ {s} : step'[t] = step[t],
         step'[s].class # Pending => step'[s].started,
         status \in Sighted, status' = status
  PROVE  VerdictInv'
<1>1. \A q \in Pids : pc'[q] = IF q = p THEN to ELSE pc[q]
  BY RunTypes DEF Go
<1>2. \A q \in Pids \ {p} : pc[q] \notin Walking \cup {"rfinwrite"}
  BY Sole DEF Walking, Driving, ResumePcs, ExecutePcs
<1>3. status' # "done"
  BY DEF Sighted, LiveStates
<1> QED
  BY <1>1, <1>2, <1>3 DEF VerdictInv, Walking

\* A spawn that fails publishes a failure before anything was started.
LEMMA VerdictSpawnFails ==
  ASSUME Inv, RunsInv, VerdictInv, SpawnFails
  PROVE  VerdictInv'
<1>1. /\ \A p \in Pids : pc[p] = "off"
      /\ \A s \in Steps : ~ step[s].started
      /\ status' \in {"failed", status} /\ pc' = pc /\ step' = step /\ verify' = verify
  BY DEF SpawnFails, Publish, RunsInv, StartsOK, NoneStarted
<1>2. \A s \in Steps : step[s].class = Pending
  BY <1>1 DEF VerdictInv
<1>3. Pending # "blocked"
  BY FreshTypes
<1> QED
  BY <1>1, <1>2, <1>3 DEF VerdictInv, CrashWindow, Walking, Flagged

\* The dispatcher marks a pending dispatch only.
LEMMA VerdictMarkWorking ==
  ASSUME Inv, VerdictInv, MarkWorking
  PROVE  VerdictInv'
<1>1. /\ pc' = pc /\ fin' = fin /\ step' = step /\ verify' = verify
      /\ status' = status \/ (status = "pending" /\ status' = "working")
  BY DEF MarkWorking, Publish, memory
<1> QED
  BY <1>1 DEF VerdictInv, CrashWindow, Flagged, Sighted, LiveStates

\* finalize computes the verdict of the steps it loads ...
LEMMA VerdictFinalizeLoad ==
  ASSUME Inv, VerdictInv, NEW p \in Pids, FinalizeLoad(p)
  PROVE  VerdictInv'
<1> DEFINE to == IF pc[p] = "finload" THEN "finwrite" ELSE "rfinwrite"
<1>1. /\ pc[p] \in {"finload", "rfinload"} /\ Go(p, to)
      /\ step' = step /\ status' = status /\ verify' = verify
  BY DEF FinalizeLoad, disk
<1>2. /\ \A q \in Pids \ {p} : fin'[q] = fin[q]
      /\ fin'[p].state = FinalState(step) /\ fin'[p].flag = FinalFlag(step)
  BY DEF FinalizeLoad, Inv, TypeInv, TypeOK, ProcessesOK
<1>3. \A q \in Pids : pc'[q] = IF q = p THEN to ELSE pc[q]
  BY <1>1, RunTypes DEF Go
<1>4. to \in Walking => pc[p] \in Walking
  BY <1>1 DEF Walking
<1> QED
  BY <1>1, <1>2, <1>3, <1>4 DEF VerdictInv, CrashWindow, Flagged

\* ... and publishes it while it is still theirs.
LEMMA VerdictFinalizeWrite ==
  ASSUME Inv, RunsInv, VerdictInv, NEW p \in Pids, FinalizeWrite(p)
  PROVE  VerdictInv'
<1> DEFINE to == IF pc[p] = "finwrite" THEN "release" ELSE "reread"
<1>1. /\ pc[p] \in {"finwrite", "rfinwrite"} /\ pc[p] \in Driving /\ Go(p, to)
      /\ step' = step /\ status' = FinalState(step) /\ verify'.flag = FinalFlag(step)
  BY DEF FinalizeWrite, VerdictInv, Driving, ResumePcs, ExecutePcs
<1>2. \A q \in Pids : pc'[q] = IF q = p THEN to ELSE pc[q]
  BY <1>1, RunTypes DEF Go
<1>3. \A q \in Pids \ {p} : pc[q] \notin Walking \cup {"rfinwrite"}
  BY <1>1, Sole DEF Walking, Driving, ResumePcs, ExecutePcs
<1>4. \A s \in Steps : ~ CrashWindow(s)
  BY <1>1, MovesIdle DEF Quiet, RunsInv, MemoryOK, Current, TrueOf, Held
<1>5. \A s \in Steps : step[s].class = "blocked" => status' \in Sighted
  BY <1>1 DEF FinalState, AnyBlocked, Sighted
<1>6. Flagged'
  BY <1>1, LastVerdictFlags DEF Flagged
<1>7. to \notin Walking \cup {"rfinwrite"}
  BY DEF Walking
<1> QED
  BY <1>1, <1>2, <1>3, <1>4, <1>5, <1>6, <1>7 DEF VerdictInv, CrashWindow, Walking

\* Recovery writes to a step that was started, so the dispatch was running.
LEMMA VerdictResumeApply ==
  ASSUME Inv, RunsInv, VerdictInv, NEW p \in Pids, ResumeApply(p)
  PROVE  VerdictInv'
<1>1. /\ pc[p] = "reconcile" /\ pc[p] \in Aware /\ pc[p] \in Driving /\ Go(p, "reconcile")
      /\ status' = status
  BY RunTypes DEF ResumeApply, Go, Aware, Driving, ResumePcs
<1>2. PICK s \in At(p, "probed") :
        step' = [step EXCEPT ![s].class = job[p][s].class,
                             ![s].started = @ /\ job[p][s].class # Pending]
  BY DEF ResumeApply
<1>3. s \in Steps /\ job[p][s].at = "probed"
  BY DEF At
<1>4. CrashWindow(s)
  BY <1>1, <1>3 DEF RunsInv, MemoryOK, Current, TrueOf
<1>5. step'[s].class = job[p][s].class /\ (step'[s].started <=> job[p][s].class # Pending)
  <2> DEFINE r == step'[s]
  <2>1. step[s] \in StepRecords
    BY <1>3, RunTypes
  <2>2. r = [step[s] EXCEPT !.class = job[p][s].class, !.started = @ /\ job[p][s].class # Pending]
    BY <1>2, <1>3, RunTypes
  <2>3. step[s].started
    BY <1>4 DEF CrashWindow
  <2> HIDE DEF r
  <2>4. r.class = job[p][s].class /\ (r.started <=> job[p][s].class # Pending)
    BY <2>1, <2>2, <2>3 DEF StepRecords
  <2> QED
    BY <2>4 DEF r
<1>6. \A t \in Steps \ {s} : step'[t] = step[t]
  BY <1>2, RunTypes
<1>7. status \in Sighted
  BY <1>3, <1>4 DEF VerdictInv
<1> QED
  BY <1>1, <1>3, <1>5, <1>6, <1>7, VerdictWrite DEF Walking

\* The walk writes while the dispatch is running.
LEMMA VerdictMarkStarted ==
  ASSUME Inv, VerdictInv, NEW p \in Pids, MarkStarted(p)
  PROVE  VerdictInv'
<1>1. /\ pc[p] \in Walking /\ pc[p] \in Driving /\ Go(p, "launch") /\ status' = status
      /\ status \in Sighted
  BY DEF MarkStarted, VerdictInv, Walking, Driving, ExecutePcs, Sighted, LiveStates
<1>2. PICK s \in First(At(p, "picked")), lane \in Lanes \cup {NoLane} :
        step' = [step EXCEPT ![s].started = TRUE,
                             ![s].attempt = job[p][s].attempt,
                             ![s].lane = lane]
  BY IRAssumption DEF MarkStarted, Resolve, First, At
<1>3. s \in Steps
  BY DEF First, At
<1>4. step'[s].started
  <2> DEFINE r == step'[s]
  <2>1. step[s] \in StepRecords
    BY <1>3, RunTypes
  <2>2. r = [step[s] EXCEPT !.started = TRUE, !.attempt = job[p][s].attempt, !.lane = lane]
    BY <1>2, <1>3, RunTypes
  <2> HIDE DEF r
  <2>3. r.started
    BY <2>1, <2>2 DEF StepRecords
  <2> QED
    BY <2>3 DEF r
<1>5. \A t \in Steps \ {s} : step'[t] = step[t]
  BY <1>2, RunTypes
<1> QED
  BY <1>1, <1>3, <1>4, <1>5, VerdictWrite

\* A re-lane takes the outcome away again ...
LEMMA VerdictReLane ==
  ASSUME Inv, VerdictInv, NEW p \in Pids, ReLane(p)
  PROVE  VerdictInv'
<1> DEFINE to == IF At(p, "returned") # {} THEN "wait" ELSE "loop"
<1>1. /\ pc[p] \in Walking /\ pc[p] \in Driving /\ Go(p, to) /\ status' = status
      /\ status \in Sighted /\ to \notin {"finwrite", "rfinwrite"}
  BY DEF ReLane, AfterPersist, VerdictInv, Walking, Driving, ExecutePcs, Sighted, LiveStates
<1>2. PICK s \in At(p, "relane") :
        step' = [step EXCEPT ![s].attempt = job[p][s].attempt + 1,
                             ![s].class = Pending, ![s].started = FALSE]
  BY DEF ReLane
<1>3. s \in Steps
  BY DEF At
<1>4. step'[s].class = Pending
  <2> DEFINE r == step'[s]
  <2>1. step[s] \in StepRecords
    BY <1>3, RunTypes
  <2>2. r = [step[s] EXCEPT !.attempt = job[p][s].attempt + 1, !.class = Pending,
                            !.started = FALSE]
    BY <1>2, <1>3, RunTypes
  <2> HIDE DEF r
  <2>3. r.class = Pending
    BY <2>1, <2>2 DEF StepRecords
  <2> QED
    BY <2>3 DEF r
<1>5. \A t \in Steps \ {s} : step'[t] = step[t]
  BY <1>2, RunTypes
<1> HIDE DEF to
<1> QED
  BY <1>1, <1>3, <1>4, <1>5, VerdictWrite

\* ... and an outcome is written to a step that was started.
LEMMA VerdictRecordOutcome ==
  ASSUME Inv, RunsInv, VerdictInv, NEW p \in Pids, RecordOutcome(p)
  PROVE  VerdictInv'
<1> DEFINE to == IF At(p, "returned") # {} THEN "wait" ELSE "loop"
<1>1. /\ pc[p] \in Walking /\ pc[p] \in Driving /\ pc[p] \in Aware /\ Go(p, to)
      /\ status' = status /\ status \in Sighted /\ to \notin {"finwrite", "rfinwrite"}
  BY DEF RecordOutcome, AfterPersist, VerdictInv, Walking, Driving, Aware, ResumePcs,
     ExecutePcs, Sighted, LiveStates
<1>2. PICK s \in At(p, "record") :
        step' = [step EXCEPT ![s].class = job[p][s].class, ![s].ref = TRUE,
                             ![s].lane = job[p][s].lane,
                             ![s].verdict = IF job[p][s].verdict # ""
                                          THEN job[p][s].verdict ELSE @]
  BY DEF RecordOutcome
<1>3. s \in Steps /\ job[p][s].at = "record"
  BY DEF At
<1>4. step'[s].started
  <2> DEFINE r == step'[s]
  <2>1. step[s] \in StepRecords
    BY <1>3, RunTypes
  <2>2. r = [step[s] EXCEPT !.class = job[p][s].class, !.ref = TRUE, !.lane = job[p][s].lane,
                            !.verdict = IF job[p][s].verdict # ""
                                        THEN job[p][s].verdict ELSE step[s].verdict]
    BY <1>2, <1>3, RunTypes
  <2>3. step[s].started
    BY <1>1, <1>3 DEF RunsInv, MemoryOK, Current, TrueOf, Held, CrashWindow
  <2> HIDE DEF r
  <2>4. r.started
    BY <2>1, <2>2, <2>3 DEF StepRecords
  <2> QED
    BY <2>4 DEF r
<1>5. \A t \in Steps \ {s} : step'[t] = step[t]
  BY <1>2, RunTypes
<1> HIDE DEF to
<1> QED
  BY <1>1, <1>3, <1>4, <1>5, VerdictWrite DEF Walking

\* Nothing is published but the pending dispatch.
LEMMA VerdictInit == Init => VerdictInv
<1> SUFFICES ASSUME Init PROVE VerdictInv
  OBVIOUS
<1>1. /\ status = "pending" /\ \A p \in Pids : pc[p] = "off"
      /\ \A s \in Steps : step[s] = FreshStep
  BY DEF Init
<1>2. FreshStep.class = Pending /\ ~ FreshStep.started /\ Pending # "blocked"
  <2>1. FreshStep.class = Pending /\ ~ FreshStep.started
    BY Zenon DEF FreshStep
  <2> QED
    BY <2>1, FreshTypes
<1>3. \A s \in Steps : step[s].class = Pending /\ ~ step[s].started
  BY <1>1, <1>2
<1> QED
  BY <1>1, <1>2, <1>3 DEF VerdictInv, Walking, CrashWindow

\* Every step keeps it: one case per action.
LEMMA VerdictStep == Inv /\ RunsInv /\ VerdictInv /\ [Next]_vars => VerdictInv'
<1> SUFFICES ASSUME Inv, RunsInv, VerdictInv, [Next]_vars PROVE VerdictInv'
  OBVIOUS
<1>f. fin \in [Pids -> Finals]
  BY DEF Inv, TypeInv, TypeOK, ProcessesOK
<1>1. CASE RequestCancel
  BY <1>1, VerdictUntouched DEF RequestCancel, disk, memory
<1>2. CASE Lapse
  BY <1>2, VerdictUntouched DEF Lapse, disk, memory
<1>3. CASE Freeze
  BY <1>3, VerdictUntouched DEF Freeze, disk, memory
<1>4. CASE SpawnFails
  BY <1>4, VerdictSpawnFails
<1>5. CASE MarkWorking
  BY <1>5, VerdictMarkWorking
<1>6. CASE Spawn
  BY <1>6, VerdictMove, SupervisorAssumption DEF Spawn, disk, Walking
<1>7. ASSUME NEW p \in Pids, NEW mode \in Modes, StartDrive(p, mode) PROVE VerdictInv'
  BY <1>7, VerdictMove DEF StartDrive, disk, Walking
<1>8. ASSUME NEW p \in Pids, NEW s \in Steps, NodeReturns(p, s) PROVE VerdictInv'
  BY <1>8, VerdictUntouched DEF NodeReturns, disk
<1>9. ASSUME NEW p \in Pids, Heartbeat(p) PROVE VerdictInv'
  BY <1>9, VerdictUntouched DEF Heartbeat, memory
<1>10. ASSUME NEW p \in Pids, ResumeProbe(p) PROVE VerdictInv'
  BY <1>10, VerdictUntouched DEF ResumeProbe, disk
<1>11. ASSUME NEW p \in Pids, AcquireLease(p) PROVE VerdictInv'
  BY <1>11, <1>f, VerdictMove DEF AcquireLease, disk, memory, Walking
<1>12. ASSUME NEW p \in Pids, RefuseDrive(p) PROVE VerdictInv'
  BY <1>12, <1>f, VerdictMove DEF RefuseDrive, disk, memory, Walking
<1>13. ASSUME NEW p \in Pids, FirstBeat(p) PROVE VerdictInv'
  BY <1>13, <1>f, VerdictMove DEF FirstBeat, disk, memory, Walking
<1>14. ASSUME NEW p \in Pids, ReleaseLease(p) PROVE VerdictInv'
  BY <1>14, <1>f, VerdictMove DEF ReleaseLease, disk, memory, Walking
<1>15. ASSUME NEW p \in Pids, ResumeLoad(p) PROVE VerdictInv'
  BY <1>15, <1>f, VerdictMove DEF ResumeLoad, disk, memory, Walking
<1>16. ASSUME NEW p \in Pids, ResumeVerdict(p) PROVE VerdictInv'
  BY <1>16, <1>f, VerdictMove DEF ResumeVerdict, disk, memory, Walking
<1>17. ASSUME NEW p \in Pids, ResumeReread(p) PROVE VerdictInv'
  BY <1>17, <1>f, VerdictMove DEF ResumeReread, disk, memory, Walking
<1>18. ASSUME NEW p \in Pids, NothingReady(p) PROVE VerdictInv'
  BY <1>18, <1>f, VerdictMove DEF NothingReady, disk, memory, Walking
<1>19. ASSUME NEW p \in Pids, StepAside(p) PROVE VerdictInv'
  BY <1>19, <1>f, VerdictMove DEF StepAside, disk, memory, Walking
<1>20. ASSUME NEW p \in Pids, ComposeWave(p) PROVE VerdictInv'
  BY <1>20, <1>f, VerdictMove DEF ComposeWave, disk, memory, Walking
<1>21. ASSUME NEW p \in Pids, MarkStolen(p) PROVE VerdictInv'
  BY <1>21, <1>f, VerdictMove DEF MarkStolen, disk, memory, Walking
<1>22. ASSUME NEW p \in Pids, Launch(p) PROVE VerdictInv'
  BY <1>22, <1>f, VerdictMove DEF Launch, disk, memory, Walking
<1>23. ASSUME NEW p \in Pids, PersistLoad(p) PROVE VerdictInv'
  BY <1>23, <1>f, VerdictMove DEF PersistLoad, disk, memory, Walking
<1>24. ASSUME NEW p \in Pids, WriteFails(p) PROVE VerdictInv'
  BY <1>24, <1>f, VerdictMove DEF WriteFails, disk, memory, Walking
<1>25. ASSUME NEW p \in Pids, Crash(p) PROVE VerdictInv'
  BY <1>25, <1>f, VerdictMove DEF Crash, disk, memory, Walking
<1>26. ASSUME NEW p \in Pids, MarkRunning(p) PROVE VerdictInv'
  BY <1>26, VerdictPublish DEF MarkRunning, memory, Driving, ExecutePcs, Sighted, LiveStates
<1>27. ASSUME NEW p \in Pids, CancelStop(p) PROVE VerdictInv'
  BY <1>27, VerdictPublish DEF CancelStop, memory, Driving, ExecutePcs, Sighted, Walking
<1>28. ASSUME NEW p \in Pids, ResumeBlocked(p) PROVE VerdictInv'
  BY <1>28, VerdictPublish
     DEF ResumeBlocked, Reconciled, memory, Driving, ResumePcs, Sighted, Walking
<1>29. ASSUME NEW p \in Pids, FinalizeLoad(p) PROVE VerdictInv'
  BY <1>29, VerdictFinalizeLoad
<1>30. ASSUME NEW p \in Pids, FinalizeWrite(p) PROVE VerdictInv'
  BY <1>30, VerdictFinalizeWrite
<1>31. ASSUME NEW p \in Pids, ResumeApply(p) PROVE VerdictInv'
  BY <1>31, VerdictResumeApply
<1>32. ASSUME NEW p \in Pids, MarkStarted(p) PROVE VerdictInv'
  BY <1>32, VerdictMarkStarted
<1>33. ASSUME NEW p \in Pids, ReLane(p) PROVE VerdictInv'
  BY <1>33, VerdictReLane
<1>34. ASSUME NEW p \in Pids, RecordOutcome(p) PROVE VerdictInv'
  BY <1>34, VerdictRecordOutcome
<1>35. CASE UNCHANGED vars
  BY <1>35, VerdictUntouched DEF vars, disk, memory
<1> QED
  BY <1>1, <1>2, <1>3, <1>4, <1>5, <1>6, <1>7, <1>8, <1>9, <1>10,
     <1>11, <1>12, <1>13, <1>14, <1>15, <1>16, <1>17, <1>18, <1>19,
     <1>20, <1>21, <1>22, <1>23, <1>24, <1>25, <1>26, <1>27, <1>28,
     <1>29, <1>30, <1>31, <1>32, <1>33, <1>34, <1>35
     DEF Next, Dispatcher, Supervise, Recover, Walk, Finish

\* A dispatch published as done over the objection of its terminal verifier says
\* so, whether the walk or a resume finalized it.
THEOREM RejectionIsFlaggedAlways ==
  ASSUME MaxFreezes = 0, "plain" \notin Modes
  PROVE  Spec => []RejectionIsFlagged
<1>1. VerdictInv => RejectionIsFlagged
  BY DEF VerdictInv, Flagged, RejectionIsFlagged
<1>2. Init => RunsInv /\ VerdictInv
  BY RunsInit, VerdictInit
<1>3. Inv /\ RunsInv /\ VerdictInv /\ [Next]_vars => RunsInv' /\ VerdictInv'
  BY RunsStep, VerdictStep
<1> QED
  BY <1>1, <1>2, <1>3, InvHolds, PTL DEF Spec

\* A step that recovery blocked stays in the operator's sight, over any number of
\* crashes: no finalize, no later resume and no late dispatcher publishes the
\* dispatch as failed, deferred or done.
THEOREM BlockedIsPublishedAlways ==
  ASSUME MaxFreezes = 0, "plain" \notin Modes
  PROVE  Spec => []BlockedIsPublished
<1>1. VerdictInv => BlockedIsPublished
  BY DEF VerdictInv, BlockedIsPublished, AnyBlocked, Sighted
<1>2. Init => RunsInv /\ VerdictInv
  BY RunsInit, VerdictInit
<1>3. Inv /\ RunsInv /\ VerdictInv /\ [Next]_vars => RunsInv' /\ VerdictInv'
  BY RunsStep, VerdictStep
<1> QED
  BY <1>1, <1>2, <1>3, InvHolds, PTL DEF Spec
-----------------------------------------------------------------------------
(* Outcomes and receipts, of dispatches that run one step at a time: the   *)
(* chains, and any DAG under a concurrency of one.  Then a node returns     *)
(* only to the driver that waits for it, nothing has a receipt before it    *)
(* ran, and the outcome a driver is about to write is the receipt's.        *)

OneAtATime == MaxConcurrency = 1 \/ \A s \in Steps \ {1} : s - 1 \in Deps[s]

\* The receipt of the step's attempt succeeds, and fails, with this class, unless
\* it was lost.
Agrees(s, class) ==
  LET receipt == receipts[s][step[s].attempt]
  IN  \/ receipt = NoReceipt
      \/ /\ Ok(class) => Ok(receipt.class)
         /\ HardFailed(class) => HardFailed(receipt.class)

\* The attempt before failed, by its receipt, unless it was lost.
PriorFailed(s) ==
  step[s].attempt > 0 =>
    LET before == receipts[s][step[s].attempt - 1]
    IN  before = NoReceipt \/ HardFailed(before.class)

\* What a driver holds agrees with it.
Faithful(j, s) ==
  /\ j.at \in {"picked", "started", "running"} => receipts[s][step[s].attempt] = NoReceipt
  /\ j.at \in {"running", "returned"} => j.attempt = step[s].attempt
  /\ j.at \in {"probed", "returned", "relane", "record"} => Agrees(s, j.class)
  /\ j.at = "probed" /\ j.class = Pending => receipts[s][step[s].attempt] = NoReceipt
  /\ j.at = "relane" => HardFailed(j.class)

StepsFaithful ==
  \A s \in Steps :
    /\ \A a \in Attempts : a > step[s].attempt => receipts[s][a] = NoReceipt
    /\ step[s].class = Pending /\ ~ step[s].started => receipts[s][step[s].attempt] = NoReceipt
    /\ Ok(step[s].class) => Agrees(s, step[s].class)
    /\ PriorFailed(s)

Single(p) == \A s, t \in Steps : job[p][s].at # "idle" /\ job[p][t].at # "idle" => s = t

OutcomeInv ==
  /\ StepsFaithful
  /\ \A p \in Pids, s \in Steps : job[p][s].at = "running" => pc[p] = "wait"
  /\ \A p \in Pids : pc[p] \in Aware => \A s \in Steps : Faithful(job[p][s], s)
  /\ \A p \in Pids : pc[p] \in ExecutePcs => Single(p)

\* A chain never has two steps ready: all between them would be ok, and so the
\* first of them.
LEMMA OneReady ==
  ASSUME Inv, \A k \in Steps \ {1} : k - 1 \in Deps[k],
         NEW s \in ReadySet(step), NEW t \in ReadySet(step), s < t
  PROVE  FALSE
<1> DEFINE T == {k \in s .. (t - 1) : Ok(step[k].class)}
<1>1. s \in Steps /\ t \in Steps /\ s \in Nat /\ t \in Nat /\ s >= 1 /\ t <= NumSteps
  BY IRAssumption DEF ReadySet, Steps
<1>2. step[s].class = Pending /\ \A d \in Deps[t] : Ok(step[d].class)
  BY DEF ReadySet
<1>3. t - 1 \in T
  <2>1. t \in Steps \ {1}
    BY <1>1
  <2>2. Ok(step[t - 1].class)
    BY <1>2, <2>1
  <2>3. t - 1 \in s .. (t - 1)
    BY <1>1
  <2> QED
    BY <2>2, <2>3
<1> DEFINE R == {k \in s .. (t - 1) : \A i \in k .. (t - 1) : i \in T}
<1> HIDE DEF T
<1>4. R \in SUBSET Nat /\ R # {}
  <2>1. t - 1 \in s .. (t - 1) /\ (t - 1) .. (t - 1) = {t - 1}
    BY <1>1
  <2>2. t - 1 \in R
    BY <1>3, <2>1
  <2>3. \A k \in s .. (t - 1) : k \in Nat
    BY <1>1
  <2>4. R \subseteq s .. (t - 1)
    OBVIOUS
  <2> HIDE DEF R
  <2> QED
    BY <2>2, <2>3, <2>4
<1>5. PICK m \in R : \A n \in R : m <= n
  <2> HIDE DEF R
  <2> QED
    BY <1>4, LeastNatural
<1>6. m \in s .. (t - 1) /\ \A i \in m .. (t - 1) : i \in T
  OBVIOUS
<1>7. m \in T /\ m \in Int /\ s <= m /\ m <= t - 1
  BY <1>1, <1>6
<1>8. Ok(step[m].class) /\ m \in Steps
  BY <1>1, <1>7, IRAssumption DEF T, Steps
<1>9. m # s
  BY <1>2, <1>8, PendingNotOk
<1>10. m - 1 \in s .. (t - 1) /\ m # 1
  BY <1>1, <1>7, <1>9
<1>11. Ok(step[m - 1].class)
  <2>1. DepsOk(m)
    BY <1>8, PendingNotOk DEF Inv, WalkInv
  <2>2. m - 1 \in Deps[m]
    BY <1>8, <1>10
  <2> QED
    BY <2>1, <2>2 DEF DepsOk
<1>12. m - 1 \in T
  BY <1>10, <1>11 DEF T
<1>13. ASSUME NEW i \in (m - 1) .. (t - 1) PROVE i \in T
  <2>1. i = m - 1 \/ i \in m .. (t - 1)
    BY <1>7
  <2> QED
    BY <2>1, <1>6, <1>12
<1>14. m - 1 \in R
  BY <1>10, <1>13
<1>15. m <= m - 1
  BY <1>5, <1>14
<1> QED
  BY <1>7, <1>15

\* A wave of one lane at most has one step.
LEMMA OneLeader ==
  ASSUME NEW ready \in SUBSET Steps, NEW lane, NEW s \in PickWave(ready, lane, 1),
         NEW t \in PickWave(ready, lane, 1), s < t
  PROVE  FALSE
<1> DEFINE leads(u) == lane[u] = NoLane \/ \A v \in ready : v < u => lane[v] # lane[u]
           leaders  == {u \in ready : leads(u)}
           before   == {u \in leaders : u < t}
<1>1. s \in leaders /\ Cardinality(before) < 1
  BY DEF PickWave
<1>2. s \in before
  BY <1>1
<1>3. before \in SUBSET (1 .. NumSteps)
  BY DEF Steps
<1> HIDE DEF before
<1>4. IsFiniteSet(1 .. NumSteps)
  BY FS_Interval, IRAssumption
<1>5. IsFiniteSet(before)
  BY <1>3, <1>4, FS_Subset
<1>6. Cardinality(before) \in Nat
  BY <1>5, FS_CardinalityType
<1>7. Cardinality(before) = 0
  BY <1>1, <1>6
<1>8. before = {}
  BY <1>5, <1>7, FS_EmptySet
<1> QED
  BY <1>2, <1>8

LEMMA WaveOfOne ==
  ASSUME Inv, OneAtATime, NEW lane,
         NEW s \in PickWave(ReadySet(step), lane, MaxConcurrency),
         NEW t \in PickWave(ReadySet(step), lane, MaxConcurrency)
  PROVE  s = t
<1>1. s \in ReadySet(step) /\ t \in ReadySet(step)
  BY DEF PickWave
<1>2. s \in Int /\ t \in Int /\ ReadySet(step) \in SUBSET Steps
  BY <1>1 DEF ReadySet, Steps
<1>3. CASE MaxConcurrency = 1
  BY <1>2, <1>3, OneLeader
<1>4. CASE \A k \in Steps \ {1} : k - 1 \in Deps[k]
  BY <1>1, <1>2, <1>4, OneReady
<1> QED
  BY <1>3, <1>4 DEF OneAtATime

\* The types used here.
LEMMA OutcomeTypes ==
  ASSUME Inv
  PROVE  /\ \A s \in Steps : step[s].attempt \in Attempts /\ step[s].attempt \in Nat
         /\ \A s \in Steps, a \in Attempts :
              receipts[s][a] # NoReceipt => receipts[s][a].class \in Outcomes
<1>1. ASSUME NEW s \in Steps PROVE step[s].attempt \in Attempts /\ step[s].attempt \in Nat
  BY RunTypes, SupervisorAssumption DEF StepRecords, Attempts
<1>2. ASSUME NEW s \in Steps, NEW a \in Attempts, receipts[s][a] # NoReceipt
      PROVE  receipts[s][a].class \in Outcomes
  <2>1. receipts[s][a] \in Receipt
    BY RunTypes
  <2> QED
    BY <1>2, <2>1 DEF Receipt
<1> QED
  BY <1>1, <1>2

\* What one process does, as long as it alone drives or writes nothing ...
LEMMA OutcomeMove ==
  ASSUME Inv, OutcomeInv, NEW p \in Pids, NEW to, Go(p, to),
         \A q \in Pids \ {p} : job'[q] = job[q],
         pc[p] \in Driving \/ UNCHANGED <<step, receipts>>,
         StepsFaithful',
         \A s \in Steps : job'[p][s].at = "running" => to = "wait",
         to \in Aware => \A s \in Steps : Faithful(job[p][s], s)',
         to \in ExecutePcs => Single(p)'
  PROVE  OutcomeInv'
<1>1. \A q \in Pids : pc'[q] = IF q = p THEN to ELSE pc[q]
  BY RunTypes DEF Go
<1>2. ASSUME NEW q \in Pids, pc'[q] \in Aware, NEW s \in Steps PROVE Faithful(job[q][s], s)'
  <2>1. CASE q = p
    BY <1>1, <1>2, <2>1
  <2>2. CASE q # p
    <3>1. pc[q] \in Driving /\ Faithful(job[q][s], s) /\ job'[q] = job[q]
      BY <1>1, <1>2, <2>2 DEF OutcomeInv, Aware
    <3>2. UNCHANGED <<step, receipts>>
      BY <2>2, <3>1, Sole
    <3> QED
      BY <3>1, <3>2 DEF Faithful, Agrees
  <2> QED
    BY <2>1, <2>2
<1>3. \A q \in Pids : pc'[q] \in ExecutePcs => Single(q)'
  BY <1>1 DEF OutcomeInv, Single
<1>4. \A q \in Pids, s \in Steps : job'[q][s].at = "running" => pc'[q] = "wait"
  BY <1>1 DEF OutcomeInv
<1> QED
  BY <1>2, <1>3, <1>4 DEF OutcomeInv

\* ... and with an empty memory, or on the way out.
LEMMA OutcomeQuiet ==
  ASSUME Inv, OutcomeInv, RunsInv', NEW p \in Pids, NEW to \in Quiet, Go(p, to),
         \A q \in Pids \ {p} : job'[q] = job[q],
         pc[p] \in Driving \/ UNCHANGED <<step, receipts>>,
         StepsFaithful'
  PROVE  OutcomeInv'
<1>1. pc'[p] = to
  BY RunTypes DEF Go
<1>2. \A s \in Steps : job'[p][s].at = "idle"
  BY <1>1, Places DEF RunsInv, MemoryOK, Current, Aware, Driving, ResumePcs, ExecutePcs, Quiet
<1>3. \A s \in Steps : Faithful(job[p][s], s)'
  BY <1>2 DEF Faithful
<1>4. Single(p)'
  BY <1>2 DEF Single
<1> QED
  BY <1>2, <1>3, <1>4, OutcomeMove

LEMMA OutcomeGone ==
  ASSUME Inv, OutcomeInv, NEW p \in Pids, NEW to \in {"release", "off", "dead", "acquire", "load"},
         Go(p, to), \A q \in Pids \ {p} : job'[q] = job[q], UNCHANGED <<step, receipts>>,
         \A s \in Steps : job'[p][s].at # "running"
  PROVE  OutcomeInv'
<1>1. to \notin Aware /\ to \notin ExecutePcs
  BY DEF Aware, Driving, ResumePcs, ExecutePcs
<1>2. StepsFaithful'
  BY DEF OutcomeInv, StepsFaithful, Agrees, PriorFailed
<1> QED
  BY <1>1, <1>2, OutcomeMove

LEMMA OutcomeUntouched ==
  ASSUME OutcomeInv, UNCHANGED <<pc, job, step, receipts>>
  PROVE  OutcomeInv'
BY DEF OutcomeInv, StepsFaithful, Faithful, Agrees, PriorFailed, Single

\* A driver that changes one of its jobs, and what it knows of all.
LEMMA OutcomeJob ==
  ASSUME Inv, OutcomeInv, NEW p \in Pids, NEW s \in Steps, NEW j, SetJob(p, s, j),
         UNCHANGED <<step, receipts>>
  PROVE  /\ \A t \in Steps : job'[p][t] = IF t = s THEN j ELSE job[p][t]
         /\ \A q \in Pids \ {p} : job'[q] = job[q]
         /\ StepsFaithful'
<1>1. \A q \in Pids \ {p} : job'[q] = job[q]
  BY RunTypes DEF SetJob
<1>2. StepsFaithful'
  BY DEF OutcomeInv, StepsFaithful, Agrees, PriorFailed
<1> QED
  BY <1>1, <1>2, OneJob

LEMMA OutcomeResumeLoad ==
  ASSUME Inv, RunsInv, OutcomeInv, NEW p \in Pids, ResumeLoad(p)
  PROVE  OutcomeInv'
<1>1. \A s \in Steps : job'[p][s] =
         IF CrashWindow(s)
         THEN [Idle EXCEPT !.at = "window", !.attempt = step[s].attempt, !.lane = step[s].lane]
         ELSE Idle
  BY RunTypes DEF ResumeLoad
<1>2. \A s \in Steps : job'[p][s].at \in {"idle", "window"}
  BY <1>1, IdleIs DEF Job
<1>3. /\ Go(p, "reconcile") /\ UNCHANGED <<step, receipts>>
      /\ \A q \in Pids \ {p} : job'[q] = job[q]
  BY RunTypes DEF ResumeLoad, disk
<1>4. \A s \in Steps : Faithful(job[p][s], s)'
  BY <1>2 DEF Faithful
<1>5. StepsFaithful' /\ "reconcile" \notin ExecutePcs
  BY <1>3 DEF OutcomeInv, StepsFaithful, Agrees, PriorFailed, ExecutePcs
<1> QED
  BY <1>2, <1>3, <1>4, <1>5, OutcomeMove

\* What recovery reads off a receipt is what it says.
LEMMA OutcomeResumeProbe ==
  ASSUME Inv, RunsInv, OutcomeInv, NEW p \in Pids, ResumeProbe(p)
  PROVE  OutcomeInv'
<1>1. /\ pc[p] = "reconcile" /\ pc[p] \in Driving /\ "reconcile" \in Aware /\ pc' = pc
      /\ UNCHANGED <<step, receipts>>
  BY DEF ResumeProbe, disk, Driving, Aware, ResumePcs, ExecutePcs
<1>2. PICK s \in First(At(p, "window")) :
         SetJob(p, s, [job[p][s] EXCEPT !.at = "probed",
                         !.class = RecoveredClass(job[p][s], receipts[s][job[p][s].attempt])])
  BY DEF ResumeProbe
<1>3. s \in Steps /\ job[p][s].at = "window"
  BY DEF First, At
<1>4. PICK j : j = [job[p][s] EXCEPT !.at = "probed",
                      !.class = RecoveredClass(job[p][s], receipts[s][job[p][s].attempt])]
  OBVIOUS
<1>5. j.at = "probed" /\ j.class = RecoveredClass(job[p][s], receipts[s][job[p][s].attempt])
  BY <1>3, <1>4, RunTypes DEF Job
<1>6. job[p][s].attempt = step[s].attempt
  BY <1>1, <1>3 DEF RunsInv, MemoryOK, Current, TrueOf
<1>7. /\ \A t \in Steps : job'[p][t] = IF t = s THEN j ELSE job[p][t]
      /\ \A q \in Pids \ {p} : job'[q] = job[q]
      /\ StepsFaithful'
  BY <1>1, <1>2, <1>3, <1>4, OutcomeJob
<1>8. Agrees(s, j.class)
  BY <1>5, <1>6 DEF Agrees, RecoveredClass
<1>12. j.class = Pending => receipts[s][step[s].attempt] = NoReceipt
  BY <1>3, <1>5, <1>6, OutcomeTypes, RunClassIs DEF RecoveredClass
<1>9. \A t \in Steps : Faithful(job[p][t], t)'
  BY <1>1, <1>5, <1>7, <1>8, <1>12 DEF OutcomeInv, Faithful, Agrees
<1>10. \A t \in Steps : job'[p][t].at # "running"
  BY <1>1, <1>5, <1>7 DEF OutcomeInv
<1>11. Go(p, "reconcile") /\ "reconcile" \notin ExecutePcs
  BY <1>1, RunTypes DEF Go, ExecutePcs
<1> QED
  BY <1>1, <1>7, <1>9, <1>10, <1>11, OutcomeMove

LEMMA OutcomeResumeApply ==
  ASSUME Inv, RunsInv, OutcomeInv, NEW p \in Pids, ResumeApply(p)
  PROVE  OutcomeInv'
<1>1. /\ pc[p] = "reconcile" /\ pc[p] \in Driving /\ pc[p] \in Aware /\ pc' = pc
      /\ receipts' = receipts
  BY DEF ResumeApply, Driving, Aware, ResumePcs, ExecutePcs
<1>2. PICK s \in At(p, "probed") :
        /\ step' = [step EXCEPT ![s].class = job[p][s].class,
                                ![s].started = @ /\ job[p][s].class # Pending]
        /\ SetJob(p, s, [Idle EXCEPT !.at = IF job[p][s].class = "blocked" THEN "blocked"
                                            ELSE "idle"])
  BY DEF ResumeApply
<1>3. s \in Steps /\ job[p][s].at = "probed"
  BY DEF At
<1>4. Agrees(s, job[p][s].class)
  BY <1>1, <1>3 DEF OutcomeInv, Faithful
<1>5. /\ \A t \in Steps : step'[t].attempt = step[t].attempt
      /\ \A t \in Steps \ {s} : step'[t] = step[t]
      /\ step'[s].class = job[p][s].class
  BY <1>2, <1>3, RunTypes DEF StepRecords
<1>6. job[p][s].class = Pending => receipts[s][step[s].attempt] = NoReceipt
  BY <1>1, <1>3 DEF OutcomeInv, Faithful
<1>7. StepsFaithful'
  <2>1. ASSUME NEW t \in Steps, NEW a \in Attempts, a > step'[t].attempt
        PROVE  receipts'[t][a] = NoReceipt
    BY <1>1, <1>5, <2>1 DEF OutcomeInv, StepsFaithful
  <2>2. ASSUME NEW t \in Steps, step'[t].class = Pending, ~ step'[t].started
        PROVE  receipts'[t][step'[t].attempt] = NoReceipt
    BY <1>1, <1>5, <1>6, <2>2 DEF OutcomeInv, StepsFaithful
  <2>3. ASSUME NEW t \in Steps, Ok(step'[t].class)
        PROVE  Agrees(t, step[t].class)'
    BY <1>1, <1>4, <1>5, <2>3 DEF OutcomeInv, StepsFaithful, Agrees, PriorFailed
  <2>4. ASSUME NEW t \in Steps PROVE PriorFailed(t)'
    BY <1>1, <1>5 DEF OutcomeInv, StepsFaithful, PriorFailed
  <2> QED
    BY <2>1, <2>2, <2>3, <2>4 DEF StepsFaithful
<1>8. PICK j : j = [Idle EXCEPT !.at = IF job[p][s].class = "blocked" THEN "blocked" ELSE "idle"]
  OBVIOUS
<1>9. j.at \in {"blocked", "idle"}
  BY <1>8 DEF Idle
<1>10. \A t \in Steps : job'[p][t] = IF t = s THEN j ELSE job[p][t]
  BY <1>2, <1>3, <1>8, OneJob
<1>11. \A q \in Pids \ {p} : job'[q] = job[q]
  BY <1>2, RunTypes DEF SetJob
<1>12. \A t \in Steps : Faithful(job[p][t], t)'
  BY <1>1, <1>5, <1>9, <1>10 DEF OutcomeInv, Faithful, Agrees
<1>13. \A t \in Steps : job'[p][t].at # "running"
  BY <1>1, <1>9, <1>10 DEF OutcomeInv
<1>14. Go(p, "reconcile") /\ "reconcile" \notin ExecutePcs
  BY <1>1, RunTypes DEF Go, ExecutePcs
<1> QED
  BY <1>1, <1>7, <1>11, <1>12, <1>13, <1>14, OutcomeMove

\* What a wave picks has no receipt yet, and a wave picks one step.
LEMMA OutcomeComposeWave ==
  ASSUME Inv, RunsInv, OutcomeInv, OneAtATime, NEW p \in Pids, ComposeWave(p)
  PROVE  OutcomeInv'
<1>1. /\ pc[p] = "loop" /\ pc[p] \in Aware /\ Go(p, "start") /\ UNCHANGED <<step, receipts>>
  BY DEF ComposeWave, disk, Driving, Aware, ResumePcs, ExecutePcs
<1>2. PICK lane : job' = [job EXCEPT ![p] = [s \in Steps |->
               IF s \in PickWave(ReadySet(step), lane, MaxConcurrency)
               THEN [Idle EXCEPT !.at = "picked", !.attempt = step[s].attempt]
               ELSE Idle]]
  BY DEF ComposeWave
<1> DEFINE wave == PickWave(ReadySet(step), lane, MaxConcurrency)
<1>3. \A s \in Steps : job'[p][s] =
         IF s \in wave THEN [Idle EXCEPT !.at = "picked", !.attempt = step[s].attempt]
         ELSE Idle
  BY <1>2, RunTypes
<1>4. \A s, t \in wave : s = t
  BY WaveOfOne
<1>5. \A s \in wave : s \in Steps /\ step[s].class = Pending
  BY DEF PickWave, ReadySet
<1>6. \A q \in Pids \ {p} : job'[q] = job[q]
  BY <1>2, RunTypes
<1> HIDE DEF wave
<1>7. \A s \in Steps : IF s \in wave THEN job'[p][s].at = "picked" ELSE job'[p][s].at = "idle"
  BY <1>3, IdleIs DEF Job
<1>8. ASSUME NEW s \in wave PROVE receipts[s][step[s].attempt] = NoReceipt
  <2>1. ~ CrashWindow(s)
    BY <1>1, <1>5, MovesIdle DEF Quiet, RunsInv, MemoryOK, Current, TrueOf, Held
  <2> QED
    BY <1>5, <2>1 DEF CrashWindow, OutcomeInv, StepsFaithful
<1>9. \A s \in Steps : Faithful(job[p][s], s)'
  BY <1>1, <1>7, <1>8 DEF Faithful
<1>10. Single(p)'
  BY <1>4, <1>7 DEF Single
<1>11. \A s \in Steps : job'[p][s].at # "running"
  BY <1>7
<1>12. StepsFaithful'
  BY <1>1 DEF OutcomeInv, StepsFaithful, Agrees, PriorFailed
<1> QED
  BY <1>1, <1>6, <1>9, <1>10, <1>11, <1>12, OutcomeMove

\* Marking starts the attempt that was picked.
LEMMA OutcomeMarkStarted ==
  ASSUME Inv, RunsInv, OutcomeInv, NEW p \in Pids, MarkStarted(p)
  PROVE  OutcomeInv'
<1>1. /\ pc[p] = "start" /\ pc[p] \in Driving /\ pc[p] \in Aware /\ pc[p] \in ExecutePcs
      /\ Go(p, "launch") /\ receipts' = receipts
  BY DEF MarkStarted, Driving, Aware, ResumePcs, ExecutePcs
<1>2. PICK s, lane :
        /\ s \in First(At(p, "picked"))
        /\ step' = [step EXCEPT ![s].started = TRUE,
                                ![s].attempt = job[p][s].attempt,
                                ![s].lane = lane]
        /\ SetJob(p, s, [job[p][s] EXCEPT !.at = "started", !.lane = lane])
  BY DEF MarkStarted
<1>3. s \in Steps /\ job[p][s].at = "picked"
  BY <1>2 DEF First, At
<1>4. job[p][s].attempt = step[s].attempt
  BY <1>1, <1>3 DEF RunsInv, MemoryOK, Current, TrueOf
<1>5. receipts[s][step[s].attempt] = NoReceipt
  BY <1>1, <1>3 DEF OutcomeInv, Faithful
<1>6. /\ \A t \in Steps : step'[t].attempt = step[t].attempt /\ step'[t].class = step[t].class
      /\ \A t \in Steps \ {s} : step'[t] = step[t]
  BY <1>2, <1>3, <1>4, RunTypes DEF StepRecords
<1>7. StepsFaithful'
  <2>1. ASSUME NEW t \in Steps, NEW a \in Attempts, a > step'[t].attempt
        PROVE  receipts'[t][a] = NoReceipt
    BY <1>1, <1>6, <2>1 DEF OutcomeInv, StepsFaithful
  <2>2. ASSUME NEW t \in Steps, step'[t].class = Pending, ~ step'[t].started
        PROVE  receipts'[t][step'[t].attempt] = NoReceipt
    BY <1>1, <1>5, <1>6, <2>2 DEF OutcomeInv, StepsFaithful
  <2>3. ASSUME NEW t \in Steps, Ok(step'[t].class)
        PROVE  Agrees(t, step[t].class)'
    BY <1>1, <1>6, <2>3 DEF OutcomeInv, StepsFaithful, Agrees, PriorFailed
  <2>4. ASSUME NEW t \in Steps PROVE PriorFailed(t)'
    BY <1>1, <1>6 DEF OutcomeInv, StepsFaithful, PriorFailed
  <2> QED
    BY <2>1, <2>2, <2>3, <2>4 DEF StepsFaithful
<1>8. PICK j : j = [job[p][s] EXCEPT !.at = "started", !.lane = lane]
  OBVIOUS
<1>9. j.at = "started"
  BY <1>3, <1>8, RunTypes DEF Job
<1>10. \A t \in Steps : job'[p][t] = IF t = s THEN j ELSE job[p][t]
  BY <1>2, <1>3, <1>8, OneJob
<1>11. \A q \in Pids \ {p} : job'[q] = job[q]
  BY <1>2, RunTypes DEF SetJob
<1>12. \A t \in Steps : Faithful(job[p][t], t)'
  BY <1>1, <1>5, <1>6, <1>9, <1>10 DEF OutcomeInv, Faithful, Agrees
<1>13. \A t \in Steps : job'[p][t].at # "running"
  BY <1>1, <1>9, <1>10 DEF OutcomeInv
<1>14. Single(p)'
  BY <1>1, <1>3, <1>9, <1>10 DEF OutcomeInv, Single
<1> QED
  BY <1>1, <1>7, <1>11, <1>12, <1>13, <1>14, OutcomeMove

\* The only node of its wave is launched, and waited for.
LEMMA OutcomeLaunch ==
  ASSUME Inv, RunsInv, OutcomeInv, NEW p \in Pids, Launch(p)
  PROVE  OutcomeInv'
<1>1. /\ pc[p] = "launch" /\ pc[p] \in Driving /\ pc[p] \in Aware /\ pc[p] \in ExecutePcs
      /\ UNCHANGED <<step, receipts>>
  BY DEF Launch, disk, Driving, Aware, ResumePcs, ExecutePcs
<1>2. PICK s, lane :
        /\ s \in At(p, "started")
        /\ SetJob(p, s, [job[p][s] EXCEPT !.at = "running", !.lane = lane])
  BY DEF Launch
<1>3. s \in Steps /\ job[p][s].at = "started"
  BY <1>2 DEF At
<1>4. Single(p)
  BY <1>1 DEF OutcomeInv
<1>5. Go(p, "wait")
  <2>1. At(p, "picked") = {}
    BY <1>3, <1>4 DEF At, Single
  <2> QED
    BY <2>1 DEF Launch
<1>6. PICK j : j = [job[p][s] EXCEPT !.at = "running", !.lane = lane]
  OBVIOUS
<1>7. j.at = "running" /\ j.attempt = job[p][s].attempt
  BY <1>3, <1>6, RunTypes DEF Job
<1>8. job[p][s].attempt = step[s].attempt
  BY <1>1, <1>3 DEF RunsInv, MemoryOK, Current, TrueOf
<1>9. /\ \A t \in Steps : job'[p][t] = IF t = s THEN j ELSE job[p][t]
      /\ \A q \in Pids \ {p} : job'[q] = job[q]
      /\ StepsFaithful'
  BY <1>1, <1>2, <1>3, <1>6, OutcomeJob
<1>10. \A t \in Steps : Faithful(job[p][t], t)'
  BY <1>1, <1>3, <1>7, <1>8, <1>9 DEF OutcomeInv, Faithful, Agrees
<1>11. Single(p)'
  BY <1>3, <1>4, <1>7, <1>9 DEF Single
<1> QED
  BY <1>1, <1>5, <1>9, <1>10, <1>11, OutcomeMove

\* The receipt is appended, or lost, before the driver hears of the result.
LEMMA OutcomeNodeReturns ==
  ASSUME Inv, RunsInv, OutcomeInv, NEW p \in Pids, NEW s \in Steps, NodeReturns(p, s)
  PROVE  OutcomeInv'
<1>1. job[p][s].at = "running" /\ pc' = pc /\ step' = step
  BY DEF NodeReturns, disk
<1>2. pc[p] = "wait" /\ pc[p] \in Driving /\ pc[p] \in Aware /\ pc[p] \in ExecutePcs
  BY <1>1 DEF OutcomeInv, Driving, Aware, ResumePcs, ExecutePcs
<1>3. PICK class \in Outcomes, said \in Outcomes, verdict \in Verdicts, kept \in BOOLEAN :
        /\ receipts' = IF kept
                       THEN [receipts EXCEPT ![s][job[p][s].attempt] =
                               [lane |-> job[p][s].lane, class |-> said]]
                       ELSE receipts
        /\ SetJob(p, s, [job[p][s] EXCEPT !.at = "returned", !.verdict = verdict,
                                          !.class = class])
        /\ kept => /\ Ok(class) => Ok(said)
                   /\ HardFailed(class) => HardFailed(said)
  BY <1>2, NodeOutcome, Zenon DEF Inv
<1>4. /\ job[p][s].attempt = step[s].attempt /\ step[s].attempt \in Attempts
      /\ receipts[s][step[s].attempt] = NoReceipt
  BY <1>1, <1>2, OutcomeTypes DEF OutcomeInv, Faithful
<1>5. step[s].started /\ step[s].class = Pending
  BY <1>1, <1>2 DEF RunsInv, MemoryOK, Current, TrueOf, Held, CrashWindow
<1> DEFINE r == [lane |-> job[p][s].lane, class |-> said]
<1>6. r.class = said
  OBVIOUS
<1>7. \A t \in Steps, a \in Attempts :
        receipts'[t][a] = IF kept /\ t = s /\ a = step[s].attempt THEN r ELSE receipts[t][a]
  BY <1>3, <1>4, RunTypes
<1> HIDE DEF r
<1>8. StepsFaithful'
  <2>1. ASSUME NEW t \in Steps, NEW a \in Attempts, a > step'[t].attempt
        PROVE  receipts'[t][a] = NoReceipt
    <3>1. ~ (t = s /\ a = step[s].attempt)
      BY <1>1, <2>1, OutcomeTypes
    <3> QED
      BY <1>1, <1>7, <2>1, <3>1 DEF OutcomeInv, StepsFaithful
  <2>2. ASSUME NEW t \in Steps, step'[t].class = Pending, ~ step'[t].started
        PROVE  receipts'[t][step'[t].attempt] = NoReceipt
    BY <1>1, <1>5, <1>7, <2>2, OutcomeTypes DEF OutcomeInv, StepsFaithful
  <2>3. ASSUME NEW t \in Steps, Ok(step'[t].class)
        PROVE  Agrees(t, step[t].class)'
    <3>1. t # s
      BY <1>1, <1>5, <2>3, PendingNotOk
    <3>2. receipts'[t][step[t].attempt] = receipts[t][step[t].attempt]
      BY <1>7, <3>1, OutcomeTypes
    <3> QED
      BY <1>1, <2>3, <3>2 DEF OutcomeInv, StepsFaithful, Agrees, PriorFailed
  <2>4. ASSUME NEW t \in Steps, step'[t].attempt > 0 PROVE PriorFailed(t)'
    <3>1. step[t].attempt - 1 \in Attempts /\ step[t].attempt - 1 # step[t].attempt
      BY <1>1, <2>4, OutcomeTypes, SupervisorAssumption DEF Attempts
    <3>2. receipts'[t][step[t].attempt - 1] = receipts[t][step[t].attempt - 1]
      BY <1>7, <3>1
    <3> QED
      BY <1>1, <2>4, <3>2 DEF OutcomeInv, StepsFaithful, PriorFailed
  <2> QED
    BY <2>1, <2>2, <2>3, <2>4 DEF StepsFaithful, PriorFailed
<1>9. PICK j : j = [job[p][s] EXCEPT !.at = "returned", !.verdict = verdict, !.class = class]
  OBVIOUS
<1>10. j.at = "returned" /\ j.class = class /\ j.attempt = step[s].attempt
  BY <1>4, <1>9, RunTypes DEF Job
<1>11. \A t \in Steps : job'[p][t] = IF t = s THEN j ELSE job[p][t]
  BY <1>3, <1>9, OneJob
<1>12. \A q \in Pids \ {p} : job'[q] = job[q]
  BY <1>3, RunTypes DEF SetJob
<1>13. Single(p)'
  BY <1>1, <1>2, <1>10, <1>11 DEF OutcomeInv, Single
<1>14. Agrees(s, j.class)'
  BY <1>1, <1>3, <1>4, <1>6, <1>7, <1>10 DEF Agrees
<1>15. ASSUME NEW t \in Steps PROVE Faithful(job[p][t], t)'
  <2>1. CASE t = s
    BY <1>1, <1>10, <1>11, <1>14, <2>1 DEF Faithful, Agrees
  <2>2. CASE t # s
    <3>1. job'[p][t].at = "idle"
      BY <1>1, <1>2, <1>11, <2>2 DEF OutcomeInv, Single
    <3> QED
      BY <3>1 DEF Faithful
  <2> QED
    BY <2>1, <2>2
<1>16. Go(p, "wait")
  BY <1>1, <1>2, RunTypes DEF Go
<1> QED
  BY <1>2, <1>8, <1>12, <1>13, <1>15, <1>16, OutcomeMove

LEMMA OutcomePersistLoad ==
  ASSUME Inv, RunsInv, OutcomeInv, NEW p \in Pids, PersistLoad(p)
  PROVE  OutcomeInv'
<1>1. /\ pc[p] = "wait" /\ pc[p] \in Driving /\ pc[p] \in Aware /\ pc[p] \in ExecutePcs
      /\ Go(p, "persist") /\ UNCHANGED <<step, receipts>>
  BY DEF PersistLoad, disk, Driving, Aware, ResumePcs, ExecutePcs
<1>2. PICK s \in First(At(p, "returned")), to \in {"relane", "record"} :
        /\ SetJob(p, s, [job[p][s] EXCEPT !.at = to, !.attempt = step[s].attempt])
        /\ to = "relane" => HardFailed(job[p][s].class)
  BY DEF PersistLoad, MayReLane
<1>3. s \in Steps /\ job[p][s].at = "returned"
  BY DEF First, At
<1>4. PICK j : j = [job[p][s] EXCEPT !.at = to, !.attempt = step[s].attempt]
  OBVIOUS
<1>5. j.at = to /\ j.class = job[p][s].class
  BY <1>3, <1>4, RunTypes DEF Job
<1>6. /\ \A t \in Steps : job'[p][t] = IF t = s THEN j ELSE job[p][t]
      /\ \A q \in Pids \ {p} : job'[q] = job[q]
      /\ StepsFaithful'
  BY <1>1, <1>2, <1>3, <1>4, OutcomeJob
<1>7. Agrees(s, j.class)
  BY <1>1, <1>3, <1>5 DEF OutcomeInv, Faithful
<1>8. \A t \in Steps : Faithful(job[p][t], t)'
  BY <1>1, <1>2, <1>5, <1>6, <1>7 DEF OutcomeInv, Faithful, Agrees
<1>9. Single(p)'
  BY <1>1, <1>3, <1>5, <1>6 DEF OutcomeInv, Single
<1>10. \A t \in Steps : job'[p][t].at # "running"
  BY <1>1, <1>5, <1>6 DEF PersistLoad, InFlight, At
<1> QED
  BY <1>1, <1>6, <1>8, <1>9, <1>10, OutcomeMove

\* The step whose outcome was persisted was the last of its wave.
LEMMA OutcomePersisted ==
  ASSUME Inv, RunsInv, OutcomeInv, NEW p \in Pids, pc[p] = "persist", AfterPersist(p),
         NEW s \in Steps, job[p][s].at # "idle", SetJob(p, s, Idle), RunsInv', StepsFaithful'
  PROVE  OutcomeInv'
<1>1. pc[p] \in Driving /\ pc[p] \in Aware /\ pc[p] \in ExecutePcs
  BY DEF Driving, Aware, ResumePcs, ExecutePcs
<1>2. \A t \in Steps : t # s => job[p][t].at = "idle"
  BY <1>1 DEF OutcomeInv, Single
<1>3. Go(p, "wait") \/ Go(p, "loop")
  BY DEF AfterPersist
<1>4. \A t \in Steps : job'[p][t] = IF t = s THEN Idle ELSE job[p][t]
  BY OneJob
<1>5. \A t \in Steps : job'[p][t].at = "idle"
  BY <1>2, <1>4, IdleIs
<1>6. \A q \in Pids \ {p} : job'[q] = job[q]
  BY RunTypes DEF SetJob
<1>7. (\A t \in Steps : Faithful(job[p][t], t)') /\ Single(p)'
  BY <1>5 DEF Faithful, Single
<1> QED
  BY <1>1, <1>3, <1>5, <1>6, <1>7, OutcomeMove

\* The next attempt has no receipt yet.
LEMMA OutcomeReLane ==
  ASSUME Inv, RunsInv, OutcomeInv, RunsInv', NEW p \in Pids, ReLane(p)
  PROVE  OutcomeInv'
<1>1. pc[p] = "persist" /\ pc[p] \in Aware /\ receipts' = receipts /\ AfterPersist(p)
  BY DEF ReLane, Driving, Aware, ResumePcs, ExecutePcs
<1>2. PICK s \in At(p, "relane") :
        /\ step' = [step EXCEPT ![s].attempt = job[p][s].attempt + 1,
                                ![s].class = Pending,
                                ![s].started = FALSE]
        /\ SetJob(p, s, Idle)
  BY DEF ReLane
<1>3. s \in Steps /\ job[p][s].at = "relane"
  BY DEF At
<1>4. job[p][s].attempt = step[s].attempt
  BY <1>1, <1>3 DEF RunsInv, MemoryOK, Current, TrueOf
<1>5. /\ \A t \in Steps \ {s} : step'[t] = step[t]
      /\ step'[s].attempt = step[s].attempt + 1 /\ step'[s].class = Pending
  BY <1>2, <1>3, <1>4, RunTypes DEF StepRecords
<1>6. step[s].attempt + 1 \in Attempts
  <2>1. step[s].attempt < ReLaneMaxDepth
    BY <1>3, <1>4 DEF Inv, TypeInv, JobsInRange
  <2> QED
    BY <1>3, <2>1, OutcomeTypes, SupervisorAssumption DEF Attempts
<1>7. \A a \in Attempts : a > step[s].attempt => receipts[s][a] = NoReceipt
  BY <1>3 DEF OutcomeInv, StepsFaithful
<1>8. step[s].attempt \in Nat /\ \A a \in Attempts : a \in Nat
  BY <1>3, OutcomeTypes, SupervisorAssumption DEF Attempts
<1>9. StepsFaithful'
  <2>1. ASSUME NEW t \in Steps, NEW a \in Attempts, a > step'[t].attempt
        PROVE  receipts'[t][a] = NoReceipt
    <3>1. CASE t = s
      BY <1>1, <1>5, <1>7, <1>8, <2>1, <3>1
    <3>2. CASE t # s
      BY <1>1, <1>5, <2>1, <3>2 DEF OutcomeInv, StepsFaithful
    <3> QED
      BY <3>1, <3>2
  <2>2. ASSUME NEW t \in Steps, step'[t].class = Pending, ~ step'[t].started
        PROVE  receipts'[t][step'[t].attempt] = NoReceipt
    <3>1. CASE t = s
      BY <1>1, <1>5, <1>6, <1>7, <1>8, <3>1
    <3>2. CASE t # s
      BY <1>1, <1>5, <2>2, <3>2 DEF OutcomeInv, StepsFaithful
    <3> QED
      BY <3>1, <3>2
  <2>3. ASSUME NEW t \in Steps, Ok(step'[t].class)
        PROVE  Agrees(t, step[t].class)'
    <3>1. t # s
      BY <1>5, <2>3, PendingNotOk
    <3> QED
      BY <1>1, <1>5, <2>3, <3>1 DEF OutcomeInv, StepsFaithful, Agrees, PriorFailed
  <2>4. ASSUME NEW t \in Steps PROVE PriorFailed(t)'
    <3>1. CASE t = s
      <4>1. /\ HardFailed(job[p][s].class)
            /\ Agrees(s, job[p][s].class)
        BY <1>1, <1>3 DEF OutcomeInv, Faithful
      <4>2. step'[s].attempt - 1 = step[s].attempt
        BY <1>5, <1>8
      <4> QED
        BY <1>1, <3>1, <4>1, <4>2 DEF PriorFailed, Agrees
    <3>2. CASE t # s
      BY <1>1, <1>5, <3>2 DEF OutcomeInv, StepsFaithful, PriorFailed
    <3> QED
      BY <3>1, <3>2
  <2> QED
    BY <2>1, <2>2, <2>3, <2>4 DEF StepsFaithful
<1> QED
  BY <1>1, <1>2, <1>3, <1>9, OutcomePersisted

\* An outcome is recorded as its node returned it.
LEMMA OutcomeRecordOutcome ==
  ASSUME Inv, RunsInv, OutcomeInv, RunsInv', NEW p \in Pids, RecordOutcome(p)
  PROVE  OutcomeInv'
<1>1. pc[p] = "persist" /\ pc[p] \in Aware /\ receipts' = receipts /\ AfterPersist(p)
  BY DEF RecordOutcome, Driving, Aware, ResumePcs, ExecutePcs
<1>2. PICK s \in At(p, "record") :
        /\ step' = [step EXCEPT ![s].class = job[p][s].class,
                                ![s].ref = TRUE,
                                ![s].lane = job[p][s].lane,
                                ![s].verdict = IF job[p][s].verdict # ""
                                               THEN job[p][s].verdict ELSE @]
        /\ SetJob(p, s, Idle)
  BY DEF RecordOutcome
<1>3. s \in Steps /\ job[p][s].at = "record"
  BY DEF At
<1>4. Agrees(s, job[p][s].class) /\ job[p][s].class # Pending
  BY <1>1, <1>3, RunClassIs DEF OutcomeInv, Faithful, RunsInv, MemoryOK, Current, TrueOf
<1>5. /\ \A t \in Steps : step'[t].attempt = step[t].attempt
      /\ \A t \in Steps \ {s} : step'[t] = step[t]
      /\ step'[s].class = job[p][s].class
  <2> DEFINE ref == TRUE
             verdict == IF job[p][s].verdict # "" THEN job[p][s].verdict ELSE step[s].verdict
             mine == [step[s] EXCEPT !.class = job[p][s].class, !.ref = ref,
                                     !.lane = job[p][s].lane, !.verdict = verdict]
  <2>1. step' = [step EXCEPT ![s] = mine]
    BY <1>2, <1>3, RunTypes
  <2> HIDE DEF ref, verdict
  <2>2. mine.class = job[p][s].class /\ mine.attempt = step[s].attempt
    BY <1>3, RunTypes DEF StepRecords
  <2> HIDE DEF mine
  <2> QED
    BY <1>3, <2>1, <2>2, RunTypes
<1>6. StepsFaithful'
  <2>1. ASSUME NEW t \in Steps, NEW a \in Attempts, a > step'[t].attempt
        PROVE  receipts'[t][a] = NoReceipt
    BY <1>1, <1>5, <2>1 DEF OutcomeInv, StepsFaithful
  <2>2. ASSUME NEW t \in Steps, step'[t].class = Pending, ~ step'[t].started
        PROVE  receipts'[t][step'[t].attempt] = NoReceipt
    BY <1>1, <1>4, <1>5, <2>2 DEF OutcomeInv, StepsFaithful
  <2>3. ASSUME NEW t \in Steps, Ok(step'[t].class)
        PROVE  Agrees(t, step[t].class)'
    BY <1>1, <1>4, <1>5, <2>3 DEF OutcomeInv, StepsFaithful, Agrees, PriorFailed
  <2>4. ASSUME NEW t \in Steps PROVE PriorFailed(t)'
    BY <1>1, <1>5 DEF OutcomeInv, StepsFaithful, PriorFailed
  <2> QED
    BY <2>1, <2>2, <2>3, <2>4 DEF StepsFaithful
<1> QED
  BY <1>1, <1>2, <1>3, <1>6, OutcomePersisted

\* A driver that fails or dies leaves no node behind.
LEMMA OutcomeWriteFails ==
  ASSUME Inv, OutcomeInv, NEW p \in Pids, WriteFails(p)
  PROVE  OutcomeInv'
<1>1. /\ Go(p, "release") /\ UNCHANGED <<step, receipts>>
      /\ \A q \in Pids \ {p} : job'[q] = job[q]
  BY DEF WriteFails, disk, memory
<1>2. \A s \in Steps : job'[p][s].at # "running"
  BY DEF WriteFails, memory, OutcomeInv, InFlight, At
<1> QED
  BY <1>1, <1>2, OutcomeGone

LEMMA OutcomeForget ==
  ASSUME Inv, OutcomeInv, NEW p \in Pids, NEW to \in {"release", "off", "dead", "acquire", "load"},
         Go(p, to), UNCHANGED <<step, receipts>>,
         job' = [job EXCEPT ![p] = [s \in Steps |-> Idle]]
  PROVE  OutcomeInv'
<1>1. \A s \in Steps : job'[p][s].at # "running"
  BY RunTypes, IdleIs
<1>2. \A q \in Pids \ {p} : job'[q] = job[q]
  BY RunTypes
<1> QED
  BY <1>1, <1>2, OutcomeGone

LEMMA OutcomeReleaseLease ==
  ASSUME Inv, OutcomeInv, NEW p \in Pids, ReleaseLease(p)
  PROVE  OutcomeInv'
<1>1. pc[p] = "release" /\ Go(p, "off") /\ UNCHANGED <<step, receipts>>
  BY DEF ReleaseLease
<1>2. \A s \in Steps : job'[p][s] = IF job[p][s].at = "running" THEN job[p][s] ELSE Idle
  BY RunTypes DEF ReleaseLease
<1>3. \A s \in Steps : job'[p][s].at # "running"
  BY <1>1, <1>2, IdleIs DEF OutcomeInv
<1>4. \A q \in Pids \ {p} : job'[q] = job[q]
  BY RunTypes DEF ReleaseLease
<1> QED
  BY <1>1, <1>3, <1>4, OutcomeGone

\* A driver that only moves on, with nothing running.
LEMMA OutcomeWalksOn ==
  ASSUME Inv, OutcomeInv, RunsInv', NEW p \in Pids, pc[p] # "wait",
         NEW to \in Quiet \cup {"release", "off", "load"}, Go(p, to),
         UNCHANGED <<job, step, receipts>>
  PROVE  OutcomeInv'
<1>1. StepsFaithful' /\ \A s \in Steps : job'[p][s].at # "running"
  BY DEF OutcomeInv, StepsFaithful, Agrees, PriorFailed
<1>2. CASE to \in Quiet
  BY <1>1, <1>2, OutcomeQuiet
<1>3. CASE to \in {"release", "off", "load"}
  BY <1>1, <1>3, OutcomeGone
<1> QED
  BY <1>2, <1>3

LEMMA OutcomeInit == Init => OutcomeInv
<1> SUFFICES ASSUME Init PROVE OutcomeInv
  OBVIOUS
<1>1. \A p \in Pids : pc[p] = "off" /\ \A s \in Steps : job[p][s].at = "idle"
  BY IdleIs DEF Init
<1>2. \A s \in Steps : step[s].attempt = 0 /\ step[s].class = Pending
  BY DEF Init, FreshStep
<1>3. \A s \in Steps, a \in Attempts : receipts[s][a] = NoReceipt
  BY DEF Init
<1>4. 0 \in Attempts /\ "off" \notin Aware /\ "off" \notin ExecutePcs
  BY SupervisorAssumption DEF Attempts, Aware, Driving, ResumePcs, ExecutePcs
<1> QED
  BY <1>1, <1>2, <1>3, <1>4, PendingNotOk DEF OutcomeInv, StepsFaithful, PriorFailed

LEMMA OutcomeStep ==
  ASSUME OneAtATime
  PROVE  Inv /\ RunsInv /\ RunsInv' /\ OutcomeInv /\ [Next]_vars => OutcomeInv'
<1> SUFFICES ASSUME Inv, RunsInv, RunsInv', OutcomeInv, [Next]_vars PROVE OutcomeInv'
  OBVIOUS
<1>1. CASE UNCHANGED vars
  BY <1>1, OutcomeUntouched DEF vars, disk, memory
<1>2. CASE Spawn
  BY <1>2, OutcomeForget, SupervisorAssumption DEF Spawn, disk
<1>3. CASE SpawnFails \/ MarkWorking \/ RequestCancel \/ Lapse \/ Freeze
  BY <1>3, OutcomeUntouched DEF SpawnFails, MarkWorking, RequestCancel, Lapse, Freeze, disk, memory
<1>4. ASSUME NEW p \in Pids, NEW mode \in Modes, StartDrive(p, mode) PROVE OutcomeInv'
  BY <1>4, OutcomeForget DEF StartDrive, disk
<1>5. ASSUME NEW p \in Pids, Crash(p) PROVE OutcomeInv'
  BY <1>5, OutcomeForget DEF Crash, disk
<1>6. ASSUME NEW p \in Pids, Heartbeat(p) PROVE OutcomeInv'
  BY <1>6, OutcomeUntouched DEF Heartbeat, disk, memory
<1>7. ASSUME NEW p \in Pids, AcquireLease(p) PROVE OutcomeInv'
  BY <1>7, OutcomeWalksOn DEF AcquireLease, memory, Quiet
<1>8. ASSUME NEW p \in Pids, RefuseDrive(p) \/ FirstBeat(p) \/ MarkRunning(p) PROVE OutcomeInv'
  BY <1>8, OutcomeWalksOn DEF RefuseDrive, FirstBeat, MarkRunning, disk, memory, Quiet
<1>9. ASSUME NEW p \in Pids, ResumeBlocked(p) \/ ResumeVerdict(p) \/ ResumeReread(p)
      PROVE  OutcomeInv'
  BY <1>9, OutcomeWalksOn DEF ResumeBlocked, ResumeVerdict, ResumeReread, Reconciled, disk, memory,
     Quiet
<1>10. ASSUME NEW p \in Pids, CancelStop(p) \/ NothingReady(p) \/ StepAside(p) \/ MarkStolen(p)
       PROVE  OutcomeInv'
  BY <1>10, OutcomeWalksOn DEF CancelStop, NothingReady, StepAside, MarkStolen, disk, memory, Quiet
<1>11. ASSUME NEW p \in Pids, FinalizeLoad(p) \/ FinalizeWrite(p) PROVE OutcomeInv'
  BY <1>11, OutcomeWalksOn DEF FinalizeLoad, FinalizeWrite, disk, memory, Quiet
<1>12. ASSUME NEW p \in Pids, WriteFails(p) PROVE OutcomeInv'
  BY <1>12, OutcomeWriteFails
<1>13. ASSUME NEW p \in Pids, ReleaseLease(p) PROVE OutcomeInv'
  BY <1>13, OutcomeReleaseLease
<1>14. ASSUME NEW p \in Pids, ResumeLoad(p) PROVE OutcomeInv'
  BY <1>14, OutcomeResumeLoad
<1>15. ASSUME NEW p \in Pids, ResumeProbe(p) PROVE OutcomeInv'
  BY <1>15, OutcomeResumeProbe
<1>16. ASSUME NEW p \in Pids, ResumeApply(p) PROVE OutcomeInv'
  BY <1>16, OutcomeResumeApply
<1>17. ASSUME NEW p \in Pids, ComposeWave(p) PROVE OutcomeInv'
  BY <1>17, OutcomeComposeWave
<1>18. ASSUME NEW p \in Pids, MarkStarted(p) PROVE OutcomeInv'
  BY <1>18, OutcomeMarkStarted
<1>19. ASSUME NEW p \in Pids, Launch(p) PROVE OutcomeInv'
  BY <1>19, OutcomeLaunch
<1>20. ASSUME NEW p \in Pids, NEW s \in Steps, NodeReturns(p, s) PROVE OutcomeInv'
  BY <1>20, OutcomeNodeReturns
<1>21. ASSUME NEW p \in Pids, PersistLoad(p) PROVE OutcomeInv'
  BY <1>21, OutcomePersistLoad
<1>22. ASSUME NEW p \in Pids, ReLane(p) PROVE OutcomeInv'
  BY <1>22, OutcomeReLane
<1>23. ASSUME NEW p \in Pids, RecordOutcome(p) PROVE OutcomeInv'
  BY <1>23, OutcomeRecordOutcome
<1> QED
  BY <1>1, <1>2, <1>3, <1>4, <1>5, <1>6, <1>7, <1>8, <1>9, <1>10, <1>11, <1>12, <1>13, <1>14,
     <1>15, <1>16, <1>17, <1>18, <1>19, <1>20, <1>21, <1>22, <1>23
     DEF Next, Dispatcher, Supervise, Recover, Walk, Finish

\* Of a dispatch that runs one step at a time: an ok outcome in state.json has a
\* receipt of that very attempt that says ok, unless the receipt was lost, over
\* any number of steps, drivers, crashes, failed writes and lost receipts.
THEOREM OutcomeHasReceiptAlways ==
  ASSUME MaxFreezes = 0, "plain" \notin Modes, OneAtATime
  PROVE  Spec => []OutcomeHasReceipt
<1>1. OutcomeInv => OutcomeHasReceipt
  BY DEF OutcomeInv, StepsFaithful, Agrees, OutcomeHasReceipt
<1>2. Init => RunsInv /\ OutcomeInv
  BY RunsInit, OutcomeInit
<1>3. Inv /\ RunsInv /\ [Next]_vars => RunsInv'
  BY RunsStep
<1>4. Inv /\ RunsInv /\ RunsInv' /\ OutcomeInv /\ [Next]_vars => OutcomeInv'
  BY OutcomeStep
<1> QED
  BY <1>1, <1>2, <1>3, <1>4, InvHolds, PTL DEF Spec

\* And a step is at a later attempt only after a failure: the receipt of the
\* attempt before says so, unless it was lost, so a rate limit or a run that was
\* cut off never escalates, whoever recovers it.
THEOREM ReLaneIsEarnedAlways ==
  ASSUME MaxFreezes = 0, "plain" \notin Modes, OneAtATime
  PROVE  Spec => []ReLaneIsEarned
<1>1. OutcomeInv => ReLaneIsEarned
  BY DEF OutcomeInv, StepsFaithful, PriorFailed, ReLaneIsEarned
<1>2. Init => RunsInv /\ OutcomeInv
  BY RunsInit, OutcomeInit
<1>3. Inv /\ RunsInv /\ [Next]_vars => RunsInv'
  BY RunsStep
<1>4. Inv /\ RunsInv /\ RunsInv' /\ OutcomeInv /\ [Next]_vars => OutcomeInv'
  BY OutcomeStep
<1> QED
  BY <1>1, <1>2, <1>3, <1>4, InvHolds, PTL DEF Spec
-----------------------------------------------------------------------------
(***************************************************************************)
(* Under the same assumptions: that the processes together implement       *)
(* DispatchContract.                                                       *)
(***************************************************************************)
(* One more invariant: who is about to publish the dispatch as running has *)
(* something to run, and what recovery has finalized is final.             *)

ReadyInv ==
  \A p \in Pids : /\ pc[p] \in {"beat", "mark"} => ReadySet(step) # {}
                  /\ pc[p] = "reread" => status \in Terminal

\* Steps that touch none of it.
LEMMA ReadyUntouched ==
  ASSUME ReadyInv, pc' = pc, step' = step, status' = status \/ status \notin Terminal
  PROVE  ReadyInv'
BY DEF ReadyInv

\* Whatever a driver does, it is alone.
LEMMA ReadyDriving ==
  ASSUME Inv, ReadyInv, NEW p \in Pids, pc[p] \in Driving, NEW to, Go(p, to),
         to \in {"beat", "mark"} => ReadySet(step)' # {},
         to = "reread" => status' \in Terminal
  PROVE  ReadyInv'
<1>1. \A q \in Pids : pc'[q] = IF q = p THEN to ELSE pc[q]
  BY RunTypes DEF Go
<1>2. \A q \in Pids \ {p} : pc[q] \notin {"beat", "mark", "reread"}
  BY Sole DEF Driving, ResumePcs, ExecutePcs
<1> QED
  BY <1>1, <1>2 DEF ReadyInv

\* A process outside leaves the steps alone.
LEMMA ReadyOutside ==
  ASSUME Inv, ReadyInv, NEW p \in Pids, NEW to, Go(p, to),
         to \notin {"mark", "reread"}, to = "beat" => ReadySet(step) # {},
         step' = step, status' = status
  PROVE  ReadyInv'
<1>1. \A q \in Pids : pc'[q] = IF q = p THEN to ELSE pc[q]
  BY RunTypes DEF Go
<1> QED
  BY <1>1 DEF ReadyInv

\* The first step depends on nothing.
LEMMA FirstIsReady ==
  ASSUME \A s \in Steps : step[s].class = Pending
  PROVE  ReadySet(step) # {}
<1>1. 1 \in Steps
  BY IRAssumption DEF Steps
<1>2. \A d \in Deps[1] : FALSE
  BY <1>1, IRAssumption DEF Steps
<1> QED
  BY <1>1, <1>2 DEF ReadySet

\* The child finds everything still to be run.
LEMMA ReadyAcquireLease ==
  ASSUME Inv, RunsInv, VerdictInv, ReadyInv, NEW p \in Pids, AcquireLease(p)
  PROVE  ReadyInv'
<1>1. /\ pc[p] = "acquire" /\ Go(p, IF resuming[p] THEN "load" ELSE "beat")
      /\ step' = step /\ status' = status
  BY DEF AcquireLease
<1>2. ~ resuming[p] => \A s \in Steps : step[s].class = Pending
  BY <1>1 DEF RunsInv, StartsOK, NoneStarted, VerdictInv
<1> QED
  BY <1>1, <1>2, FirstIsReady, ReadyOutside

\* What finalize computes is final.
LEMMA FinalIsTerminal == FinalState(step) \in Terminal
BY DEF FinalState, Terminal

\* A finalized dispatch is read again, or left, with that verdict.
LEMMA ReadyFinalizeWrite ==
  ASSUME Inv, VerdictInv, ReadyInv, NEW p \in Pids, FinalizeWrite(p)
  PROVE  ReadyInv'
<1>1. /\ pc[p] \in Driving /\ Go(p, IF pc[p] = "finwrite" THEN "release" ELSE "reread")
      /\ status' = FinalState(step)
  BY DEF FinalizeWrite, VerdictInv, Driving, ResumePcs, ExecutePcs
<1> QED
  BY <1>1, FinalIsTerminal, ReadyDriving

\* When the spawn fails nobody drives.
LEMMA ReadySpawnFails ==
  ASSUME RunsInv, SpawnFails
  PROVE  ReadyInv'
BY DEF SpawnFails, RunsInv, StartsOK, ReadyInv

\* Every step keeps it: one case per action.
LEMMA ReadyStep == Inv /\ RunsInv /\ VerdictInv /\ ReadyInv /\ [Next]_vars => ReadyInv'
<1> SUFFICES ASSUME Inv, RunsInv, VerdictInv, ReadyInv, [Next]_vars PROVE ReadyInv'
  OBVIOUS
<1>g. \A p \in Pids : pc[p] = "reconcile" /\ pc' = pc => Go(p, "reconcile")
  BY RunTypes DEF Go
<1>1. CASE SpawnFails
  BY <1>1, ReadySpawnFails
<1>2. CASE MarkWorking
  BY <1>2, ReadyUntouched DEF MarkWorking, Publish, Terminal
<1>3. CASE RequestCancel
  BY <1>3, ReadyUntouched DEF RequestCancel, disk
<1>4. CASE Lapse
  BY <1>4, ReadyUntouched DEF Lapse, disk
<1>5. CASE Freeze
  BY <1>5, ReadyUntouched DEF Freeze, disk
<1>6. CASE Spawn
  BY <1>6, ReadyOutside, SupervisorAssumption DEF Spawn, disk
<1>7. ASSUME NEW p \in Pids, NEW mode \in Modes, StartDrive(p, mode) PROVE ReadyInv'
  BY <1>7, ReadyOutside DEF StartDrive, disk
<1>8. ASSUME NEW p \in Pids, NEW s \in Steps, NodeReturns(p, s) PROVE ReadyInv'
  BY <1>8, ReadyUntouched DEF NodeReturns, disk
<1>9. ASSUME NEW p \in Pids, Heartbeat(p) PROVE ReadyInv'
  BY <1>9, ReadyUntouched DEF Heartbeat
<1>10. ASSUME NEW p \in Pids, ResumeProbe(p) PROVE ReadyInv'
  BY <1>10, ReadyUntouched DEF ResumeProbe, disk
<1>11. ASSUME NEW p \in Pids, AcquireLease(p) PROVE ReadyInv'
  BY <1>11, ReadyAcquireLease
<1>12. ASSUME NEW p \in Pids, FinalizeWrite(p) PROVE ReadyInv'
  BY <1>12, ReadyFinalizeWrite
<1>13. ASSUME NEW p \in Pids, RefuseDrive(p) PROVE ReadyInv'
  BY <1>13, ReadyOutside DEF RefuseDrive, disk
<1>14. ASSUME NEW p \in Pids, Crash(p) PROVE ReadyInv'
  BY <1>14, ReadyOutside DEF Crash, disk
<1>15. ASSUME NEW p \in Pids, FirstBeat(p) PROVE ReadyInv'
  BY <1>15, ReadyDriving DEF FirstBeat, ReadyInv, Driving, ExecutePcs
<1>16. ASSUME NEW p \in Pids, ResumeVerdict(p) PROVE ReadyInv'
  BY <1>16, ReadyDriving DEF ResumeVerdict, Reconciled, disk, Driving, ResumePcs
<1>17. ASSUME NEW p \in Pids, ResumeReread(p) PROVE ReadyInv'
  BY <1>17, ReadyDriving DEF ResumeReread, ReadyInv, Driving, ResumePcs
<1>18. ASSUME NEW p \in Pids, ResumeApply(p) PROVE ReadyInv'
  BY <1>18, <1>g, ReadyDriving DEF ResumeApply, Driving, ResumePcs
<1>19. ASSUME NEW p \in Pids, ReleaseLease(p) PROVE ReadyInv'
  BY <1>19, ReadyDriving DEF ReleaseLease, Driving, ResumePcs, ExecutePcs
<1>20. ASSUME NEW p \in Pids, ResumeLoad(p) PROVE ReadyInv'
  BY <1>20, ReadyDriving DEF ResumeLoad, Driving, ResumePcs, ExecutePcs
<1>21. ASSUME NEW p \in Pids, ResumeBlocked(p) PROVE ReadyInv'
  BY <1>21, ReadyDriving DEF ResumeBlocked, Reconciled, Driving, ResumePcs, ExecutePcs
<1>22. ASSUME NEW p \in Pids, MarkRunning(p) PROVE ReadyInv'
  BY <1>22, ReadyDriving DEF MarkRunning, Driving, ResumePcs, ExecutePcs
<1>23. ASSUME NEW p \in Pids, CancelStop(p) PROVE ReadyInv'
  BY <1>23, ReadyDriving DEF CancelStop, Driving, ResumePcs, ExecutePcs
<1>24. ASSUME NEW p \in Pids, NothingReady(p) PROVE ReadyInv'
  BY <1>24, ReadyDriving DEF NothingReady, Driving, ResumePcs, ExecutePcs
<1>25. ASSUME NEW p \in Pids, StepAside(p) PROVE ReadyInv'
  BY <1>25, ReadyDriving DEF StepAside, Driving, ResumePcs, ExecutePcs
<1>26. ASSUME NEW p \in Pids, ComposeWave(p) PROVE ReadyInv'
  BY <1>26, ReadyDriving DEF ComposeWave, Driving, ResumePcs, ExecutePcs
<1>27. ASSUME NEW p \in Pids, MarkStarted(p) PROVE ReadyInv'
  BY <1>27, ReadyDriving DEF MarkStarted, Driving, ResumePcs, ExecutePcs
<1>28. ASSUME NEW p \in Pids, MarkStolen(p) PROVE ReadyInv'
  BY <1>28, ReadyDriving DEF MarkStolen, Driving, ResumePcs, ExecutePcs
<1>29. ASSUME NEW p \in Pids, Launch(p) PROVE ReadyInv'
  BY <1>29, ReadyDriving DEF Launch, Driving, ResumePcs, ExecutePcs
<1>30. ASSUME NEW p \in Pids, PersistLoad(p) PROVE ReadyInv'
  BY <1>30, ReadyDriving DEF PersistLoad, Driving, ResumePcs, ExecutePcs
<1>31. ASSUME NEW p \in Pids, ReLane(p) PROVE ReadyInv'
  BY <1>31, ReadyDriving DEF ReLane, AfterPersist, Driving, ResumePcs, ExecutePcs
<1>32. ASSUME NEW p \in Pids, RecordOutcome(p) PROVE ReadyInv'
  BY <1>32, ReadyDriving DEF RecordOutcome, AfterPersist, Driving, ResumePcs, ExecutePcs
<1>33. ASSUME NEW p \in Pids, FinalizeLoad(p) PROVE ReadyInv'
  BY <1>33, ReadyDriving DEF FinalizeLoad, Driving, ResumePcs, ExecutePcs
<1>34. ASSUME NEW p \in Pids, WriteFails(p) PROVE ReadyInv'
  BY <1>34, ReadyDriving DEF WriteFails, Driving, ResumePcs, ExecutePcs
<1>35. CASE UNCHANGED vars
  BY <1>35, ReadyUntouched DEF vars, disk
<1> QED
  BY <1>1, <1>2, <1>3, <1>4, <1>5, <1>6, <1>7, <1>8, <1>9, <1>10,
     <1>11, <1>12, <1>13, <1>14, <1>15, <1>16, <1>17, <1>18, <1>19,
     <1>20, <1>21, <1>22, <1>23, <1>24, <1>25, <1>26, <1>27, <1>28,
     <1>29, <1>30, <1>31, <1>32, <1>33, <1>34, <1>35
     DEF Next, Dispatcher, Supervise, Recover, Walk, Finish

-----------------------------------------------------------------------------
(* The contract's variables, as Supervisor!Contract reads them off         *)
(* state.json.                                                             *)

PhaseMap   == [s \in Steps |-> PhaseOf(s)]
AttemptMap == [s \in Steps |-> step[s].attempt]
PaidNow(s) == PhaseOf(s) = "running" /\ step[s].lane # Local
PaidMap    == [s \in Steps |-> PaidNow(s)]
Published  == IF status \in Terminal THEN status ELSE "open"

\* The contract speaks of the same steps.
LEMMA SameSteps == Contract!Steps = Steps /\ Contract!LastStep = LastStep
BY DEF Contract!Steps, Steps, Contract!LastStep, LastStep

\* A step of the contract, or none.
ContractStep == [Contract!Next]_(Contract!vars)

\* Which phase is which.
LEMMA PhaseFacts ==
  ASSUME Inv, NEW s \in Steps
  PROVE  /\ PhaseOf(s) = "running" <=> CrashWindow(s)
         /\ PhaseOf(s) = "todo" <=> step[s].class = Pending /\ ~ step[s].started
         /\ PhaseOf(s) = "ok" <=> Ok(step[s].class)
         /\ PhaseOf(s) = "blocked" <=> step[s].class = "blocked"
         /\ PhaseOf(s) = "relegated" <=> Relegated(step[s].class)
         /\ PhaseOf(s) = "failed" <=> step[s].class \notin {Pending, "blocked"} /\ HardFailed(step[s].class)
<1> DEFINE class == step[s].class
<1>1. ~ Ok(Pending) /\ ~ Relegated(Pending) /\ Pending # "blocked"
  BY FreshTypes DEF Ok, OkClasses, Relegated, RelegateClasses, Pending
<1>2. ~ Ok("blocked") /\ ~ Relegated("blocked")
  BY DEF Ok, OkClasses, Relegated, RelegateClasses
<1>3. ~ (Ok(class) /\ Relegated(class))
  BY DEF Ok, OkClasses, Relegated, RelegateClasses
<1>4. PhaseOf(s) = IF class = Pending THEN IF step[s].started THEN "running" ELSE "todo"
                   ELSE IF class = "blocked" THEN "blocked"
                   ELSE IF Ok(class) THEN "ok"
                   ELSE IF Relegated(class) THEN "relegated"
                   ELSE "failed"
  BY DEF PhaseOf
<1>5. CrashWindow(s) <=> step[s].started /\ class = Pending
  BY DEF CrashWindow
<1>6. HardFailed(class) <=> ~ Ok(class) /\ ~ Relegated(class)
  BY DEF HardFailed
<1> HIDE DEF class
<1>7. /\ PhaseOf(s) = "running" <=> CrashWindow(s)
      /\ PhaseOf(s) = "todo" <=> class = Pending /\ ~ step[s].started
      /\ PhaseOf(s) = "ok" <=> Ok(class)
      /\ PhaseOf(s) = "blocked" <=> class = "blocked"
      /\ PhaseOf(s) = "relegated" <=> Relegated(class)
      /\ PhaseOf(s) = "failed" <=> class \notin {Pending, "blocked"} /\ HardFailed(class)
  BY <1>1, <1>2, <1>3, <1>4, <1>5, <1>6
<1> QED
  BY <1>7 DEF class

\* Nothing the contract speaks of changes.
LEMMA ContractStutter ==
  ASSUME step' = step, Published' = Published
  PROVE  ContractStep
<1>1. \A s \in Steps : PhaseOf(s)' = PhaseOf(s)
  BY DEF PhaseOf
<1>2. PhaseMap' = PhaseMap /\ AttemptMap' = AttemptMap /\ PaidMap' = PaidMap
  BY <1>1 DEF PhaseMap, AttemptMap, PaidMap, PaidNow
<1> QED
  BY <1>2 DEF ContractStep, Contract!vars, PhaseMap, AttemptMap, PaidMap, PaidNow, Published

\* In particular when neither the steps nor the status change.
LEMMA ContractSameStatus ==
  ASSUME step' = step, status' = status
  PROVE  ContractStep
BY ContractStutter DEF Published

\* One step record is written.
LEMMA OneStepMoves ==
  ASSUME NEW s \in Steps, \A t \in Steps \ {s} : step'[t] = step[t]
  PROVE  /\ PhaseMap' = [PhaseMap EXCEPT ![s] = PhaseOf(s)']
         /\ PaidMap' = [PaidMap EXCEPT ![s] = PaidNow(s)']
         /\ AttemptMap' = [AttemptMap EXCEPT ![s] = step'[s].attempt]
<1>1. \A t \in Steps \ {s} : PhaseOf(t)' = PhaseOf(t) /\ PaidNow(t)' = PaidNow(t)
  BY DEF PhaseOf, PaidNow
<1>2. \A t \in Steps \ {s} : step'[t].attempt = step[t].attempt
  OBVIOUS
<1> QED
  BY <1>1, <1>2 DEF PhaseMap, PaidMap, AttemptMap

\* The verdict finalize computes is the one the contract calls for.
LEMMA CalledIsFinal ==
  ASSUME Inv
  PROVE  Contract!Called = FinalState(step)
<1>1. LastStep \in Steps
  BY IRAssumption DEF LastStep, Steps
<1>2. /\ (\E s \in Steps : PhaseMap[s] = "blocked") <=> AnyBlocked(step)
      /\ (\E s \in Steps : PhaseMap[s] = "failed") <=> AnyHardFailed(step)
      /\ (\E s \in Steps : PhaseMap[s] = "relegated") <=> AnyDeferred(step)
      /\ PhaseMap[LastStep] = "ok" <=> Ok(step[LastStep].class)
  BY <1>1, PhaseFacts DEF PhaseMap, AnyBlocked, AnyHardFailed, AnyDeferred
<1>3. Contract!Called = IF \E s \in Steps : PhaseMap[s] = "blocked" THEN "blocked"
                        ELSE IF \E s \in Steps : PhaseMap[s] = "failed" THEN "failed"
                        ELSE IF PhaseMap[LastStep] = "ok" THEN "done"
                        ELSE IF \E s \in Steps : PhaseMap[s] = "relegated" THEN "deferred"
                        ELSE "failed"
  BY SameSteps DEF Contract!Called, PhaseMap
<1> QED
  BY <1>2, <1>3 DEF FinalState

\* A verdict is published when nothing runs.
LEMMA ContractPublish ==
  ASSUME Inv, step' = step, \A s \in Steps : ~ CrashWindow(s),
         status' \in {FinalState(step), "cancelled"}
  PROVE  ContractStep
<1>1. \A s \in Steps : PhaseMap[s] # "running"
  BY PhaseFacts DEF PhaseMap
<1>2. Published' = status' /\ Published' \in {Contract!Called, "cancelled"}
  BY FinalIsTerminal, CalledIsFinal DEF Published, Terminal
<1>3. \A s \in Steps : PhaseOf(s)' = PhaseOf(s)
  BY DEF PhaseOf
<1>4. PhaseMap' = PhaseMap /\ AttemptMap' = AttemptMap /\ PaidMap' = PaidMap
  BY <1>3 DEF PhaseMap, AttemptMap, PaidMap, PaidNow
<1>5. Contract!Publish
  BY <1>1, <1>2, <1>4, SameSteps DEF Contract!Publish, PhaseMap, AttemptMap, PaidMap, PaidNow, Published
<1> QED
  BY <1>5 DEF ContractStep, Contract!Next

\* One step moves: begun, ended, retried, to be redone, or blocked.
LEMMA ContractMove ==
  ASSUME Inv, NEW s \in Steps, \A t \in Steps \ {s} : step'[t] = step[t], status' = status,
         \/ /\ status \notin Terminal /\ PhaseOf(s) = "todo" /\ \A d \in Deps[s] : PhaseOf(d) = "ok"
            /\ PhaseOf(s)' = "running" /\ step'[s].attempt = step[s].attempt
         \/ /\ PhaseOf(s) = "running" /\ PhaseOf(s)' \in Contract!Ended
            /\ step'[s].attempt = step[s].attempt
         \/ /\ PhaseOf(s) = "running" /\ step[s].attempt < ReLaneMaxDepth
            /\ PhaseOf(s)' = "todo" /\ step'[s].attempt = step[s].attempt + 1
         \/ /\ PhaseOf(s) = "running" /\ step[s].lane = Local
            /\ PhaseOf(s)' = "todo" /\ step'[s].attempt = step[s].attempt
         \/ /\ PhaseOf(s) = "running" /\ step[s].lane # Local
            /\ PhaseOf(s)' = "blocked" /\ step'[s].attempt = step[s].attempt
  PROVE  ContractStep
<1>1. /\ PhaseMap' = [PhaseMap EXCEPT ![s] = PhaseOf(s)']
      /\ PaidMap' = [PaidMap EXCEPT ![s] = PaidNow(s)']
      /\ AttemptMap' = [AttemptMap EXCEPT ![s] = step'[s].attempt]
  BY OneStepMoves
<1>2. Published' = Published
  BY DEF Published
<1>3. /\ PhaseMap[s] = PhaseOf(s) /\ AttemptMap[s] = step[s].attempt /\ PaidMap[s] = PaidNow(s)
      /\ \A d \in Deps[s] : PhaseMap[d] = PhaseOf(d)
  BY IRAssumption DEF PhaseMap, AttemptMap, PaidMap
<1>4. /\ PaidNow(s) <=> PhaseOf(s) = "running" /\ step[s].lane # Local
      /\ PaidNow(s)' \in BOOLEAN /\ (PhaseOf(s)' # "running" => PaidNow(s)' = FALSE)
      /\ (PhaseOf(s) # "running" => PaidNow(s) = FALSE)
      /\ (step[s].lane = Local => PaidNow(s) = FALSE)
  BY DEF PaidNow
<1>5. /\ step'[s].attempt = step[s].attempt => AttemptMap' = AttemptMap
      /\ PaidNow(s) = PaidNow(s)' => PaidMap' = PaidMap
  BY <1>1, <1>3 DEF AttemptMap, PaidMap
<1> QED
  <2>1. CASE /\ status \notin Terminal /\ PhaseOf(s) = "todo" /\ \A d \in Deps[s] : PhaseOf(d) = "ok"
             /\ PhaseOf(s)' = "running" /\ step'[s].attempt = step[s].attempt
    <3>1. Published = "open"
      BY <2>1 DEF Published
    <3>2. Contract!Begin(s)
      BY <1>1, <1>2, <1>3, <1>4, <1>5, <2>1, <3>1
         DEF Contract!Begin, Contract!Ready, PhaseMap, AttemptMap, PaidMap, PaidNow, Published
    <3> QED
      BY <3>2, SameSteps DEF ContractStep, Contract!Next
  <2>2. CASE /\ PhaseOf(s) = "running" /\ PhaseOf(s)' \in Contract!Ended
             /\ step'[s].attempt = step[s].attempt
    <3>1. PaidNow(s)' = FALSE
      BY <1>4, <2>2 DEF Contract!Ended
    <3>2. Contract!End(s)
      BY <1>1, <1>2, <1>3, <1>5, <2>2, <3>1
         DEF Contract!End, PhaseMap, AttemptMap, PaidMap, PaidNow, Published
    <3> QED
      BY <3>2, SameSteps DEF ContractStep, Contract!Next
  <2>3. CASE /\ PhaseOf(s) = "running" /\ step[s].attempt < ReLaneMaxDepth
             /\ PhaseOf(s)' = "todo" /\ step'[s].attempt = step[s].attempt + 1
    <3>1. PaidNow(s)' = FALSE
      BY <1>4, <2>3
    <3>2. Contract!Retry(s)
      BY <1>1, <1>2, <1>3, <2>3, <3>1
         DEF Contract!Retry, PhaseMap, AttemptMap, PaidMap, PaidNow, Published
    <3> QED
      BY <3>2, SameSteps DEF ContractStep, Contract!Next
  <2>4. CASE /\ PhaseOf(s) = "running" /\ step[s].lane = Local
             /\ PhaseOf(s)' = "todo" /\ step'[s].attempt = step[s].attempt
    <3>1. PaidNow(s) = FALSE /\ PaidNow(s)' = FALSE
      BY <1>4, <2>4
    <3>2. Contract!Redo(s)
      BY <1>1, <1>2, <1>3, <1>5, <2>4, <3>1
         DEF Contract!Redo, PhaseMap, AttemptMap, PaidMap, PaidNow, Published
    <3> QED
      BY <3>2, SameSteps DEF ContractStep, Contract!Next
  <2>5. CASE /\ PhaseOf(s) = "running" /\ step[s].lane # Local
             /\ PhaseOf(s)' = "blocked" /\ step'[s].attempt = step[s].attempt
    <3>1. PaidNow(s)' = FALSE
      BY <1>4, <2>5
    <3>2. Contract!Block(s)
      BY <1>1, <1>2, <1>3, <1>4, <1>5, <2>5, <3>1
         DEF Contract!Block, PhaseMap, AttemptMap, PaidMap, PaidNow, Published
    <3> QED
      BY <3>2, SameSteps DEF ContractStep, Contract!Next
  <2> QED
    BY <2>1, <2>2, <2>3, <2>4, <2>5

-----------------------------------------------------------------------------
(* The actions the contract knows of.                                      *)

\* A spawn that fails is published before anything was started.
LEMMA ContractSpawnFails ==
  ASSUME Inv, RunsInv, VerdictInv, SpawnFails
  PROVE  ContractStep
<1>1. /\ \A s \in Steps : ~ step[s].started
      /\ status' \in {"failed", status} /\ step' = step
  BY DEF SpawnFails, Publish, RunsInv, StartsOK, NoneStarted
<1>2. \A s \in Steps : step[s].class = Pending
  BY <1>1 DEF VerdictInv
<1>3. ~ Relegated(Pending)
  BY DEF Relegated, RelegateClasses, Pending
<1>p. LastStep \in Steps
  BY IRAssumption DEF LastStep, Steps
<1>4. FinalState(step) = "failed"
  BY <1>2, <1>3, <1>p, FreshTypes, PendingNotOk
     DEF FinalState, AnyBlocked, AnyHardFailed, AnyDeferred
<1>5. CASE status' = "failed"
  BY <1>1, <1>4, <1>5, ContractPublish DEF CrashWindow
<1>6. CASE status' = status
  BY <1>1, <1>6, ContractStutter DEF Published
<1> QED
  BY <1>1, <1>5, <1>6

\* The dispatcher marks a pending dispatch only.
LEMMA ContractMarkWorking ==
  ASSUME MarkWorking
  PROVE  ContractStep
<1>1. step' = step /\ (status' = status \/ (status = "pending" /\ status' = "working"))
  BY DEF MarkWorking, Publish
<1>2. Published' = Published
  BY <1>1 DEF Published, Terminal
<1> QED
  BY <1>1, <1>2, ContractStutter

\* A dispatch is published as running again only if something is ready.
LEMMA ContractMarkRunning ==
  ASSUME Inv, RunsInv, ReadyInv, NEW p \in Pids, MarkRunning(p)
  PROVE  ContractStep
<1>1. pc[p] = "mark" /\ status' = "running" /\ step' = step
  BY DEF MarkRunning
<1>2. \A s \in Steps : ~ CrashWindow(s)
  BY <1>1, MovesIdle DEF Quiet, RunsInv, MemoryOK, Current, TrueOf, Held
<1>3. PICK s \in Steps : step[s].class = Pending /\ \A d \in Deps[s] : Ok(step[d].class)
  BY <1>1 DEF ReadyInv, ReadySet
<1>4. PhaseOf(s) = "todo" /\ \A d \in Deps[s] : PhaseOf(d) = "ok"
  BY <1>2, <1>3, PhaseFacts, IRAssumption DEF CrashWindow
<1>5. PhaseMap[s] = "todo" /\ \A d \in Deps[s] : PhaseMap[d] = "ok"
  BY <1>4, IRAssumption DEF PhaseMap
<1>6. Published' = "open"
  BY <1>1 DEF Published, Terminal
<1>7. \A t \in Steps : PhaseOf(t)' = PhaseOf(t)
  BY <1>1 DEF PhaseOf
<1>8. PhaseMap' = PhaseMap /\ AttemptMap' = AttemptMap /\ PaidMap' = PaidMap
  BY <1>1, <1>7 DEF PhaseMap, AttemptMap, PaidMap, PaidNow
<1>9. Contract!Reopen
  BY <1>5, <1>6, <1>8, SameSteps
     DEF Contract!Reopen, Contract!Ready, PhaseMap, AttemptMap, PaidMap, PaidNow, Published
<1> QED
  BY <1>9 DEF ContractStep, Contract!Next

\* A cancellation is published between two waves, where nothing runs.
LEMMA ContractCancelStop ==
  ASSUME Inv, RunsInv, NEW p \in Pids, CancelStop(p)
  PROVE  ContractStep
<1>1. pc[p] = "loop" /\ status' = "cancelled" /\ step' = step
  BY DEF CancelStop
<1>2. \A s \in Steps : ~ CrashWindow(s)
  BY <1>1, MovesIdle DEF Quiet, RunsInv, MemoryOK, Current, TrueOf, Held
<1> QED
  BY <1>1, <1>2, ContractPublish

\* Recovery publishes a block once nothing is left in the crash window.
LEMMA ContractResumeBlocked ==
  ASSUME Inv, RunsInv, NEW p \in Pids, ResumeBlocked(p)
  PROVE  ContractStep
<1>1. /\ pc[p] = "reconcile" /\ pc[p] \in Aware /\ status' = "blocked" /\ step' = step
      /\ At(p, "window") \cup At(p, "probed") = {} /\ At(p, "blocked") # {}
  BY DEF ResumeBlocked, Reconciled, Aware, Driving, ResumePcs
<1>2. Current(p)
  BY <1>1 DEF RunsInv, MemoryOK
<1>3. \A s \in Steps : job[p][s].at \in {"idle", "blocked"}
  BY <1>1, <1>2, Places DEF Current, At
<1>4. \A s \in Steps : ~ CrashWindow(s)
  BY <1>2, <1>3 DEF Current, TrueOf, Held
<1>5. \E s \in Steps : step[s].class = "blocked"
  BY <1>1, <1>2 DEF Current, TrueOf, At
<1>6. FinalState(step) = "blocked"
  BY <1>5 DEF FinalState, AnyBlocked
<1> QED
  BY <1>1, <1>4, <1>6, ContractPublish

\* finalize publishes what the steps call for.
LEMMA ContractFinalizeWrite ==
  ASSUME Inv, RunsInv, VerdictInv, NEW p \in Pids, FinalizeWrite(p)
  PROVE  ContractStep
<1>1. pc[p] \in {"finwrite", "rfinwrite"} /\ status' = FinalState(step) /\ step' = step
  BY DEF FinalizeWrite, VerdictInv
<1>2. \A s \in Steps : ~ CrashWindow(s)
  BY <1>1, MovesIdle DEF Quiet, RunsInv, MemoryOK, Current, TrueOf, Held
<1> QED
  BY <1>1, <1>2, ContractPublish

\* Recovery ends, redoes or blocks a step that was under way.
LEMMA ContractResumeApply ==
  ASSUME Inv, RunsInv, NEW p \in Pids, ResumeApply(p)
  PROVE  ContractStep
<1>1. pc[p] = "reconcile" /\ pc[p] \in Aware /\ status' = status
  BY DEF ResumeApply, Aware, Driving, ResumePcs
<1>2. PICK s \in At(p, "probed") :
        step' = [step EXCEPT ![s].class = job[p][s].class,
                             ![s].started = @ /\ job[p][s].class # Pending]
  BY DEF ResumeApply
<1>3. s \in Steps /\ job[p][s].at = "probed"
  BY DEF At
<1>4. TrueOf(job[p][s], s)
  BY <1>1, <1>3 DEF RunsInv, MemoryOK, Current
<1> DEFINE class == job[p][s].class
           r == step'[s]
<1>5. CrashWindow(s) /\ \/ class \in Outcomes
                        \/ class = Pending /\ step[s].lane = Local
                        \/ class = "blocked" /\ step[s].lane # Local
  BY <1>3, <1>4 DEF TrueOf
<1>6. r.class = class /\ (r.started <=> class # Pending) /\ r.attempt = step[s].attempt
  <2>1. step[s] \in StepRecords
    BY <1>3, RunTypes
  <2>2. r = [step[s] EXCEPT !.class = job[p][s].class, !.started = @ /\ job[p][s].class # Pending]
    BY <1>2, <1>3, RunTypes
  <2>3. step[s].started
    BY <1>5 DEF CrashWindow
  <2> HIDE DEF r
  <2> QED
    BY <2>1, <2>2, <2>3 DEF StepRecords
<1>7. \A t \in Steps \ {s} : step'[t] = step[t]
  BY <1>2, RunTypes
<1>8. PhaseOf(s) = "running"
  BY <1>3, <1>5, PhaseFacts
<1> HIDE DEF class, r
<1>9. CASE class \in Outcomes
  <2>1. PhaseOf(s)' \in Contract!Ended
    BY <1>6, <1>9, RunClassIs DEF PhaseOf, Contract!Ended, r
  <2> QED
    BY <1>1, <1>3, <1>6, <1>7, <1>8, <2>1, ContractMove DEF r
<1>10. CASE class = Pending /\ step[s].lane = Local
  <2>1. PhaseOf(s)' = "todo"
    BY <1>6, <1>10 DEF PhaseOf, r
  <2> QED
    BY <1>1, <1>3, <1>6, <1>7, <1>8, <1>10, <2>1, ContractMove DEF r
<1>11. CASE class = "blocked" /\ step[s].lane # Local
  <2>1. PhaseOf(s)' = "blocked"
    BY <1>6, <1>11, FreshTypes DEF PhaseOf, r
  <2> QED
    BY <1>1, <1>3, <1>6, <1>7, <1>8, <1>11, <2>1, ContractMove DEF r
<1> QED
  BY <1>5, <1>9, <1>10, <1>11 DEF class

\* A mark begins a step that is ready, while the dispatch is open.
LEMMA ContractMarkStarted ==
  ASSUME Inv, RunsInv, VerdictInv, NEW p \in Pids, MarkStarted(p)
  PROVE  ContractStep
<1>1. /\ pc[p] = "start" /\ pc[p] \in Aware /\ pc[p] \in Driving /\ pc[p] \in Walking
      /\ status' = status
  BY DEF MarkStarted, Aware, Driving, ExecutePcs, Walking
<1>2. PICK s \in First(At(p, "picked")), lane \in Lanes \cup {NoLane} :
        step' = [step EXCEPT ![s].started = TRUE,
                             ![s].attempt = job[p][s].attempt,
                             ![s].lane = lane]
  BY IRAssumption DEF MarkStarted, Resolve, First, At
<1>3. s \in Steps /\ job[p][s].at = "picked"
  BY DEF First, At
<1>4. TrueOf(job[p][s], s)
  BY <1>1, <1>3 DEF RunsInv, MemoryOK, Current
<1>5. ~ CrashWindow(s) /\ job[p][s].attempt = step[s].attempt
  BY <1>3, <1>4 DEF TrueOf, Held
<1>6. step[s].class = Pending /\ DepsOk(s)
  BY <1>1, <1>3 DEF Inv, WalkInv, Open
<1> DEFINE r == step'[s]
<1>7. r.class = step[s].class /\ r.started /\ r.attempt = job[p][s].attempt
  <2>1. step[s] \in StepRecords
    BY <1>3, RunTypes
  <2>2. r = [step[s] EXCEPT !.started = TRUE, !.attempt = job[p][s].attempt, !.lane = lane]
    BY <1>2, <1>3, RunTypes
  <2> HIDE DEF r
  <2> QED
    BY <2>1, <2>2 DEF StepRecords
<1>8. \A t \in Steps \ {s} : step'[t] = step[t]
  BY <1>2, RunTypes
<1> HIDE DEF r
<1>9. status \notin Terminal
  BY <1>1 DEF VerdictInv, Terminal
<1>10. PhaseOf(s) = "todo" /\ \A d \in Deps[s] : PhaseOf(d) = "ok"
  BY <1>3, <1>5, <1>6, PhaseFacts, IRAssumption DEF CrashWindow, DepsOk
<1>11. PhaseOf(s)' = "running"
  BY <1>6, <1>7 DEF PhaseOf, r
<1> QED
  BY <1>1, <1>3, <1>5, <1>7, <1>8, <1>9, <1>10, <1>11, ContractMove DEF r

\* A re-lane is the next attempt.
LEMMA ContractReLane ==
  ASSUME Inv, RunsInv, NEW p \in Pids, ReLane(p)
  PROVE  ContractStep
<1>1. pc[p] = "persist" /\ pc[p] \in Aware /\ status' = status
  BY DEF ReLane, Aware, Driving, ExecutePcs
<1>2. PICK s \in At(p, "relane") :
        step' = [step EXCEPT ![s].attempt = job[p][s].attempt + 1,
                             ![s].class = Pending, ![s].started = FALSE]
  BY DEF ReLane
<1>3. s \in Steps /\ job[p][s].at = "relane"
  BY DEF At
<1>4. TrueOf(job[p][s], s)
  BY <1>1, <1>3 DEF RunsInv, MemoryOK, Current
<1>5. /\ CrashWindow(s) /\ job[p][s].attempt = step[s].attempt
      /\ job[p][s].attempt < ReLaneMaxDepth
  BY <1>3, <1>4 DEF TrueOf, Held, Inv, TypeInv, JobsInRange
<1> DEFINE r == step'[s]
<1>6. r.class = Pending /\ ~ r.started /\ r.attempt = job[p][s].attempt + 1
  <2>1. step[s] \in StepRecords
    BY <1>3, RunTypes
  <2>2. r = [step[s] EXCEPT !.attempt = job[p][s].attempt + 1, !.class = Pending,
                            !.started = FALSE]
    BY <1>2, <1>3, RunTypes
  <2> HIDE DEF r
  <2> QED
    BY <2>1, <2>2 DEF StepRecords
<1>7. \A t \in Steps \ {s} : step'[t] = step[t]
  BY <1>2, RunTypes
<1> HIDE DEF r
<1>8. PhaseOf(s) = "running"
  BY <1>3, <1>5, PhaseFacts
<1>9. PhaseOf(s)' = "todo"
  BY <1>6 DEF PhaseOf, r
<1> QED
  BY <1>1, <1>3, <1>5, <1>6, <1>7, <1>8, <1>9, ContractMove DEF r

\* An outcome ends the attempt.
LEMMA ContractRecordOutcome ==
  ASSUME Inv, RunsInv, NEW p \in Pids, RecordOutcome(p)
  PROVE  ContractStep
<1>1. pc[p] = "persist" /\ pc[p] \in Aware /\ status' = status
  BY DEF RecordOutcome, Aware, Driving, ExecutePcs
<1>2. PICK s \in At(p, "record") :
        step' = [step EXCEPT ![s].class = job[p][s].class, ![s].ref = TRUE,
                             ![s].lane = job[p][s].lane,
                             ![s].verdict = IF job[p][s].verdict # ""
                                          THEN job[p][s].verdict ELSE @]
  BY DEF RecordOutcome
<1>3. s \in Steps /\ job[p][s].at = "record"
  BY DEF At
<1>4. TrueOf(job[p][s], s)
  BY <1>1, <1>3 DEF RunsInv, MemoryOK, Current
<1>5. CrashWindow(s) /\ job[p][s].class \in Outcomes
  BY <1>3, <1>4 DEF TrueOf, Held
<1> DEFINE r == step'[s]
<1>6. r.class = job[p][s].class /\ r.attempt = step[s].attempt
  <2>1. step[s] \in StepRecords
    BY <1>3, RunTypes
  <2>2. r = [step[s] EXCEPT !.class = job[p][s].class, !.ref = TRUE, !.lane = job[p][s].lane,
                            !.verdict = IF job[p][s].verdict # ""
                                        THEN job[p][s].verdict ELSE step[s].verdict]
    BY <1>2, <1>3, RunTypes
  <2> HIDE DEF r
  <2> QED
    BY <2>1, <2>2 DEF StepRecords
<1>7. \A t \in Steps \ {s} : step'[t] = step[t]
  BY <1>2, RunTypes
<1> HIDE DEF r
<1>8. PhaseOf(s) = "running"
  BY <1>3, <1>5, PhaseFacts
<1>9. PhaseOf(s)' \in Contract!Ended
  BY <1>5, <1>6, RunClassIs DEF PhaseOf, Contract!Ended, r
<1> QED
  BY <1>1, <1>3, <1>6, <1>7, <1>8, <1>9, ContractMove DEF r

-----------------------------------------------------------------------------
\* The first state is the contract's.
LEMMA ContractInit == Init => Contract!Init
<1> SUFFICES ASSUME Init PROVE Contract!Init
  OBVIOUS
<1>1. status = "pending" /\ \A s \in Steps : step[s] = FreshStep
  BY DEF Init
<1>2. FreshStep.class = Pending /\ ~ FreshStep.started /\ FreshStep.attempt = 0
  BY Zenon DEF FreshStep
<1>3. \A s \in Steps : PhaseOf(s) = "todo" /\ step[s].attempt = 0
  BY <1>1, <1>2 DEF PhaseOf
<1>4. "pending" \notin Terminal
  BY DEF Terminal
<1> QED
  BY <1>1, <1>3, <1>4, SameSteps DEF Contract!Init

\* Every step is a step of the contract or none: one case per action.
LEMMA EveryStepIsContract ==
  Inv /\ RunsInv /\ VerdictInv /\ ReadyInv /\ [Next]_vars => ContractStep
<1> SUFFICES ASSUME Inv, RunsInv, VerdictInv, ReadyInv, [Next]_vars PROVE ContractStep
  OBVIOUS
<1>1. CASE Spawn
  BY <1>1, ContractSameStatus DEF Spawn, disk
<1>2. CASE RequestCancel
  BY <1>2, ContractSameStatus DEF RequestCancel, disk
<1>3. CASE Lapse
  BY <1>3, ContractSameStatus DEF Lapse, disk
<1>4. CASE Freeze
  BY <1>4, ContractSameStatus DEF Freeze, disk
<1>5. CASE SpawnFails
  BY <1>5, ContractSpawnFails
<1>6. CASE MarkWorking
  BY <1>6, ContractMarkWorking
<1>7. ASSUME NEW p \in Pids, NEW mode \in Modes, StartDrive(p, mode) PROVE ContractStep
  BY <1>7, ContractSameStatus DEF StartDrive, disk
<1>8. ASSUME NEW p \in Pids, NEW s \in Steps, NodeReturns(p, s) PROVE ContractStep
  BY <1>8, ContractSameStatus DEF NodeReturns, disk
<1>9. ASSUME NEW p \in Pids, Heartbeat(p) PROVE ContractStep
  BY <1>9, ContractSameStatus DEF Heartbeat, disk
<1>10. ASSUME NEW p \in Pids, ResumeProbe(p) PROVE ContractStep
  BY <1>10, ContractSameStatus DEF ResumeProbe, disk
<1>11. ASSUME NEW p \in Pids, AcquireLease(p) PROVE ContractStep
  BY <1>11, ContractSameStatus DEF AcquireLease, disk
<1>12. ASSUME NEW p \in Pids, RefuseDrive(p) PROVE ContractStep
  BY <1>12, ContractSameStatus DEF RefuseDrive, disk
<1>13. ASSUME NEW p \in Pids, FirstBeat(p) PROVE ContractStep
  BY <1>13, ContractSameStatus DEF FirstBeat, disk
<1>14. ASSUME NEW p \in Pids, ReleaseLease(p) PROVE ContractStep
  BY <1>14, ContractSameStatus DEF ReleaseLease, disk
<1>15. ASSUME NEW p \in Pids, ResumeLoad(p) PROVE ContractStep
  BY <1>15, ContractSameStatus DEF ResumeLoad, disk
<1>16. ASSUME NEW p \in Pids, ResumeVerdict(p) PROVE ContractStep
  BY <1>16, ContractSameStatus DEF ResumeVerdict, disk
<1>17. ASSUME NEW p \in Pids, ResumeReread(p) PROVE ContractStep
  BY <1>17, ContractSameStatus DEF ResumeReread, disk
<1>18. ASSUME NEW p \in Pids, NothingReady(p) PROVE ContractStep
  BY <1>18, ContractSameStatus DEF NothingReady, disk
<1>19. ASSUME NEW p \in Pids, StepAside(p) PROVE ContractStep
  BY <1>19, ContractSameStatus DEF StepAside, disk
<1>20. ASSUME NEW p \in Pids, ComposeWave(p) PROVE ContractStep
  BY <1>20, ContractSameStatus DEF ComposeWave, disk
<1>21. ASSUME NEW p \in Pids, MarkStolen(p) PROVE ContractStep
  BY <1>21, ContractSameStatus DEF MarkStolen, disk
<1>22. ASSUME NEW p \in Pids, Launch(p) PROVE ContractStep
  BY <1>22, ContractSameStatus DEF Launch, disk
<1>23. ASSUME NEW p \in Pids, PersistLoad(p) PROVE ContractStep
  BY <1>23, ContractSameStatus DEF PersistLoad, disk
<1>24. ASSUME NEW p \in Pids, FinalizeLoad(p) PROVE ContractStep
  BY <1>24, ContractSameStatus DEF FinalizeLoad, disk
<1>25. ASSUME NEW p \in Pids, WriteFails(p) PROVE ContractStep
  BY <1>25, ContractSameStatus DEF WriteFails, disk
<1>26. ASSUME NEW p \in Pids, Crash(p) PROVE ContractStep
  BY <1>26, ContractSameStatus DEF Crash, disk
<1>27. ASSUME NEW p \in Pids, MarkRunning(p) PROVE ContractStep
  BY <1>27, ContractMarkRunning
<1>28. ASSUME NEW p \in Pids, CancelStop(p) PROVE ContractStep
  BY <1>28, ContractCancelStop
<1>29. ASSUME NEW p \in Pids, ResumeBlocked(p) PROVE ContractStep
  BY <1>29, ContractResumeBlocked
<1>30. ASSUME NEW p \in Pids, FinalizeWrite(p) PROVE ContractStep
  BY <1>30, ContractFinalizeWrite
<1>31. ASSUME NEW p \in Pids, ResumeApply(p) PROVE ContractStep
  BY <1>31, ContractResumeApply
<1>32. ASSUME NEW p \in Pids, MarkStarted(p) PROVE ContractStep
  BY <1>32, ContractMarkStarted
<1>33. ASSUME NEW p \in Pids, ReLane(p) PROVE ContractStep
  BY <1>33, ContractReLane
<1>34. ASSUME NEW p \in Pids, RecordOutcome(p) PROVE ContractStep
  BY <1>34, ContractRecordOutcome
<1>35. CASE UNCHANGED vars
  BY <1>35, ContractSameStatus DEF vars, disk
<1> QED
  BY <1>1, <1>2, <1>3, <1>4, <1>5, <1>6, <1>7, <1>8, <1>9, <1>10,
     <1>11, <1>12, <1>13, <1>14, <1>15, <1>16, <1>17, <1>18, <1>19,
     <1>20, <1>21, <1>22, <1>23, <1>24, <1>25, <1>26, <1>27, <1>28,
     <1>29, <1>30, <1>31, <1>32, <1>33, <1>34, <1>35
     DEF Next, Dispatcher, Supervise, Recover, Walk, Finish

\* The processes implement the contract: no paid step is run again, an attempt
\* is not skipped, results are kept, nothing is published while a step runs, and
\* a final verdict is the one the outcomes call for.
THEOREM ContractHoldsAlways ==
  ASSUME MaxFreezes = 0, "plain" \notin Modes
  PROVE  Spec => ContractHolds
<1>1. Init => RunsInv /\ VerdictInv /\ ReadyInv
  BY RunsInit, VerdictInit DEF Init, ReadyInv
<1>2. Inv /\ RunsInv /\ VerdictInv /\ ReadyInv /\ [Next]_vars
        => RunsInv' /\ VerdictInv' /\ ReadyInv'
  BY RunsStep, VerdictStep, ReadyStep
<1>3. Inv /\ RunsInv /\ VerdictInv /\ ReadyInv /\ [Next]_vars => [Contract!Next]_(Contract!vars)
  BY EveryStepIsContract DEF ContractStep
<1> QED
  BY <1>1, <1>2, <1>3, ContractInit, InvHolds, PTL DEF Spec, ContractHolds, Contract!Spec
=============================================================================
