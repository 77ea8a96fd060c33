----------------------------- MODULE Supervisor -----------------------------
(***************************************************************************)
(* One strategy dispatch and the processes that drive it.                  *)
(*                                                                         *)
(* The dispatcher (cmd/mr-orchestrate/mcp_strategy.go, dispatchIR) writes  *)
(* state.json and spawns a detached supervisor.  Supervisors, operator     *)
(* resumes and sweeps all funnel through driveDispatch (strategyrun.go):   *)
(* take the lease, run recovery if asked (recovery.go, Resume), then walk  *)
(* the DAG (executor.go, Execute), and release the lease.  Several         *)
(* processes may be inside driveDispatch at once: one may be frozen, or    *)
(* dead, while another steals its lease.                                   *)
(*                                                                         *)
(* Every action is one locked Mutate or one lockless Load of state.json,   *)
(* so what a process read and what it later writes are different steps.    *)
(* Time is kept only as the question the code asks of it: is the lease     *)
(* clock (HeartbeatAt, else UpdatedAt) within staleThreshold or not.       *)
(***************************************************************************)
EXTENDS StrategyIR

CONSTANTS Pids,            \* supervisor processes
          Child,           \* the one the dispatcher spawns
          NoPid,           \* SupervisorPID = 0, the lease is free
          MaxConcurrency,  \* StrategyMaxConcurrency
          ReLaneMaxDepth,  \* 1 in production
          RunClasses,      \* the outcomes a node's run can have
          Modes,           \* how operators start a drive: "plain", "resume", "sweep"
          MaxFaults,       \* bound: crashes, failed writes and lost receipts
          MaxFreezes       \* bound: times a living holder's lease runs out

ASSUME SupervisorAssumption ==
  /\ Child \in Pids
  /\ NoPid \notin Pids
  /\ MaxConcurrency \in Nat \ {0}
  /\ ReLaneMaxDepth \in Nat
  /\ RunClasses \subseteq OkClasses \cup RelegateClasses \cup HardClasses
  /\ Modes \subseteq {"plain", "resume", "sweep"}
  /\ MaxFaults \in Nat
  /\ MaxFreezes \in Nat

VARIABLES
  \* state.json
  status,      \* State
  holder,      \* SupervisorPID
  beaten,      \* HeartbeatAt # nil
  fresh,       \* the lease clock is within staleThreshold
  step,        \* StepStatus
  result,      \* ResultRef # ""
  verify,      \* VerifyVerdict and VerifyFlag
  \* the rest of the disk
  cancel,      \* the cancel sentinel exists
  receipts,    \* dispatch.jsonl: the last receipt of (step, attempt)
  \* processes
  dispatcher,  \* where dispatchIR is
  pc,          \* where each supervisor is in driveDispatch
  resuming,    \* --resume was asked
  job,         \* what each supervisor holds in memory about each step
  fin,         \* the verdict a supervisor's finalize has computed
  \* the environment
  faults, freezes,
  \* history, for each (step, attempt): the lane it last ran on, how often it
  \* ran on a cloud lane, and how often it did so marked with a cloud lane
  \* (both counts saturate at 2)
  ran, spent, recorded

disk     == <<status, holder, beaten, fresh, step, result, verify>>
lease    == <<holder, beaten, fresh>>
budget   == <<faults, freezes>>
history  == <<ran, spent, recorded>>
memory   == <<resuming, job, fin>>
vars     == <<disk, cancel, receipts, dispatcher, pc, memory, budget, history>>

-----------------------------------------------------------------------------
(* Types.                                                                  *)

Attempts     == 0 .. ReLaneMaxDepth
States       == {"pending", "running", "working", "deferred", "done", "failed",
                 "blocked", "cancelled"}
LiveStates   == {"running", "working"}
Terminal     == {"deferred", "done", "failed", "blocked", "cancelled"}

NoReceipt    == [lane |-> NoLane, class |-> ""]
Receipt      == [lane : Lanes, class : Outcomes] \cup {NoReceipt}

\* at:  "idle"; in Resume "window" (crash window), "probed" (receipt looked
\*      up), "blocked"; in Execute "picked" (in the wave), "started" (marked),
\*      "running" (its goroutine runs), "returned", then "relane" or "record".
Phases       == {"idle", "window", "probed", "blocked", "picked", "started",
                 "running", "returned", "relane", "record"}
Job          == [at : Phases, attempt : Attempts, lane : Lanes \cup {NoLane},
                 class : Classes \cup {Pending}, verdict : Verdicts]
Idle         == [at |-> "idle", attempt |-> 0, lane |-> NoLane,
                 class |-> Pending, verdict |-> ""]

ResumePcs    == {"load", "reconcile", "rfinload", "rfinwrite", "reread"}
ExecutePcs   == {"beat", "mark", "loop", "start", "launch", "wait", "persist",
                 "finload", "finwrite"}
Driving      == ResumePcs \cup ExecutePcs \cup {"release"}
Pcs          == Driving \cup {"off", "acquire", "dead"}

NoFin        == [state |-> "failed", ref |-> FALSE, verdict |-> "", flag |-> FALSE]

StepRecords  == [class   : Classes \cup {Pending}, started : BOOLEAN,
                 attempt : Attempts, lane : Lanes \cup {NoLane},
                 ref     : BOOLEAN, verdict : Verdicts]
Finals       == [state : States, ref : BOOLEAN, verdict : Verdicts, flag : BOOLEAN]

DiskOK ==
  /\ status \in States
  /\ holder \in Pids \cup {NoPid}
  /\ beaten \in BOOLEAN
  /\ fresh \in BOOLEAN
  /\ step \in [Steps -> StepRecords]
  /\ result \in BOOLEAN
  /\ verify \in [verdict : Verdicts, flag : BOOLEAN]
  /\ cancel \in BOOLEAN
  /\ receipts \in [Steps -> [Attempts -> Receipt]]

ProcessesOK ==
  /\ dispatcher \in {"spawn", "mark", "done"}
  /\ pc \in [Pids -> Pcs]
  /\ resuming \in [Pids -> BOOLEAN]
  /\ job \in [Pids -> [Steps -> Job]]
  /\ fin \in [Pids -> Finals]

HistoryOK ==
  /\ faults \in 0 .. MaxFaults
  /\ freezes \in 0 .. MaxFreezes
  /\ ran \in [Steps -> [Attempts -> Lanes \cup {NoLane}]]
  /\ spent \in [Steps -> [Attempts -> 0 .. 2]]
  /\ recorded \in [Steps -> [Attempts -> 0 .. 2]]

TypeOK == DiskOK /\ ProcessesOK /\ HistoryOK

-----------------------------------------------------------------------------
(* Helpers.                                                                *)

\* Slips: a lease that counts only while the dispatch is published as live; a
\* dispatch that counts as stale only once its supervisor marked it running.
LiveStateHolder == holder # NoPid /\ fresh /\ status \in LiveStates
StaleRunning    == status = "running" /\ ~ fresh

\* leaseHolderLive, and Stale (the supervisor of a live dispatch has died).
LeaseHolderLive == holder # NoPid /\ fresh
Stale           == status \in LiveStates /\ ~ fresh

At(p, phase)    == {s \in Steps : job[p][s].at = phase}
\* Steps are processed in IR order.
First(set)      == {s \in set : \A t \in set : s <= t}
InFlight(p)     == At(p, "started") \cup At(p, "running")

Go(p, to)       == pc' = [pc EXCEPT ![p] = to]
SetJob(p, s, j) == job' = [job EXCEPT ![p][s] = j]

\* prodResolve: the pinned lane, else whatever the router says at this moment
\* (a broken oracle answers "").
Resolve(s) == IF Hint[s] # NoLane THEN {Hint[s]} ELSE Lanes \cup {NoLane}

\* The lane a node runs on.  A first attempt takes the pinned lane, else the
\* router's; a retry asks prodAlternatives anew for a lane other than the one
\* the prior attempt's receipt names, and goes where a first attempt goes when
\* the router offers none at that moment (masked, excluded, incident).
FirstLane(s)    == IF Hint[s] # NoLane THEN {Hint[s]} ELSE Lanes
RunLane(s, att) ==
  IF att = 0 THEN FirstLane(s)
  ELSE (Lanes \ {receipts[s][att - 1].lane}) \cup FirstLane(s)

\* What the receipt says of a run, by the class its exit code gives the node: an
\* "ok" that was costly is "ok", and a deferral is whatever turned it away.
ReceiptClasses(outcome) ==
  CASE outcome = "ok_notional" -> {"ok"}
    [] outcome = "deferred"    -> {"deferred", "rate_limit"} \cup RefusalClasses
    [] OTHER                   -> {outcome}

\* nodeClassFromExit: exits 0, 1, 3 and 4 name the class themselves; exit 5 takes
\* it from the receipt, the one of an earlier run of this attempt if this run's
\* was lost, and "api_error" if there is none.
NodeClass(outcome, kept, old) ==
  IF kept \/ outcome \in OkClasses \cup {"deferred", "config_error"} THEN outcome
  ELSE IF old = NoReceipt THEN "api_error"
  ELSE old.class

Bump(n) == IF n < 2 THEN n + 1 ELSE n

-----------------------------------------------------------------------------
(* dispatchIR: WriteInitial has run; spawn, then pending -> working.       *)

Init ==
  /\ status = "pending" /\ holder = NoPid /\ beaten = FALSE /\ fresh = TRUE
  /\ step = [s \in Steps |-> FreshStep]
  /\ result = FALSE
  /\ verify = [verdict |-> "", flag |-> FALSE]
  /\ cancel = FALSE
  /\ receipts = [s \in Steps |-> [a \in Attempts |-> NoReceipt]]
  /\ dispatcher = "spawn"
  /\ pc = [p \in Pids |-> "off"]
  /\ resuming = [p \in Pids |-> FALSE]
  /\ job = [p \in Pids |-> [s \in Steps |-> Idle]]
  /\ fin = [p \in Pids |-> NoFin]
  /\ faults = 0 /\ freezes = 0
  /\ ran = [s \in Steps |-> [a \in Attempts |-> NoLane]]
  /\ spent = [s \in Steps |-> [a \in Attempts |-> 0]]
  /\ recorded = [s \in Steps |-> [a \in Attempts |-> 0]]

\* The dispatcher's Mutate, after which it is done whether or not the write
\* failed.  It moves UpdatedAt, the lease clock until the first heartbeat.
Publish(to, before) ==
  \/ status' = to /\ fresh' = (fresh \/ ~ beaten) /\ faults' = before
  \/ before < MaxFaults /\ faults' = before + 1 /\ UNCHANGED <<status, fresh>>

Spawn ==
  /\ dispatcher = "spawn" /\ pc[Child] = "off"
  /\ dispatcher' = "mark"
  /\ Go(Child, "acquire")
  /\ resuming' = [resuming EXCEPT ![Child] = FALSE]
  /\ job' = [job EXCEPT ![Child] = [s \in Steps |-> Idle]]
  /\ UNCHANGED <<disk, cancel, receipts, fin, budget, history>>

SpawnFails ==
  /\ dispatcher = "spawn" /\ faults < MaxFaults
  /\ dispatcher' = "done"
  /\ Publish("failed", faults + 1)
  /\ UNCHANGED <<holder, beaten, step, result, verify, cancel, receipts, pc,
                 memory, freezes, history>>

MarkWorking ==
  /\ dispatcher = "mark"
  /\ dispatcher' = "done"
  /\ Publish(IF status = "pending" THEN "working" ELSE status, faults)
  /\ UNCHANGED <<holder, beaten, step, result, verify, cancel, receipts, pc,
                 memory, freezes, history>>

\* strategy_cancel: drop the sentinel.
RequestCancel ==
  /\ ~ cancel
  /\ cancel' = TRUE
  /\ UNCHANGED <<disk, receipts, dispatcher, pc, memory, budget, history>>

-----------------------------------------------------------------------------
(* Entry to driveDispatch and the lease.                                   *)

\* The spawned child has not reached the lease yet.
ChildLate == pc[Child] = "acquire" /\ ~ resuming[Child]

\* strategy-run <id>, strategy-run --resume <id>, and --sweep, which drives
\* only a dispatch it has seen stale.  Nobody knows the id before dispatchIR
\* returns it.  A child so late that another driver came and went is a plain
\* drive of a dispatch under way, and is left to the runs that allow those.
StartDrive(p, mode) ==
  /\ pc[p] = "off" /\ dispatcher = "done"
  /\ ChildLate => "plain" \in Modes
  /\ mode = "sweep" => Stale
  /\ Go(p, "acquire")
  /\ resuming' = [resuming EXCEPT ![p] = mode # "plain"]
  /\ job' = [job EXCEPT ![p] = [s \in Steps |-> Idle]]
  /\ UNCHANGED <<disk, cancel, receipts, dispatcher, fin, budget, history>>

\* AcquireSupervisorLease took it: free, stale, or already ours.
AcquireLease(p) ==
  /\ pc[p] = "acquire"
  /\ holder = p \/ ~ LeaseHolderLive
  /\ holder' = p
  /\ beaten' = (beaten \/ holder # p)
  /\ fresh' = (fresh \/ holder # p)
  /\ Go(p, IF resuming[p] THEN "load" ELSE "beat")
  /\ UNCHANGED <<status, step, result, verify, cancel, receipts, dispatcher,
                 memory, budget, history>>

\* A live holder: refuse, a clean no-op.
RefuseDrive(p) ==
  /\ pc[p] = "acquire"
  /\ holder # p /\ LeaseHolderLive
  /\ Go(p, "off")
  /\ UNCHANGED <<disk, cancel, receipts, dispatcher, memory, budget, history>>

\* HeartbeatOwned, at once when Execute is about to run; its error is ignored ...
FirstBeat(p) ==
  /\ pc[p] = "beat"
  /\ Go(p, "mark")
  /\ fresh' \in {fresh, fresh \/ holder = p}
  /\ UNCHANGED <<status, holder, beaten, step, result, verify, cancel, receipts,
                 dispatcher, memory, budget, history>>

\* ... and then on the ticker, for as long as the lease is ours.  One beat that
\* fails ends the ticker for good (owned = false): the holder works on, Freeze
\* lets its lease run out, and this step is never taken again.
Heartbeat(p) ==
  /\ pc[p] \in ExecutePcs \ {"beat"}
  /\ holder = p /\ ~ fresh
  /\ fresh' = TRUE
  /\ UNCHANGED <<status, holder, beaten, step, result, verify, cancel, receipts,
                 dispatcher, pc, memory, budget, history>>

\* ReleaseSupervisorLease, deferred: clears the lease only if it is ours.  The
\* goroutines of an abandoned wave live on until the process ends.
ReleaseLease(p) ==
  /\ pc[p] = "release"
  /\ holder' = IF holder = p THEN NoPid ELSE holder
  /\ Go(p, "off")
  /\ job' = [job EXCEPT ![p] = [s \in Steps |->
               IF @[s].at = "running" THEN @[s] ELSE Idle]]
  /\ fin' = [fin EXCEPT ![p] = NoFin]
  /\ UNCHANGED <<status, beaten, fresh, step, result, verify, cancel, receipts,
                 dispatcher, resuming, budget, history>>

-----------------------------------------------------------------------------
(* Resume: reconcile the steps that were started but have no outcome.      *)

\* (Slip: every started step is taken for unfinished.)
Started(s)     == step[s].started
CrashWindow(s) == step[s].started /\ step[s].class = Pending

ResumeLoad(p) ==
  /\ pc[p] = "load"
  /\ Go(p, "reconcile")
  /\ job' = [job EXCEPT ![p] = [s \in Steps |->
               IF CrashWindow(s)
               THEN [Idle EXCEPT !.at = "window", !.attempt = step[s].attempt,
                                 !.lane = step[s].lane]
               ELSE Idle]]
  /\ UNCHANGED <<disk, cancel, receipts, dispatcher, resuming, fin, budget, history>>

\* Slips: any receipt is proof of success; without one, the step is run again
\* whatever its lane.
ReceiptMeansOk(j, receipt) ==
  IF receipt # NoReceipt THEN "ok" ELSE IF j.lane = Local THEN Pending ELSE "blocked"
RetryUnproven(j, receipt) ==
  IF receipt # NoReceipt THEN receipt.class ELSE Pending

\* resolveAction, as the outcome class it is going to write: the receipt's
\* (actReconcile, actRecord), none (actRetry, a local step) or "blocked".
RecoveredClass(j, receipt) ==
  IF receipt # NoReceipt THEN receipt.class
  ELSE IF j.lane = Local THEN Pending
  ELSE "blocked"

\* receiptFor, for the next step of the crash window.
ResumeProbe(p) ==
  /\ pc[p] = "reconcile" /\ At(p, "probed") = {}
  /\ \E s \in First(At(p, "window")) :
       LET j == job[p][s]
       IN  SetJob(p, s, [j EXCEPT !.at = "probed",
                                  !.class = RecoveredClass(j, receipts[s][j.attempt])])
  /\ UNCHANGED <<disk, cancel, receipts, dispatcher, pc, resuming, fin, budget, history>>

\* The Mutate of the four recovery actions.
ResumeApply(p) ==
  /\ pc[p] = "reconcile"
  /\ \E s \in At(p, "probed") :
       LET class == job[p][s].class
       IN  /\ step' = [step EXCEPT ![s].class = class,
                                   ![s].started = @ /\ class # Pending]
           /\ SetJob(p, s, [Idle EXCEPT !.at = IF class = "blocked" THEN "blocked"
                                               ELSE "idle"])
  /\ UNCHANGED <<status, lease, result, verify, cancel, receipts, dispatcher, pc,
                 resuming, fin, budget, history>>

Reconciled(p) == pc[p] = "reconcile" /\ At(p, "window") \cup At(p, "probed") = {}

\* A step blocked in this pass stops the dispatch.
ResumeBlocked(p) ==
  /\ Reconciled(p) /\ At(p, "blocked") # {}
  /\ status' = "blocked"
  /\ Go(p, "release")
  /\ UNCHANGED <<lease, step, result, verify, cancel, receipts, dispatcher,
                 memory, budget, history>>

\* Runnable steps remain: Execute; none: the DAG is terminal, finalize it.
ResumeVerdict(p) ==
  /\ Reconciled(p) /\ At(p, "blocked") = {}
  /\ Go(p, IF ReadySet(step) # {} THEN "beat" ELSE "rfinload")
  /\ UNCHANGED <<disk, cancel, receipts, dispatcher, memory, budget, history>>

\* blockedOrState on the finalized state, and driveDispatch's switch on it: a
\* verdict that is not terminal falls through to Execute.
ResumeReread(p) ==
  /\ pc[p] = "reread"
  /\ Go(p, IF AnyBlocked(step) \/ status \in Terminal THEN "release" ELSE "beat")
  /\ UNCHANGED <<disk, cancel, receipts, dispatcher, memory, budget, history>>

-----------------------------------------------------------------------------
(* Execute: the Kahn walk.                                                 *)

MarkRunning(p) ==
  /\ pc[p] = "mark"
  /\ status' = "running"
  /\ Go(p, "loop")
  /\ UNCHANGED <<lease, step, result, verify, cancel, receipts, dispatcher,
                 memory, budget, history>>

\* The sentinel, checked between waves.
CancelStop(p) ==
  /\ pc[p] = "loop" /\ cancel
  /\ status' = "cancelled"
  /\ Go(p, "release")
  /\ UNCHANGED <<lease, step, result, verify, cancel, receipts, dispatcher,
                 memory, budget, history>>

NothingReady(p) ==
  /\ pc[p] = "loop" /\ ~ cancel /\ ReadySet(step) = {}
  /\ Go(p, "finload")
  /\ UNCHANGED <<disk, cancel, receipts, dispatcher, memory, budget, history>>

\* The wave-boundary guard: the loaded state no longer names this process.
StepAside(p) ==
  /\ pc[p] = "loop" /\ ~ cancel /\ ReadySet(step) # {} /\ holder # p
  /\ Go(p, "release")
  /\ UNCHANGED <<disk, cancel, receipts, dispatcher, memory, budget, history>>

\* Compose the wave; the attempt each node will be marked with is this Load's.
ComposeWave(p) ==
  /\ pc[p] = "loop" /\ ~ cancel /\ ReadySet(step) # {} /\ holder = p
  /\ \E lane \in {f \in [ReadySet(step) -> Lanes \cup {NoLane}] :
                    \A s \in ReadySet(step) : f[s] \in Resolve(s)} :
       job' = [job EXCEPT ![p] = [s \in Steps |->
                 IF s \in PickWave(ReadySet(step), lane, MaxConcurrency)
                 THEN [Idle EXCEPT !.at = "picked", !.attempt = step[s].attempt]
                 ELSE Idle]]
  /\ Go(p, "start")
  /\ UNCHANGED <<disk, cancel, receipts, dispatcher, resuming, fin, budget, history>>

\* (Slip: the ownership check is left to the wave boundary.)
MarkUnguarded(p) ==
  /\ pc[p] = "start"
  /\ \E s \in First(At(p, "picked")) : \E lane \in Resolve(s) :
       /\ step' = [step EXCEPT ![s].started = TRUE,
                               ![s].attempt = job[p][s].attempt,
                               ![s].lane = lane]
       /\ SetJob(p, s, [job[p][s] EXCEPT !.at = "started", !.lane = lane])
  /\ Go(p, "launch")
  /\ UNCHANGED <<status, lease, result, verify, cancel, receipts, dispatcher,
                 resuming, fin, budget, history>>

\* mark-started, with the ownership check inside the same Mutate.
MarkStarted(p) ==
  /\ pc[p] = "start" /\ holder = p
  /\ \E s \in First(At(p, "picked")) : \E lane \in Resolve(s) :
       /\ step' = [step EXCEPT ![s].started = TRUE,
                               ![s].attempt = job[p][s].attempt,
                               ![s].lane = lane]
       /\ SetJob(p, s, [job[p][s] EXCEPT !.at = "started", !.lane = lane])
  /\ Go(p, "launch")
  /\ UNCHANGED <<status, lease, result, verify, cancel, receipts, dispatcher,
                 resuming, fin, budget, history>>

\* The lease was stolen: return at once, without waiting for the nodes of the
\* wave that already run.
MarkStolen(p) ==
  /\ pc[p] = "start" /\ holder # p
  /\ Go(p, "release")
  /\ UNCHANGED <<disk, cancel, receipts, dispatcher, memory, budget, history>>

\* go run(...): the node is dispatched to its lane, and quota is spent unless
\* the lane is the local one.
Launch(p) ==
  /\ pc[p] = "launch"
  /\ \E s \in At(p, "started") : \E lane \in RunLane(s, job[p][s].attempt) :
       LET att  == job[p][s].attempt
           paid == lane # Local
       IN  /\ SetJob(p, s, [job[p][s] EXCEPT !.at = "running", !.lane = lane])
           /\ ran' = [ran EXCEPT ![s][att] = lane]
           /\ spent' = IF paid THEN [spent EXCEPT ![s][att] = Bump(@)] ELSE spent
           /\ recorded' = IF paid /\ job[p][s].lane # Local
                          THEN [recorded EXCEPT ![s][att] = Bump(@)] ELSE recorded
  /\ Go(p, IF At(p, "picked") # {} THEN "start" ELSE "wait")
  /\ UNCHANGED <<disk, cancel, receipts, dispatcher, resuming, fin, budget>>

\* The node ends: doRun appends the one receipt of this (step, attempt), except
\* for a bad-arguments failure, and the result goes to the waiting wave.  The
\* append itself may fail, with a warning.
NodeReturns(p, s) ==
  /\ pc[p] # "dead" /\ job[p][s].at = "running"
  /\ \E outcome \in RunClasses, verdict \in IF s \in Verifiers THEN Verdicts ELSE {""},
        kept \in BOOLEAN :
       LET j == job[p][s]
       IN  /\ outcome = "config_error" => ~ kept
           /\ ~ kept /\ outcome # "config_error" => faults < MaxFaults
           /\ faults' = IF kept \/ outcome = "config_error" THEN faults ELSE faults + 1
           /\ \E class \in ReceiptClasses(outcome) :
                receipts' = IF kept
                            THEN [receipts EXCEPT ![s][j.attempt] =
                                    [lane |-> j.lane, class |-> class]]
                            ELSE receipts
           /\ SetJob(p, s, IF pc[p] \in ExecutePcs
                           THEN [j EXCEPT !.at = "returned", !.verdict = verdict,
                                   !.class = NodeClass(outcome, kept, receipts[s][j.attempt])]
                           ELSE Idle)
  /\ UNCHANGED <<disk, cancel, dispatcher, pc, resuming, fin, freezes, history>>

\* (Slips: the depth is compared with <=; whatever is not ok is tried elsewhere.)
OneReLaneTooMany(class, att, lane) ==
  HardFailed(class) /\ att <= ReLaneMaxDepth /\ Lanes \ {lane} # {}
ReLaneWhatParks(class, att, lane) ==
  ~ Ok(class) /\ att < ReLaneMaxDepth /\ Lanes \ {lane} # {}
MayReLane(class, att, lane) ==
  HardFailed(class) /\ att < ReLaneMaxDepth /\ Lanes \ {lane} # {}

\* persistOutcome, its Load: a hard failure is re-laned while the attempt on
\* disk is below the depth and another lane is available.
PersistLoad(p) ==
  /\ pc[p] = "wait" /\ InFlight(p) = {}
  /\ \E s \in First(At(p, "returned")) :
       LET j   == job[p][s]
           cur == step[s].attempt
       IN  \E relane \in {MayReLane(j.class, cur, j.lane), FALSE} :
             SetJob(p, s, [j EXCEPT !.at = IF relane THEN "relane" ELSE "record",
                                    !.attempt = cur])
  /\ Go(p, "persist")
  /\ UNCHANGED <<disk, cancel, receipts, dispatcher, resuming, fin, budget, history>>

AfterPersist(p) == Go(p, IF At(p, "returned") # {} THEN "wait" ELSE "loop")

\* persistOutcome, its Mutate: reset the step for one retry ...
ReLane(p) ==
  /\ pc[p] = "persist"
  /\ \E s \in At(p, "relane") :
       /\ step' = [step EXCEPT ![s].attempt = job[p][s].attempt + 1,
                               ![s].class = Pending,
                               ![s].started = FALSE]
       /\ SetJob(p, s, Idle)
  /\ AfterPersist(p)
  /\ UNCHANGED <<status, lease, result, verify, cancel, receipts, dispatcher,
                 resuming, fin, budget, history>>

\* ... or record the outcome, terminal for this attempt.
RecordOutcome(p) ==
  /\ pc[p] = "persist"
  /\ \E s \in At(p, "record") :
       LET j == job[p][s]
       IN  /\ step' = [step EXCEPT ![s].class = j.class,
                                   ![s].ref = TRUE,
                                   ![s].lane = j.lane,
                                   ![s].verdict = IF j.verdict # "" THEN j.verdict ELSE @]
           /\ SetJob(p, s, Idle)
  /\ AfterPersist(p)
  /\ UNCHANGED <<status, lease, result, verify, cancel, receipts, dispatcher,
                 resuming, fin, budget, history>>

\* finalize, its Load, at the end of Execute and of Resume.
FinalizeLoad(p) ==
  /\ pc[p] \in {"finload", "rfinload"}
  /\ fin' = [fin EXCEPT ![p] = [state |-> FinalState(step), ref |-> FinalRef(step),
                                verdict |-> FinalVerdict(step),
                                flag |-> FinalFlag(step)]]
  /\ Go(p, IF pc[p] = "finload" THEN "finwrite" ELSE "rfinwrite")
  /\ UNCHANGED <<disk, cancel, receipts, dispatcher, resuming, job, budget, history>>

FinalizeWrite(p) ==
  /\ pc[p] \in {"finwrite", "rfinwrite"}
  /\ status' = fin[p].state
  /\ result' = fin[p].ref
  /\ verify' = [verdict |-> fin[p].verdict, flag |-> fin[p].flag]
  /\ Go(p, IF pc[p] = "finwrite" THEN "release" ELSE "reread")
  /\ UNCHANGED <<lease, step, cancel, receipts, dispatcher, memory, budget, history>>

-----------------------------------------------------------------------------
(* The environment.                                                        *)

\* Any Load, Mutate or Journal error (lock busy, write failure) returns
\* through the deferred release; the nodes of the wave launched so far are
\* abandoned.
WriteFails(p) ==
  /\ pc[p] \in Driving \ {"release"} /\ faults < MaxFaults
  /\ pc[p] = "wait" => InFlight(p) = {}
  /\ faults' = faults + 1
  /\ Go(p, "release")
  /\ UNCHANGED <<disk, cancel, receipts, dispatcher, memory, freezes, history>>

Crash(p) ==
  /\ pc[p] \in Driving \cup {"acquire"} /\ faults < MaxFaults
  /\ faults' = faults + 1
  /\ Go(p, "dead")
  /\ job' = [job EXCEPT ![p] = [s \in Steps |-> Idle]]
  /\ fin' = [fin EXCEPT ![p] = NoFin]
  /\ UNCHANGED <<disk, cancel, receipts, dispatcher, resuming, freezes, history>>

HolderAlive == holder # NoPid /\ pc[holder] \in Driving

\* The clock passes staleThreshold since the last beat: nobody alive holds the
\* lease ...
Lapse ==
  /\ fresh /\ ~ HolderAlive
  /\ fresh' = FALSE
  /\ UNCHANGED <<status, holder, beaten, step, result, verify, cancel, receipts,
                 dispatcher, pc, memory, budget, history>>

\* ... or its living holder does not beat: it is frozen (laptop sleep), in a long
\* Resume, which has no ticker, or its ticker ended with a failed beat.
Freeze ==
  /\ fresh /\ HolderAlive /\ freezes < MaxFreezes
  /\ fresh' = FALSE
  /\ freezes' = freezes + 1
  /\ UNCHANGED <<status, holder, beaten, step, result, verify, cancel, receipts,
                 dispatcher, pc, memory, faults, history>>

-----------------------------------------------------------------------------
Recover(p)  == \/ ResumeLoad(p) \/ ResumeProbe(p) \/ ResumeApply(p)
               \/ ResumeBlocked(p) \/ ResumeVerdict(p) \/ ResumeReread(p)

Walk(p)     == \/ FirstBeat(p) \/ MarkRunning(p) \/ CancelStop(p) \/ NothingReady(p)
               \/ StepAside(p) \/ ComposeWave(p) \/ MarkStarted(p) \/ MarkStolen(p)
               \/ Launch(p) \/ PersistLoad(p) \/ ReLane(p) \/ RecordOutcome(p)
               \/ \E s \in Steps : NodeReturns(p, s)

Finish(p)   == FinalizeLoad(p) \/ FinalizeWrite(p) \/ ReleaseLease(p)

Supervise(p) == AcquireLease(p) \/ RefuseDrive(p) \/ Recover(p) \/ Walk(p) \/ Finish(p)

Dispatcher  == Spawn \/ SpawnFails \/ MarkWorking

Next ==
  \/ Dispatcher
  \/ RequestCancel
  \/ Lapse
  \/ Freeze
  \/ \E p \in Pids : \/ \E mode \in Modes : StartDrive(p, mode)
                     \/ Supervise(p)
                     \/ Heartbeat(p)
                     \/ WriteFails(p)
                     \/ Crash(p)

Spec == Init /\ [][Next]_vars

\* The processes run unless they crash, time passes, and a nightshift task
\* keeps running the sweep.
FairSpec ==
  /\ Spec
  /\ WF_vars(Dispatcher)
  /\ WF_vars(Lapse)
  /\ \A p \in Pids : /\ WF_vars(Supervise(p))
                     /\ WF_vars(StartDrive(p, "sweep"))

-----------------------------------------------------------------------------
(* Properties.                                                             *)

Attended(p) == pc[p] \in Driving

\* At most one process is inside driveDispatch past the lease ("so no two
\* supervisors ever drive one dispatch", strategyrun.go): a crash, an abandoned
\* drive or a release never lets a second one in beside a living first.  Where no
\* living holder's lease runs out (MaxFreezes = 0): a freeze, or one failed
\* heartbeat, which ends the ticker, does let a second one in.
OneDriver == \A p, q \in Pids : Attended(p) /\ Attended(q) => p = q

\* A paid run is never repeated: whatever crashes, resumes and lease thefts
\* happen, an attempt that state.json marked with a cloud lane is run on a
\* cloud lane at most once (the R10 rule of recovery.go and executor.go).
NoSecondMarkedRun == \A s \in Steps, a \in Attempts : recorded[s][a] <= 1

\* The same rule without regard to what state.json said: no attempt is run
\* twice on cloud lanes.
NoSecondPaidRun == \A s \in Steps, a \in Attempts : spent[s][a] <= 1

\* A dispatch published as done has every step ok, not only the terminal one
\* finalize looks at: nothing hard-failed, was blocked, or is still to be run.
DoneIsComplete == status = "done" => \A s \in Steps : Ok(step[s].class)

\* A node runs only while all its dependencies are ok on disk, also when the
\* wave was composed from a state read before another process recovered it.
DepsHold ==
  \A p \in Pids, s \in Steps :
    job[p][s].at \in {"started", "running"} => \A d \in Deps[s] : Ok(step[d].class)

\* A step that state.json says is ok has a receipt, for that very attempt, that
\* says ok, unless the receipt was lost: recovery and the walk never credit a
\* step with another attempt's result, or with a failed one.  (The class itself
\* may differ: a costly success is "ok_notional" here and "ok" there.)  Of
\* chains: beside a parallel step a local node that was abandoned may return
\* after recovery ran its step again, and then its late receipt is the last one.
OutcomeHasReceipt ==
  \A s \in Steps : LET receipt == receipts[s][step[s].attempt]
                   IN  Ok(step[s].class) => receipt = NoReceipt \/ Ok(receipt.class)

\* The one re-lane is spent on a failure only: a step is at a later attempt only
\* if the receipt of the attempt before says it failed, or there is none; a rate
\* limit or a run that was cut off is never tried elsewhere (classifyOutcome),
\* not through a crash and a recovery either.
ReLaneIsEarned ==
  \A s \in Steps : step[s].attempt > 0 =>
    LET before == receipts[s][step[s].attempt - 1]
    IN  before = NoReceipt \/ HardFailed(before.class)

\* The one re-lane escalates to a different lane than the attempt that failed
\* (the max_depth=1 guarantee of prodNodeRunner).
RetryLeavesLane ==
  \A s \in Steps : \A a \in Attempts \ {0} :
    ran[s][a] # NoLane /\ ran[s][a - 1] # NoLane => ran[s][a] # ran[s][a - 1]

\* A dispatch that finished over the objection of its terminal verifier says so
\* (finalize's verify flag), also when a resume finalized it.
RejectionIsFlagged ==
  status = "done" /\ step[LastStep].verdict = "no" => verify.flag

\* A step recovery had to block stays in the operator's sight, whoever drives,
\* left or died since: the dispatch is published as blocked, never as failed,
\* deferred or done (finalize's and Resume's precedence), unless the operator
\* cancelled it or it looks live, and then a sweep takes it up.
BlockedIsPublished ==
  AnyBlocked(step) => status \in {"blocked", "cancelled"} \cup LiveStates

\* An ok outcome is never overwritten or reset ("two writers never lose a
\* write", Mutate): not by recovery, not by a re-lane, not by a later driver.
\* Where no living holder's lease runs out (no freeze and no failed heartbeat);
\* the frozen_overwrite run shows what a woken holder does.
OkIsKept ==
  [][\A s \in Steps : Ok(step[s].class) => step'[s].class = step[s].class]_vars

\* A blocked dispatch waits for the operator: resuming it once more does not set
\* it going again ("Resume is idempotent: a second pass over a blocked state
\* re-derives the same verdict", recovery.go).
BlockStops == [][status = "blocked" => status' # "running"]_vars

\* Every dispatch is eventually settled: whatever crashes, the sweep finds the
\* stale dispatch and some supervisor brings it to a terminal state.  Of a single
\* fault: a failed spawn, or a dead child, whose dispatcher then also fails to
\* write leaves it "pending", which no sweep drives.
Settles == status \notin Terminal ~> status \in Terminal

\* The contract, read off state.json.
PhaseOf(s) ==
  LET class == step[s].class
  IN  IF class = Pending THEN IF step[s].started THEN "running" ELSE "todo"
      ELSE IF class = "blocked" THEN "blocked"
      ELSE IF Ok(class) THEN "ok"
      ELSE IF Relegated(class) THEN "relegated"
      ELSE "failed"

Contract == INSTANCE DispatchContract WITH
  MaxAttempt <- ReLaneMaxDepth,
  phase      <- [s \in Steps |-> PhaseOf(s)],
  attempt    <- [s \in Steps |-> step[s].attempt],
  paid       <- [s \in Steps |-> PhaseOf(s) = "running" /\ step[s].lane # Local],
  verdict    <- IF status \in Terminal THEN status ELSE "open"

\* While no living holder's lease runs out (MaxFreezes = 0: it is not frozen, and
\* no heartbeat of its fails), the processes together do what
\* DispatchContract promises: no paid step is run again, results are kept, and
\* a final verdict is published only when nothing runs.
ContractHolds == Contract!Spec
=============================================================================
