-------------------------- MODULE Supervisor_proofs --------------------------
(***************************************************************************)
(* What holds of Supervisor for every DAG, every set of processes and      *)
(* every bound on crashes: its types, that one process drives at a time,   *)
(* and, as long as no living holder misses its heartbeats, what the walk   *)
(* and the recovery do with outcomes.                                      *)
(***************************************************************************)
EXTENDS Supervisor, WellFoundedInduction, TLAPS

-----------------------------------------------------------------------------
(* Facts about the DAG that hold for any number of steps.                  *)

\* Natural numbers have minima, without induction over an operator.
LEMMA LeastNatural ==
  ASSUME NEW T \in SUBSET Nat, T # {}
  PROVE  \E m \in T : \A n \in T : m <= n
<1>1. IsWellFoundedOn(OpToRel(<, Nat), Nat)
  BY NatLessThanWellFounded
<1>2. PICK m \in T : \A n \in T : <<n, m>> \notin OpToRel(<, Nat)
  BY <1>1, WFMin
<1>3. ASSUME NEW n \in T PROVE m <= n
  <2>1. <<n, m>> \notin {ss \in Nat \X Nat : ss[1] < ss[2]}
    BY <1>2 DEF OpToRel
  <2>2. n \in Nat /\ m \in Nat
    OBVIOUS
  <2> QED
    BY <2>1, <2>2
<1> QED
  BY <1>3

\* Every set of steps has a last one.
LEMMA LastOfSteps ==
  ASSUME NEW T \in SUBSET Steps, T # {}
  PROVE  \E s \in T : \A t \in T : t <= s
<1> DEFINE U == {NumSteps - t : t \in T}
<1>1. NumSteps \in Nat /\ \A t \in T : t \in 1 .. NumSteps
  BY IRAssumption DEF Steps
<1>2. U \in SUBSET Nat /\ U # {}
  BY <1>1
<1>3. PICK m \in U : \A n \in U : m <= n
  <2> HIDE DEF U
  <2> QED
    BY <1>2, LeastNatural
<1>4. PICK s \in T : m = NumSteps - s
  BY <1>3
<1>5. ASSUME NEW t \in T PROVE t <= s
  <2>1. m <= NumSteps - t
    BY <1>3
  <2>2. t \in Nat /\ s \in Nat
    BY <1>1
  <2> QED
    BY <1>1, <1>4, <2>1, <2>2
<1> QED
  BY <1>5

\* The terminal step collects every branch: a set of steps that holds the last
\* step and, with a step, all it depends on, holds every step (what Validate's
\* unique-sink rule is for).
LEMMA EveryStepFeedsLast ==
  ASSUME NEW G \in SUBSET Steps, LastStep \in G, \A s \in G : Deps[s] \subseteq G
  PROVE  G = Steps
<1> SUFFICES ASSUME Steps \ G # {} PROVE FALSE
  OBVIOUS
<1>1. PICK s \in Steps \ G : \A t \in Steps \ G : t <= s
  BY LastOfSteps
<1>2. PICK t \in Steps : s \in Deps[t]
  BY IRAssumption
<1>3. s < t
  BY <1>2, IRAssumption
<1>4. t \in Steps \ G
  BY <1>2
<1>5. s \in Int /\ t \in Int
  BY DEF Steps
<1> QED
  BY <1>1, <1>3, <1>4, <1>5

-----------------------------------------------------------------------------
(* Type correctness.  Two facts about a process's memory are needed beside *)
(* the types: a step about to be re-laned is below the depth, and a node   *)
(* that runs has a lane.                                                   *)

JobsInRange ==
  \A p \in Pids, s \in Steps :
    /\ job[p][s].at = "relane" => job[p][s].attempt < ReLaneMaxDepth
    /\ job[p][s].at = "running" => job[p][s].lane \in Lanes

TypeInv == TypeOK /\ JobsInRange

\* The records the initial state is made of, and every record written later,
\* are well formed.
LEMMA FreshTypes ==
  /\ FreshStep \in StepRecords
  /\ NoReceipt \in Receipt
  /\ Idle \in Job
  /\ NoFin \in Finals
  /\ Pending # "blocked"
<1>1. 0 \in Attempts
  BY SupervisorAssumption DEF Attempts
<1>2. FreshStep \in StepRecords
  BY <1>1 DEF FreshStep, StepRecords, Verdicts
<1>3. Idle \in Job
  BY <1>1 DEF Idle, Job, Phases, Verdicts
<1>4. NoFin \in Finals
  BY DEF NoFin, Finals, States, Verdicts
<1> QED
  BY <1>2, <1>3, <1>4 DEF Receipt, Pending

\* A table with one value everywhere.
LEMMA ConstantMatrix ==
  ASSUME NEW S, NEW T, NEW V, NEW v \in V
  PROVE  [s \in S |-> [t \in T |-> v]] \in [S -> [T -> V]]
OBVIOUS

\* The initial state has the types.
LEMMA TypeInit == Init => TypeInv
<1> SUFFICES ASSUME Init PROVE TypeInv
  OBVIOUS
<1>1. DiskOK
  BY FreshTypes DEF Init, DiskOK, States, Verdicts
<1>2. ProcessesOK
  BY FreshTypes DEF Init, ProcessesOK, Pcs
<1>3. HistoryOK
  <2>1. faults = 0 /\ freezes = 0 /\ MaxFaults \in Nat /\ MaxFreezes \in Nat
    BY SupervisorAssumption DEF Init
  <2>2. faults \in 0 .. MaxFaults /\ freezes \in 0 .. MaxFreezes
    BY <2>1
  <2>3. ran \in [Steps -> [Attempts -> Lanes \cup {NoLane}]]
    BY ConstantMatrix DEF Init
  <2>4. 0 \in 0 .. 2
    OBVIOUS
  <2>5. /\ spent \in [Steps -> [Attempts -> 0 .. 2]]
        /\ recorded \in [Steps -> [Attempts -> 0 .. 2]]
    BY <2>4, ConstantMatrix, Zenon DEF Init
  <2> QED
    BY <2>2, <2>3, <2>5 DEF HistoryOK
<1>4. JobsInRange
  BY DEF Init, JobsInRange, Idle
<1> QED
  BY <1>1, <1>2, <1>3, <1>4 DEF TypeInv, TypeOK

-----------------------------------------------------------------------------
(* Every step keeps the types: how memory is updated, then one lemma per   *)
(* action.                                                                 *)

\* JobsInRange, of one job.
InRange(j) == /\ j.at = "relane" => j.attempt < ReLaneMaxDepth
              /\ j.at = "running" => j.lane \in Lanes

\* An idle job carries neither.
LEMMA IdleInRange == InRange(Idle)
BY DEF InRange, Idle

\* One job replaced by a well-formed one ...
LEMMA SetJobType ==
  ASSUME TypeInv, NEW p \in Pids, NEW s \in Steps, NEW j \in Job, InRange(j),
         SetJob(p, s, j)
  PROVE  job' \in [Pids -> [Steps -> Job]] /\ JobsInRange'
BY DEF TypeInv, TypeOK, ProcessesOK, JobsInRange, InRange, SetJob

\* ... or all the jobs of one process.
LEMMA SetJobsType ==
  ASSUME TypeInv, NEW p \in Pids, NEW row \in [Steps -> Job],
         \A s \in Steps : InRange(row[s]),
         job' = [job EXCEPT ![p] = row]
  PROVE  job' \in [Pids -> [Steps -> Job]] /\ JobsInRange'
BY DEF TypeInv, TypeOK, ProcessesOK, JobsInRange, InRange

\* ... in particular, all of them dropped.
LEMMA SetIdleType ==
  ASSUME TypeInv, NEW p \in Pids, job' = [job EXCEPT ![p] = [s \in Steps |-> Idle]]
  PROVE  job' \in [Pids -> [Steps -> Job]] /\ JobsInRange'
<1> DEFINE row == [s \in Steps |-> Idle]
<1>1. row \in [Steps -> Job] /\ \A s \in Steps : InRange(row[s])
  BY FreshTypes, IdleInRange
<1> HIDE DEF row
<1> QED
  BY <1>1, SetJobsType DEF row

\* One step record replaced by a well-formed one.
LEMMA SetStepType ==
  ASSUME TypeInv, NEW s \in Steps, NEW r \in StepRecords,
         step' = [step EXCEPT ![s] = r]
  PROVE  step' \in [Steps -> StepRecords]
BY DEF TypeInv, TypeOK, DiskOK

\* The saturating counters of the history stay in range.
LEMMA BumpCounter ==
  ASSUME NEW n \in 0 .. 2
  PROVE  Bump(n) \in 0 .. 2
BY DEF Bump

\* What finalize computes is a terminal state and a verdict some step holds.
LEMMA FinalTypes ==
  ASSUME TypeInv
  PROVE  /\ FinalState(step) \in States
         /\ FinalRef(step) \in BOOLEAN
         /\ FinalVerdict(step) \in Verdicts
         /\ FinalFlag(step) \in BOOLEAN
<1>1. FinalState(step) \in States
  BY DEF FinalState, States
<1>2. LastStep \in Steps
  BY IRAssumption DEF LastStep, Steps
<1>3. FinalRef(step) \in BOOLEAN
  BY <1>2 DEF FinalRef, TypeInv, TypeOK, DiskOK, StepRecords
<1>4. FinalVerdict(step) \in Verdicts
  <2> DEFINE judged == {s \in Steps : step[s].verdict # ""}
  <2>1. CASE judged = {}
    BY <2>1 DEF FinalVerdict, Verdicts
  <2>2. CASE judged # {}
    <3>1. \E s \in judged : \A t \in judged : t <= s
      BY <2>2, LastOfSteps
    <3>2. PICK s \in judged : FinalVerdict(step) = step[s].verdict
      BY <2>2, <3>1 DEF FinalVerdict
    <3>3. step[s] \in StepRecords
      BY DEF TypeInv, TypeOK, DiskOK
    <3> QED
      BY <3>2, <3>3 DEF StepRecords
  <2> QED
    BY <2>1, <2>2
<1> QED
  BY <1>1, <1>3, <1>4 DEF FinalFlag

\* Spawn: dispatchIR starts the child with an empty memory.
LEMMA TypeSpawn ==
  ASSUME TypeInv, Spawn
  PROVE  TypeInv'
<1> USE DEF TypeInv, TypeOK
<1>a. job' \in [Pids -> [Steps -> Job]] /\ JobsInRange'
  BY SetIdleType, SupervisorAssumption DEF Spawn
<1>1. DiskOK'
  BY SupervisorAssumption DEF DiskOK, States, Spawn, disk, lease
<1>2. ProcessesOK'
  BY <1>a, FreshTypes, SupervisorAssumption DEF ProcessesOK, Pcs, Driving, Spawn, Go
<1>3. HistoryOK'
  BY SupervisorAssumption DEF HistoryOK, Spawn, budget, history
<1>4. JobsInRange'
  BY <1>a
<1> QED
  BY <1>1, <1>2, <1>3, <1>4

\* SpawnFails: a spawn that fails publishes "failed".
LEMMA TypeSpawnFails ==
  ASSUME TypeInv, SpawnFails
  PROVE  TypeInv'
<1> USE DEF TypeInv, TypeOK
<1>1. DiskOK'
  BY DEF DiskOK, States, SpawnFails, Publish
<1>2. ProcessesOK'
  BY DEF ProcessesOK, Pcs, Driving, ResumePcs, ExecutePcs, SpawnFails, Go, memory
<1>3. HistoryOK'
  BY SupervisorAssumption DEF HistoryOK, SpawnFails, Publish, history
<1>4. JobsInRange'
  BY DEF JobsInRange, SpawnFails, memory
<1> QED
  BY <1>1, <1>2, <1>3, <1>4

\* MarkWorking: dispatchIR publishes "working".
LEMMA TypeMarkWorking ==
  ASSUME TypeInv, MarkWorking
  PROVE  TypeInv'
<1> USE DEF TypeInv, TypeOK
<1>1. DiskOK'
  BY DEF DiskOK, States, MarkWorking, Publish
<1>2. ProcessesOK'
  BY DEF ProcessesOK, Pcs, Driving, ResumePcs, ExecutePcs, MarkWorking, Go, memory
<1>3. HistoryOK'
  BY SupervisorAssumption DEF HistoryOK, MarkWorking, Publish, history
<1>4. JobsInRange'
  BY DEF JobsInRange, MarkWorking, memory
<1> QED
  BY <1>1, <1>2, <1>3, <1>4

\* RequestCancel: the cancel sentinel appears.
LEMMA TypeRequestCancel ==
  ASSUME TypeInv, RequestCancel
  PROVE  TypeInv'
<1> USE DEF TypeInv, TypeOK
<1>1. DiskOK'
  BY SupervisorAssumption DEF DiskOK, States, RequestCancel, disk, lease
<1>2. ProcessesOK'
  BY DEF ProcessesOK, Pcs, Driving, ResumePcs, ExecutePcs, RequestCancel, Go, memory
<1>3. HistoryOK'
  BY SupervisorAssumption DEF HistoryOK, RequestCancel, budget, history
<1>4. JobsInRange'
  BY DEF JobsInRange, RequestCancel, memory
<1> QED
  BY <1>1, <1>2, <1>3, <1>4

\* StartDrive: a driver starts with an empty memory.
LEMMA TypeStartDrive ==
  ASSUME TypeInv, NEW p \in Pids, NEW mode \in Modes, StartDrive(p, mode)
  PROVE  TypeInv'
<1> USE DEF TypeInv, TypeOK
<1>a. job' \in [Pids -> [Steps -> Job]] /\ JobsInRange'
  BY SetIdleType, SupervisorAssumption DEF StartDrive
<1>1. DiskOK'
  BY SupervisorAssumption DEF DiskOK, States, StartDrive, disk, lease
<1>2. ProcessesOK'
  BY <1>a, FreshTypes DEF ProcessesOK, Pcs, Driving, ResumePcs, ExecutePcs, StartDrive, Go
<1>3. HistoryOK'
  BY SupervisorAssumption DEF HistoryOK, StartDrive, budget, history
<1>4. JobsInRange'
  BY <1>a
<1> QED
  BY <1>1, <1>2, <1>3, <1>4

\* AcquireLease: the lease goes to a process.
LEMMA TypeAcquireLease ==
  ASSUME TypeInv, NEW p \in Pids, AcquireLease(p)
  PROVE  TypeInv'
<1> USE DEF TypeInv, TypeOK
<1>1. DiskOK'
  BY SupervisorAssumption DEF DiskOK, States, AcquireLease, disk, lease
<1>2. ProcessesOK'
  BY DEF ProcessesOK, Pcs, Driving, ResumePcs, ExecutePcs, AcquireLease, Go, memory
<1>3. HistoryOK'
  BY SupervisorAssumption DEF HistoryOK, AcquireLease, budget, history
<1>4. JobsInRange'
  BY DEF JobsInRange, AcquireLease, memory
<1> QED
  BY <1>1, <1>2, <1>3, <1>4

\* RefuseDrive: a live lease turns a driver away.
LEMMA TypeRefuseDrive ==
  ASSUME TypeInv, NEW p \in Pids, RefuseDrive(p)
  PROVE  TypeInv'
<1> USE DEF TypeInv, TypeOK
<1>1. DiskOK'
  BY SupervisorAssumption DEF DiskOK, States, RefuseDrive, disk, lease
<1>2. ProcessesOK'
  BY DEF ProcessesOK, Pcs, Driving, ResumePcs, ExecutePcs, RefuseDrive, Go, memory
<1>3. HistoryOK'
  BY SupervisorAssumption DEF HistoryOK, RefuseDrive, budget, history
<1>4. JobsInRange'
  BY DEF JobsInRange, RefuseDrive, memory
<1> QED
  BY <1>1, <1>2, <1>3, <1>4

\* FirstBeat: the first heartbeat.
LEMMA TypeFirstBeat ==
  ASSUME TypeInv, NEW p \in Pids, FirstBeat(p)
  PROVE  TypeInv'
<1> USE DEF TypeInv, TypeOK
<1>1. DiskOK'
  BY SupervisorAssumption DEF DiskOK, States, FirstBeat, disk, lease
<1>2. ProcessesOK'
  BY DEF ProcessesOK, Pcs, Driving, ResumePcs, ExecutePcs, FirstBeat, Go, memory
<1>3. HistoryOK'
  BY SupervisorAssumption DEF HistoryOK, FirstBeat, budget, history
<1>4. JobsInRange'
  BY DEF JobsInRange, FirstBeat, memory
<1> QED
  BY <1>1, <1>2, <1>3, <1>4

\* Heartbeat: a later heartbeat.
LEMMA TypeHeartbeat ==
  ASSUME TypeInv, NEW p \in Pids, Heartbeat(p)
  PROVE  TypeInv'
<1> USE DEF TypeInv, TypeOK
<1>1. DiskOK'
  BY SupervisorAssumption DEF DiskOK, States, Heartbeat, disk, lease
<1>2. ProcessesOK'
  BY DEF ProcessesOK, Pcs, Driving, ResumePcs, ExecutePcs, Heartbeat, Go, memory
<1>3. HistoryOK'
  BY SupervisorAssumption DEF HistoryOK, Heartbeat, budget, history
<1>4. JobsInRange'
  BY DEF JobsInRange, Heartbeat, memory
<1> QED
  BY <1>1, <1>2, <1>3, <1>4

\* ReleaseLease: the lease is cleared, running nodes are kept in memory.
LEMMA TypeReleaseLease ==
  ASSUME TypeInv, NEW p \in Pids, ReleaseLease(p)
  PROVE  TypeInv'
<1> USE DEF TypeInv, TypeOK
<1>a. job' \in [Pids -> [Steps -> Job]] /\ JobsInRange'
  <2> DEFINE row == [s \in Steps |-> IF job[p][s].at = "running" THEN job[p][s]
                                     ELSE Idle]
  <2>1. row \in [Steps -> Job] /\ \A s \in Steps : InRange(row[s])
    BY FreshTypes, IdleInRange DEF ProcessesOK, JobsInRange, InRange
  <2>2. job' = [job EXCEPT ![p] = row]
    BY DEF ReleaseLease, ProcessesOK
  <2> HIDE DEF row
  <2> QED
    BY <2>1, <2>2, SetJobsType
<1>1. DiskOK'
  BY SupervisorAssumption DEF DiskOK, States, ReleaseLease, disk, lease
<1>2. ProcessesOK'
  BY <1>a, FreshTypes DEF ProcessesOK, Pcs, ReleaseLease, Go
<1>3. HistoryOK'
  BY SupervisorAssumption DEF HistoryOK, ReleaseLease, budget, history
<1>4. JobsInRange'
  BY <1>a
<1> QED
  BY <1>1, <1>2, <1>3, <1>4

\* ResumeLoad: recovery loads the crash window.
LEMMA TypeResumeLoad ==
  ASSUME TypeInv, NEW p \in Pids, ResumeLoad(p)
  PROVE  TypeInv'
<1> USE DEF TypeInv, TypeOK
<1>a. job' \in [Pids -> [Steps -> Job]] /\ JobsInRange'
  <2> DEFINE row == [s \in Steps |->
               IF CrashWindow(s)
               THEN [Idle EXCEPT !.at = "window", !.attempt = step[s].attempt,
                                 !.lane = step[s].lane]
               ELSE Idle]
  <2>1. ASSUME NEW s \in Steps PROVE row[s] \in Job /\ InRange(row[s])
    BY FreshTypes, IdleInRange DEF DiskOK, StepRecords, Job, Idle, Phases, InRange
  <2>2. row \in [Steps -> Job]
    BY <2>1
  <2>3. job' = [job EXCEPT ![p] = row]
    BY DEF ResumeLoad
  <2> HIDE DEF row
  <2> QED
    BY <2>1, <2>2, <2>3, SetJobsType
<1>1. DiskOK'
  BY SupervisorAssumption DEF DiskOK, States, ResumeLoad, disk, lease
<1>2. ProcessesOK'
  BY <1>a DEF ProcessesOK, Pcs, Driving, ResumePcs, ResumeLoad, Go
<1>3. HistoryOK'
  BY SupervisorAssumption DEF HistoryOK, ResumeLoad, budget, history
<1>4. JobsInRange'
  BY <1>a
<1> QED
  BY <1>1, <1>2, <1>3, <1>4

\* ResumeProbe: a receipt becomes an outcome class.
LEMMA TypeResumeProbe ==
  ASSUME TypeInv, NEW p \in Pids, ResumeProbe(p)
  PROVE  TypeInv'
<1> USE DEF TypeInv, TypeOK
<1>a. job' \in [Pids -> [Steps -> Job]] /\ JobsInRange'
  <2>1. PICK s \in First(At(p, "window")) :
          SetJob(p, s, [job[p][s] EXCEPT !.at = "probed",
                          !.class = RecoveredClass(job[p][s],
                                                   receipts[s][job[p][s].attempt])])
    BY DEF ResumeProbe
  <2> DEFINE class == RecoveredClass(job[p][s], receipts[s][job[p][s].attempt])
             j     == [job[p][s] EXCEPT !.at = "probed", !.class = class]
  <2>2. s \in Steps
    BY DEF First, At
  <2>3. job[p][s] \in Job /\ receipts[s][job[p][s].attempt] \in Receipt
    BY <2>2 DEF ProcessesOK, DiskOK, Job
  <2>4. class \in Classes \cup {Pending}
    BY <2>3, SupervisorAssumption DEF RecoveredClass, Receipt, Classes
  <2>5. j \in Job /\ InRange(j)
    <3> HIDE DEF class
    <3> QED
      BY <2>3, <2>4 DEF Job, Phases, InRange
  <2> QED
    BY <2>1, <2>2, <2>5, SetJobType
<1>1. DiskOK'
  BY SupervisorAssumption DEF DiskOK, States, ResumeProbe, disk, lease
<1>2. ProcessesOK'
  BY <1>a DEF ProcessesOK, ResumeProbe
<1>3. HistoryOK'
  BY SupervisorAssumption DEF HistoryOK, ResumeProbe, budget, history
<1>4. JobsInRange'
  BY <1>a
<1> QED
  BY <1>1, <1>2, <1>3, <1>4

\* ResumeApply: recovery writes its verdict on one step.
LEMMA TypeResumeApply ==
  ASSUME TypeInv, NEW p \in Pids, ResumeApply(p)
  PROVE  TypeInv'
<1> USE DEF TypeInv, TypeOK
<1>0. PICK s \in At(p, "probed") :
        /\ step' = [step EXCEPT ![s].class = job[p][s].class,
                                ![s].started = @ /\ job[p][s].class # Pending]
        /\ SetJob(p, s, [Idle EXCEPT !.at = IF job[p][s].class = "blocked"
                                            THEN "blocked" ELSE "idle"])
  BY DEF ResumeApply
<1>b. s \in Steps /\ job[p][s] \in Job /\ step[s] \in StepRecords
  BY DEF At, ProcessesOK, DiskOK
<1>a. job' \in [Pids -> [Steps -> Job]] /\ JobsInRange'
  <2> DEFINE j == [Idle EXCEPT !.at = IF job[p][s].class = "blocked"
                                      THEN "blocked" ELSE "idle"]
  <2>1. j \in Job /\ InRange(j)
    BY FreshTypes DEF Job, Idle, Phases, InRange
  <2> QED
    BY <1>0, <1>b, <2>1, SetJobType
<1>c. step' \in [Steps -> StepRecords]
  <2> DEFINE r == [step[s] EXCEPT !.class = job[p][s].class,
                                  !.started = @ /\ job[p][s].class # Pending]
  <2>1. (step[s].started /\ job[p][s].class # Pending) \in BOOLEAN
    OBVIOUS
  <2>2. r \in StepRecords
    BY <1>b, <2>1 DEF StepRecords, Job
  <2>3. step' = [step EXCEPT ![s] = r]
    BY <1>0, <1>b DEF DiskOK
  <2> QED
    BY <1>b, <2>2, <2>3, SetStepType
<1>1. DiskOK'
  BY <1>c DEF DiskOK, ResumeApply, lease
<1>2. ProcessesOK'
  BY <1>a DEF ProcessesOK, ResumeApply
<1>3. HistoryOK'
  BY SupervisorAssumption DEF HistoryOK, ResumeApply, budget, history
<1>4. JobsInRange'
  BY <1>a
<1> QED
  BY <1>1, <1>2, <1>3, <1>4

\* ResumeBlocked: the dispatch is published as blocked.
LEMMA TypeResumeBlocked ==
  ASSUME TypeInv, NEW p \in Pids, ResumeBlocked(p)
  PROVE  TypeInv'
<1> USE DEF TypeInv, TypeOK
<1>1. DiskOK'
  BY SupervisorAssumption DEF DiskOK, States, ResumeBlocked, disk, lease
<1>2. ProcessesOK'
  BY DEF ProcessesOK, Pcs, Driving, ResumePcs, ExecutePcs, ResumeBlocked, Go, memory
<1>3. HistoryOK'
  BY SupervisorAssumption DEF HistoryOK, ResumeBlocked, budget, history
<1>4. JobsInRange'
  BY DEF JobsInRange, ResumeBlocked, memory
<1> QED
  BY <1>1, <1>2, <1>3, <1>4

\* ResumeVerdict: recovery decides between walking and finalizing.
LEMMA TypeResumeVerdict ==
  ASSUME TypeInv, NEW p \in Pids, ResumeVerdict(p)
  PROVE  TypeInv'
<1> USE DEF TypeInv, TypeOK
<1>1. DiskOK'
  BY SupervisorAssumption DEF DiskOK, States, ResumeVerdict, disk, lease
<1>2. ProcessesOK'
  BY DEF ProcessesOK, Pcs, Driving, ResumePcs, ExecutePcs, ResumeVerdict, Go, memory
<1>3. HistoryOK'
  BY SupervisorAssumption DEF HistoryOK, ResumeVerdict, budget, history
<1>4. JobsInRange'
  BY DEF JobsInRange, ResumeVerdict, memory
<1> QED
  BY <1>1, <1>2, <1>3, <1>4

\* ResumeReread: recovery reads back what finalize wrote.
LEMMA TypeResumeReread ==
  ASSUME TypeInv, NEW p \in Pids, ResumeReread(p)
  PROVE  TypeInv'
<1> USE DEF TypeInv, TypeOK
<1>1. DiskOK'
  BY SupervisorAssumption DEF DiskOK, States, ResumeReread, disk, lease
<1>2. ProcessesOK'
  BY DEF ProcessesOK, Pcs, Driving, ResumePcs, ExecutePcs, ResumeReread, Go, memory
<1>3. HistoryOK'
  BY SupervisorAssumption DEF HistoryOK, ResumeReread, budget, history
<1>4. JobsInRange'
  BY DEF JobsInRange, ResumeReread, memory
<1> QED
  BY <1>1, <1>2, <1>3, <1>4

\* MarkRunning: the walk is published.
LEMMA TypeMarkRunning ==
  ASSUME TypeInv, NEW p \in Pids, MarkRunning(p)
  PROVE  TypeInv'
<1> USE DEF TypeInv, TypeOK
<1>1. DiskOK'
  BY SupervisorAssumption DEF DiskOK, States, MarkRunning, disk, lease
<1>2. ProcessesOK'
  BY DEF ProcessesOK, Pcs, Driving, ResumePcs, ExecutePcs, MarkRunning, Go, memory
<1>3. HistoryOK'
  BY SupervisorAssumption DEF HistoryOK, MarkRunning, budget, history
<1>4. JobsInRange'
  BY DEF JobsInRange, MarkRunning, memory
<1> QED
  BY <1>1, <1>2, <1>3, <1>4

\* CancelStop: the cancellation is published.
LEMMA TypeCancelStop ==
  ASSUME TypeInv, NEW p \in Pids, CancelStop(p)
  PROVE  TypeInv'
<1> USE DEF TypeInv, TypeOK
<1>1. DiskOK'
  BY SupervisorAssumption DEF DiskOK, States, CancelStop, disk, lease
<1>2. ProcessesOK'
  BY DEF ProcessesOK, Pcs, Driving, ResumePcs, ExecutePcs, CancelStop, Go, memory
<1>3. HistoryOK'
  BY SupervisorAssumption DEF HistoryOK, CancelStop, budget, history
<1>4. JobsInRange'
  BY DEF JobsInRange, CancelStop, memory
<1> QED
  BY <1>1, <1>2, <1>3, <1>4

\* NothingReady: the walk is over.
LEMMA TypeNothingReady ==
  ASSUME TypeInv, NEW p \in Pids, NothingReady(p)
  PROVE  TypeInv'
<1> USE DEF TypeInv, TypeOK
<1>1. DiskOK'
  BY SupervisorAssumption DEF DiskOK, States, NothingReady, disk, lease
<1>2. ProcessesOK'
  BY DEF ProcessesOK, Pcs, Driving, ResumePcs, ExecutePcs, NothingReady, Go, memory
<1>3. HistoryOK'
  BY SupervisorAssumption DEF HistoryOK, NothingReady, budget, history
<1>4. JobsInRange'
  BY DEF JobsInRange, NothingReady, memory
<1> QED
  BY <1>1, <1>2, <1>3, <1>4

\* StepAside: a process that lost its lease leaves.
LEMMA TypeStepAside ==
  ASSUME TypeInv, NEW p \in Pids, StepAside(p)
  PROVE  TypeInv'
<1> USE DEF TypeInv, TypeOK
<1>1. DiskOK'
  BY SupervisorAssumption DEF DiskOK, States, StepAside, disk, lease
<1>2. ProcessesOK'
  BY DEF ProcessesOK, Pcs, Driving, ResumePcs, ExecutePcs, StepAside, Go, memory
<1>3. HistoryOK'
  BY SupervisorAssumption DEF HistoryOK, StepAside, budget, history
<1>4. JobsInRange'
  BY DEF JobsInRange, StepAside, memory
<1> QED
  BY <1>1, <1>2, <1>3, <1>4

\* ComposeWave: a wave is picked from what was loaded.
LEMMA TypeComposeWave ==
  ASSUME TypeInv, NEW p \in Pids, ComposeWave(p)
  PROVE  TypeInv'
<1> USE DEF TypeInv, TypeOK
<1>a. job' \in [Pids -> [Steps -> Job]] /\ JobsInRange'
  <2>1. PICK lane : job' = [job EXCEPT ![p] = [s \in Steps |->
                 IF s \in PickWave(ReadySet(step), lane, MaxConcurrency)
                 THEN [Idle EXCEPT !.at = "picked", !.attempt = step[s].attempt]
                 ELSE Idle]]
    BY DEF ComposeWave
  <2> DEFINE row == [s \in Steps |->
                 IF s \in PickWave(ReadySet(step), lane, MaxConcurrency)
                 THEN [Idle EXCEPT !.at = "picked", !.attempt = step[s].attempt]
                 ELSE Idle]
  <2>2. ASSUME NEW s \in Steps PROVE row[s] \in Job /\ InRange(row[s])
    BY FreshTypes, IdleInRange DEF DiskOK, StepRecords, Job, Idle, Phases, InRange
  <2>3. row \in [Steps -> Job]
    BY <2>2
  <2> HIDE DEF row
  <2> QED
    BY <2>1, <2>2, <2>3, SetJobsType DEF row
<1>1. DiskOK'
  BY SupervisorAssumption DEF DiskOK, States, ComposeWave, disk, lease
<1>2. ProcessesOK'
  BY <1>a DEF ProcessesOK, Pcs, Driving, ExecutePcs, ComposeWave, Go
<1>3. HistoryOK'
  BY SupervisorAssumption DEF HistoryOK, ComposeWave, budget, history
<1>4. JobsInRange'
  BY <1>a
<1> QED
  BY <1>1, <1>2, <1>3, <1>4

\* MarkStarted: a step is marked with a lane and an attempt.
LEMMA TypeMarkStarted ==
  ASSUME TypeInv, NEW p \in Pids, MarkStarted(p)
  PROVE  TypeInv'
<1> USE DEF TypeInv, TypeOK
<1>0. PICK s \in First(At(p, "picked")), lane \in Lanes \cup {NoLane} :
        /\ step' = [step EXCEPT ![s].started = TRUE,
                                ![s].attempt = job[p][s].attempt,
                                ![s].lane = lane]
        /\ SetJob(p, s, [job[p][s] EXCEPT !.at = "started", !.lane = lane])
  BY IRAssumption DEF MarkStarted, Resolve, First, At
<1>b. s \in Steps /\ job[p][s] \in Job /\ step[s] \in StepRecords
  BY DEF First, At, ProcessesOK, DiskOK
<1>a. job' \in [Pids -> [Steps -> Job]] /\ JobsInRange'
  <2> DEFINE j == [job[p][s] EXCEPT !.at = "started", !.lane = lane]
  <2>1. j \in Job /\ InRange(j)
    BY <1>b DEF Job, Phases, InRange
  <2> QED
    BY <1>0, <1>b, <2>1, SetJobType
<1>c. step' \in [Steps -> StepRecords]
  <2> DEFINE r == [step[s] EXCEPT !.started = TRUE, !.attempt = job[p][s].attempt,
                                  !.lane = lane]
  <2>1. r \in StepRecords
    BY <1>b DEF StepRecords, Job
  <2>2. step' = [step EXCEPT ![s] = r]
    BY <1>0, <1>b DEF DiskOK
  <2> QED
    BY <1>b, <2>1, <2>2, SetStepType
<1>1. DiskOK'
  BY <1>c DEF DiskOK, MarkStarted, lease
<1>2. ProcessesOK'
  BY <1>a DEF ProcessesOK, Pcs, Driving, ExecutePcs, MarkStarted, Go
<1>3. HistoryOK'
  BY SupervisorAssumption DEF HistoryOK, MarkStarted, budget, history
<1>4. JobsInRange'
  BY <1>a
<1> QED
  BY <1>1, <1>2, <1>3, <1>4

\* MarkStolen: a process that lost its lease abandons the wave.
LEMMA TypeMarkStolen ==
  ASSUME TypeInv, NEW p \in Pids, MarkStolen(p)
  PROVE  TypeInv'
<1> USE DEF TypeInv, TypeOK
<1>1. DiskOK'
  BY SupervisorAssumption DEF DiskOK, States, MarkStolen, disk, lease
<1>2. ProcessesOK'
  BY DEF ProcessesOK, Pcs, Driving, ResumePcs, ExecutePcs, MarkStolen, Go, memory
<1>3. HistoryOK'
  BY SupervisorAssumption DEF HistoryOK, MarkStolen, budget, history
<1>4. JobsInRange'
  BY DEF JobsInRange, MarkStolen, memory
<1> QED
  BY <1>1, <1>2, <1>3, <1>4

\* Launch: a node runs, on a lane, and the history counts it.
LEMMA TypeLaunch ==
  ASSUME TypeInv, NEW p \in Pids, Launch(p)
  PROVE  TypeInv'
<1> USE DEF TypeInv, TypeOK
<1>0. PICK s \in At(p, "started"), lane \in Lanes :
        /\ SetJob(p, s, [job[p][s] EXCEPT !.at = "running", !.lane = lane])
        /\ ran' = [ran EXCEPT ![s][job[p][s].attempt] = lane]
        /\ spent' = IF lane # Local
                    THEN [spent EXCEPT ![s][job[p][s].attempt] = Bump(@)] ELSE spent
        /\ recorded' = IF lane # Local /\ job[p][s].lane # Local
                       THEN [recorded EXCEPT ![s][job[p][s].attempt] = Bump(@)]
                       ELSE recorded
  BY IRAssumption DEF Launch, RunLane, FirstLane, At
<1>b. s \in Steps /\ job[p][s] \in Job /\ job[p][s].attempt \in Attempts
  BY DEF At, ProcessesOK, Job
<1>a. job' \in [Pids -> [Steps -> Job]] /\ JobsInRange'
  <2> DEFINE j == [job[p][s] EXCEPT !.at = "running", !.lane = lane]
  <2>1. j \in Job /\ InRange(j)
    BY <1>b DEF Job, Phases, InRange
  <2> QED
    BY <1>0, <1>b, <2>1, SetJobType
<1>1. DiskOK'
  BY SupervisorAssumption DEF DiskOK, States, Launch, disk, lease
<1>2. ProcessesOK'
  BY <1>a DEF ProcessesOK, Pcs, Driving, ExecutePcs, Launch, Go
<1>3. HistoryOK'
  <2>1. faults \in 0 .. MaxFaults /\ freezes \in 0 .. MaxFreezes /\ UNCHANGED budget
    BY DEF HistoryOK, Launch
  <2>2. ran' \in [Steps -> [Attempts -> Lanes \cup {NoLane}]]
    BY <1>0, <1>b DEF HistoryOK
  <2>3. spent' \in [Steps -> [Attempts -> 0 .. 2]]
    BY <1>0, <1>b, BumpCounter DEF HistoryOK
  <2>4. recorded' \in [Steps -> [Attempts -> 0 .. 2]]
    BY <1>0, <1>b, BumpCounter DEF HistoryOK
  <2> QED
    BY <2>1, <2>2, <2>3, <2>4 DEF HistoryOK, budget
<1>4. JobsInRange'
  BY <1>a
<1> QED
  BY <1>1, <1>2, <1>3, <1>4

\* What a node that ends hands to its driver, and what it leaves behind: a receipt
\* that is kept succeeds, and fails, with the node.
LEMMA NodeOutcome ==
  ASSUME TypeInv, NEW p \in Pids, NEW s \in Steps, NodeReturns(p, s)
  PROVE  \E class \in Outcomes, said \in Outcomes, verdict \in Verdicts, kept \in BOOLEAN :
           /\ faults' \in 0 .. MaxFaults
           /\ receipts' = IF kept
                          THEN [receipts EXCEPT ![s][job[p][s].attempt] =
                                  [lane |-> job[p][s].lane, class |-> said]]
                          ELSE receipts
           /\ SetJob(p, s, IF pc[p] \in ExecutePcs
                           THEN [job[p][s] EXCEPT !.at = "returned", !.verdict = verdict,
                                                  !.class = class]
                           ELSE Idle)
           /\ kept => /\ Ok(class) => Ok(said)
                      /\ HardFailed(class) => HardFailed(said)
<1>1. PICK outcome \in RunClasses, verdict \in Verdicts, kept \in BOOLEAN :
        /\ ~ kept /\ outcome # "config_error" => faults < MaxFaults
        /\ faults' = IF kept \/ outcome = "config_error" THEN faults ELSE faults + 1
        /\ \E said \in ReceiptClasses(outcome) :
             receipts' = IF kept
                         THEN [receipts EXCEPT ![s][job[p][s].attempt] =
                                 [lane |-> job[p][s].lane, class |-> said]]
                         ELSE receipts
        /\ SetJob(p, s, IF pc[p] \in ExecutePcs
                        THEN [job[p][s] EXCEPT !.at = "returned", !.verdict = verdict,
                                !.class = NodeClass(outcome, kept,
                                                    receipts[s][job[p][s].attempt])]
                        ELSE Idle)
  BY Zenon DEF NodeReturns, Verdicts
<1>0. PICK said \in ReceiptClasses(outcome) :
        receipts' = IF kept
                    THEN [receipts EXCEPT ![s][job[p][s].attempt] =
                            [lane |-> job[p][s].lane, class |-> said]]
                    ELSE receipts
  BY <1>1
<1> DEFINE old == receipts[s][job[p][s].attempt]
<1>2. old \in Receipt
  <2>1. job[p][s].attempt \in Attempts
    BY DEF TypeInv, TypeOK, ProcessesOK, Job
  <2> QED
    BY <2>1 DEF TypeInv, TypeOK, DiskOK
<1>3. outcome \in OkClasses \cup RelegateClasses \cup HardClasses
  BY SupervisorAssumption
<1>4. said \in Outcomes
  BY <1>3 DEF ReceiptClasses, Outcomes, OkClasses, RelegateClasses, RefusalClasses
<1>5. NodeClass(outcome, kept, old) \in Outcomes
  BY <1>2, <1>3 DEF NodeClass, Outcomes, Receipt, HardClasses
<1>6. /\ Ok(outcome) => Ok(said)
      /\ HardFailed(outcome) => HardFailed(said)
  BY <1>3 DEF ReceiptClasses, Ok, HardFailed, Relegated, OkClasses, RelegateClasses, HardClasses
<1>7. kept => NodeClass(outcome, kept, old) = outcome
  BY DEF NodeClass
<1>8. faults' \in 0 .. MaxFaults
  BY <1>1, SupervisorAssumption DEF TypeInv, TypeOK, HistoryOK
<1> HIDE DEF old
<1>9. PICK class \in Outcomes : class = NodeClass(outcome, kept, old)
  BY <1>5
<1>10. kept => (Ok(class) => Ok(said)) /\ (HardFailed(class) => HardFailed(said))
  BY <1>6, <1>7, <1>9
<1> QED
  BY <1>0, <1>1, <1>4, <1>8, <1>9, <1>10, Zenon DEF old

\* NodeReturns: a node ends and leaves a receipt, or does not.
LEMMA TypeNodeReturns ==
  ASSUME TypeInv, NEW p \in Pids, NEW s \in Steps, NodeReturns(p, s)
  PROVE  TypeInv'
<1>0. PICK class \in Outcomes, said \in Outcomes, verdict \in Verdicts, kept \in BOOLEAN :
        /\ faults' \in 0 .. MaxFaults
        /\ receipts' = IF kept
                       THEN [receipts EXCEPT ![s][job[p][s].attempt] =
                               [lane |-> job[p][s].lane, class |-> said]]
                       ELSE receipts
        /\ SetJob(p, s, IF pc[p] \in ExecutePcs
                        THEN [job[p][s] EXCEPT !.at = "returned", !.verdict = verdict,
                                               !.class = class]
                        ELSE Idle)
  BY NodeOutcome, Zenon
<1> USE DEF TypeInv, TypeOK
<1>b. job[p][s] \in Job /\ job[p][s].attempt \in Attempts /\ job[p][s].lane \in Lanes
  BY DEF NodeReturns, ProcessesOK, Job, JobsInRange
<1>a. job' \in [Pids -> [Steps -> Job]] /\ JobsInRange'
  <2> DEFINE j == IF pc[p] \in ExecutePcs
                  THEN [job[p][s] EXCEPT !.at = "returned", !.verdict = verdict,
                                         !.class = class]
                  ELSE Idle
  <2>1. class \in Classes
    BY DEF Classes
  <2>2. j \in Job /\ InRange(j)
    BY <1>b, <2>1, FreshTypes, IdleInRange DEF Job, Phases, InRange
  <2> HIDE DEF j
  <2> QED
    BY <1>0, <2>2, SetJobType DEF j
<1>1. DiskOK'
  <2>1. [lane |-> job[p][s].lane, class |-> said] \in Receipt
    BY <1>b DEF Receipt
  <2>2. receipts' \in [Steps -> [Attempts -> Receipt]]
    BY <1>0, <1>b, <2>1 DEF DiskOK
  <2> QED
    BY <2>2 DEF DiskOK, NodeReturns, disk
<1>2. ProcessesOK'
  BY <1>a DEF ProcessesOK, NodeReturns
<1>3. HistoryOK'
  BY <1>0 DEF HistoryOK, NodeReturns, history
<1>4. JobsInRange'
  BY <1>a
<1> QED
  BY <1>1, <1>2, <1>3, <1>4

\* PersistLoad: a re-lane is decided only below the depth.
LEMMA TypePersistLoad ==
  ASSUME TypeInv, NEW p \in Pids, PersistLoad(p)
  PROVE  TypeInv'
<1> USE DEF TypeInv, TypeOK
<1>a. job' \in [Pids -> [Steps -> Job]] /\ JobsInRange'
  <2>1. PICK s \in First(At(p, "returned")), relane \in BOOLEAN :
          /\ relane => MayReLane(job[p][s].class, step[s].attempt, job[p][s].lane)
          /\ SetJob(p, s, [job[p][s] EXCEPT !.at = IF relane THEN "relane" ELSE "record",
                                            !.attempt = step[s].attempt])
    BY DEF PersistLoad, MayReLane
  <2> DEFINE j == [job[p][s] EXCEPT !.at = IF relane THEN "relane" ELSE "record",
                                    !.attempt = step[s].attempt]
  <2>2. s \in Steps
    BY DEF First, At
  <2>3. job[p][s] \in Job /\ step[s].attempt \in Attempts
    BY <2>2 DEF ProcessesOK, DiskOK, StepRecords
  <2>4. relane => step[s].attempt < ReLaneMaxDepth
    BY <2>1 DEF MayReLane
  <2>5. j \in Job /\ InRange(j)
    BY <2>3, <2>4 DEF Job, Phases, InRange
  <2> QED
    BY <2>1, <2>2, <2>5, SetJobType
<1>1. DiskOK'
  BY SupervisorAssumption DEF DiskOK, States, PersistLoad, disk, lease
<1>2. ProcessesOK'
  BY <1>a DEF ProcessesOK, Pcs, Driving, ExecutePcs, PersistLoad, Go
<1>3. HistoryOK'
  BY SupervisorAssumption DEF HistoryOK, PersistLoad, budget, history
<1>4. JobsInRange'
  BY <1>a
<1> QED
  BY <1>1, <1>2, <1>3, <1>4

\* ReLane: the next attempt is still in range.
LEMMA TypeReLane ==
  ASSUME TypeInv, NEW p \in Pids, ReLane(p)
  PROVE  TypeInv'
<1> USE DEF TypeInv, TypeOK
<1>0. PICK s \in At(p, "relane") :
        /\ step' = [step EXCEPT ![s].attempt = job[p][s].attempt + 1, ![s].class = Pending,
                               ![s].started = FALSE]
        /\ SetJob(p, s, Idle)
  BY DEF ReLane
<1>b. s \in Steps /\ job[p][s] \in Job /\ step[s] \in StepRecords
  BY DEF At, ProcessesOK, DiskOK
<1>a. job' \in [Pids -> [Steps -> Job]] /\ JobsInRange'
  BY <1>0, <1>b, FreshTypes, IdleInRange, SetJobType
<1>c. step' \in [Steps -> StepRecords]
  <2> DEFINE r == [step[s] EXCEPT !.attempt = job[p][s].attempt + 1, !.class = Pending,
                               !.started = FALSE]
  <2>0. job[p][s].attempt + 1 \in Attempts
    BY <1>b, SupervisorAssumption DEF At, JobsInRange, Job, Attempts
  <2>1. r \in StepRecords
    BY <1>b, <2>0 DEF StepRecords
  <2>2. step' = [step EXCEPT ![s] = r]
    BY <1>0, <1>b DEF DiskOK
  <2> QED
    BY <1>b, <2>1, <2>2, SetStepType
<1>1. DiskOK'
  BY <1>c DEF DiskOK, ReLane, lease
<1>2. ProcessesOK'
  BY <1>a DEF ProcessesOK, Pcs, Driving, ExecutePcs, ReLane, AfterPersist, Go
<1>3. HistoryOK'
  BY SupervisorAssumption DEF HistoryOK, ReLane, budget, history
<1>4. JobsInRange'
  BY <1>a
<1> QED
  BY <1>1, <1>2, <1>3, <1>4

\* RecordOutcome: an outcome is written.
LEMMA TypeRecordOutcome ==
  ASSUME TypeInv, NEW p \in Pids, RecordOutcome(p)
  PROVE  TypeInv'
<1> USE DEF TypeInv, TypeOK
<1>0. PICK s \in At(p, "record") :
        /\ step' = [step EXCEPT ![s].class = job[p][s].class, ![s].ref = TRUE,
                               ![s].lane = job[p][s].lane,
                               ![s].verdict = IF job[p][s].verdict # ""
                                            THEN job[p][s].verdict ELSE @]
        /\ SetJob(p, s, Idle)
  BY DEF RecordOutcome
<1>b. s \in Steps /\ job[p][s] \in Job /\ step[s] \in StepRecords
  BY DEF At, ProcessesOK, DiskOK
<1>a. job' \in [Pids -> [Steps -> Job]] /\ JobsInRange'
  BY <1>0, <1>b, FreshTypes, IdleInRange, SetJobType
<1>c. step' \in [Steps -> StepRecords]
  <2> DEFINE r == [step[s] EXCEPT !.class = job[p][s].class, !.ref = TRUE,
                               !.lane = job[p][s].lane,
                               !.verdict = IF job[p][s].verdict # ""
                                            THEN job[p][s].verdict ELSE @]
  <2>1. r \in StepRecords
    BY <1>b DEF StepRecords, Job
  <2>2. step' = [step EXCEPT ![s] = r]
    BY <1>0, <1>b DEF DiskOK
  <2> QED
    BY <1>b, <2>1, <2>2, SetStepType
<1>1. DiskOK'
  BY <1>c DEF DiskOK, RecordOutcome, lease
<1>2. ProcessesOK'
  BY <1>a DEF ProcessesOK, Pcs, Driving, ExecutePcs, RecordOutcome, AfterPersist, Go
<1>3. HistoryOK'
  BY SupervisorAssumption DEF HistoryOK, RecordOutcome, budget, history
<1>4. JobsInRange'
  BY <1>a
<1> QED
  BY <1>1, <1>2, <1>3, <1>4

\* FinalizeLoad: a final verdict is computed.
LEMMA TypeFinalizeLoad ==
  ASSUME TypeInv, NEW p \in Pids, FinalizeLoad(p)
  PROVE  TypeInv'
<1> USE DEF TypeInv, TypeOK
<1>a. fin' \in [Pids -> Finals]
  <2> DEFINE f == [state |-> FinalState(step), ref |-> FinalRef(step),
                   verdict |-> FinalVerdict(step), flag |-> FinalFlag(step)]
  <2>1. f \in Finals
    BY FinalTypes DEF Finals
  <2> QED
    BY <2>1 DEF FinalizeLoad, ProcessesOK
<1>1. DiskOK'
  BY SupervisorAssumption DEF DiskOK, States, FinalizeLoad, disk, lease
<1>2. ProcessesOK'
  BY <1>a DEF ProcessesOK, Pcs, Driving, ResumePcs, ExecutePcs, FinalizeLoad, Go
<1>3. HistoryOK'
  BY SupervisorAssumption DEF HistoryOK, FinalizeLoad, budget, history
<1>4. JobsInRange'
  BY DEF JobsInRange, FinalizeLoad
<1> QED
  BY <1>1, <1>2, <1>3, <1>4

\* FinalizeWrite: a final verdict is published.
LEMMA TypeFinalizeWrite ==
  ASSUME TypeInv, NEW p \in Pids, FinalizeWrite(p)
  PROVE  TypeInv'
<1> USE DEF TypeInv, TypeOK
<1>a. fin[p] \in Finals
  BY DEF ProcessesOK
<1>1. DiskOK'
  BY <1>a DEF DiskOK, Finals, FinalizeWrite, lease
<1>2. ProcessesOK'
  BY DEF ProcessesOK, Pcs, Driving, ResumePcs, ExecutePcs, FinalizeWrite, Go, memory
<1>3. HistoryOK'
  BY SupervisorAssumption DEF HistoryOK, FinalizeWrite, budget, history
<1>4. JobsInRange'
  BY DEF JobsInRange, FinalizeWrite, memory
<1> QED
  BY <1>1, <1>2, <1>3, <1>4

\* WriteFails: a failed write ends the drive.
LEMMA TypeWriteFails ==
  ASSUME TypeInv, NEW p \in Pids, WriteFails(p)
  PROVE  TypeInv'
<1> USE DEF TypeInv, TypeOK
<1>1. DiskOK'
  BY SupervisorAssumption DEF DiskOK, States, WriteFails, disk, lease
<1>2. ProcessesOK'
  BY DEF ProcessesOK, Pcs, Driving, ResumePcs, ExecutePcs, WriteFails, Go, memory
<1>3. HistoryOK'
  BY SupervisorAssumption DEF HistoryOK, WriteFails, budget, history
<1>4. JobsInRange'
  BY DEF JobsInRange, WriteFails, memory
<1> QED
  BY <1>1, <1>2, <1>3, <1>4

\* Crash: a process loses its memory.
LEMMA TypeCrash ==
  ASSUME TypeInv, NEW p \in Pids, Crash(p)
  PROVE  TypeInv'
<1> USE DEF TypeInv, TypeOK
<1>a. job' \in [Pids -> [Steps -> Job]] /\ JobsInRange'
  BY SetIdleType, SupervisorAssumption DEF Crash
<1>1. DiskOK'
  BY SupervisorAssumption DEF DiskOK, States, Crash, disk, lease
<1>2. ProcessesOK'
  BY <1>a, FreshTypes DEF ProcessesOK, Pcs, Driving, ResumePcs, ExecutePcs, Crash, Go
<1>3. HistoryOK'
  BY SupervisorAssumption DEF HistoryOK, Crash, budget, history
<1>4. JobsInRange'
  BY <1>a
<1> QED
  BY <1>1, <1>2, <1>3, <1>4

\* Lapse: the lease clock runs out.
LEMMA TypeLapse ==
  ASSUME TypeInv, Lapse
  PROVE  TypeInv'
<1> USE DEF TypeInv, TypeOK
<1>1. DiskOK'
  BY SupervisorAssumption DEF DiskOK, States, Lapse, disk, lease
<1>2. ProcessesOK'
  BY DEF ProcessesOK, Pcs, Driving, ResumePcs, ExecutePcs, Lapse, Go, memory
<1>3. HistoryOK'
  BY SupervisorAssumption DEF HistoryOK, Lapse, budget, history
<1>4. JobsInRange'
  BY DEF JobsInRange, Lapse, memory
<1> QED
  BY <1>1, <1>2, <1>3, <1>4

\* Freeze: a holder misses its beats.
LEMMA TypeFreeze ==
  ASSUME TypeInv, Freeze
  PROVE  TypeInv'
<1> USE DEF TypeInv, TypeOK
<1>1. DiskOK'
  BY SupervisorAssumption DEF DiskOK, States, Freeze, disk, lease
<1>2. ProcessesOK'
  BY DEF ProcessesOK, Pcs, Driving, ResumePcs, ExecutePcs, Freeze, Go, memory
<1>3. HistoryOK'
  BY SupervisorAssumption DEF HistoryOK, Freeze, budget, history
<1>4. JobsInRange'
  BY DEF JobsInRange, Freeze, memory
<1> QED
  BY <1>1, <1>2, <1>3, <1>4

\* A stuttering step changes nothing.
LEMMA TypeStutter ==
  ASSUME TypeInv, UNCHANGED vars
  PROVE  TypeInv'
BY DEF TypeInv, TypeOK, DiskOK, ProcessesOK, HistoryOK, JobsInRange, vars, disk,
       memory, budget, history

\* Every step keeps the invariant: one case per action.
LEMMA TypeStep == TypeInv /\ [Next]_vars => TypeInv'
<1> SUFFICES ASSUME TypeInv, [Next]_vars PROVE TypeInv'
  OBVIOUS
<1>1. CASE Spawn
  BY <1>1, TypeSpawn
<1>2. CASE SpawnFails
  BY <1>2, TypeSpawnFails
<1>3. CASE MarkWorking
  BY <1>3, TypeMarkWorking
<1>4. CASE RequestCancel
  BY <1>4, TypeRequestCancel
<1>5. CASE Lapse
  BY <1>5, TypeLapse
<1>6. CASE Freeze
  BY <1>6, TypeFreeze
<1>7. ASSUME NEW p \in Pids, NEW mode \in Modes, StartDrive(p, mode) PROVE TypeInv'
  BY <1>7, TypeStartDrive
<1>8. ASSUME NEW p \in Pids, NEW s \in Steps, NodeReturns(p, s) PROVE TypeInv'
  BY <1>8, TypeNodeReturns
<1>9. ASSUME NEW p \in Pids, AcquireLease(p) PROVE TypeInv'
  BY <1>9, TypeAcquireLease
<1>10. ASSUME NEW p \in Pids, RefuseDrive(p) PROVE TypeInv'
  BY <1>10, TypeRefuseDrive
<1>11. ASSUME NEW p \in Pids, ResumeLoad(p) PROVE TypeInv'
  BY <1>11, TypeResumeLoad
<1>12. ASSUME NEW p \in Pids, ResumeProbe(p) PROVE TypeInv'
  BY <1>12, TypeResumeProbe
<1>13. ASSUME NEW p \in Pids, ResumeApply(p) PROVE TypeInv'
  BY <1>13, TypeResumeApply
<1>14. ASSUME NEW p \in Pids, ResumeBlocked(p) PROVE TypeInv'
  BY <1>14, TypeResumeBlocked
<1>15. ASSUME NEW p \in Pids, ResumeVerdict(p) PROVE TypeInv'
  BY <1>15, TypeResumeVerdict
<1>16. ASSUME NEW p \in Pids, ResumeReread(p) PROVE TypeInv'
  BY <1>16, TypeResumeReread
<1>17. ASSUME NEW p \in Pids, FirstBeat(p) PROVE TypeInv'
  BY <1>17, TypeFirstBeat
<1>18. ASSUME NEW p \in Pids, MarkRunning(p) PROVE TypeInv'
  BY <1>18, TypeMarkRunning
<1>19. ASSUME NEW p \in Pids, CancelStop(p) PROVE TypeInv'
  BY <1>19, TypeCancelStop
<1>20. ASSUME NEW p \in Pids, NothingReady(p) PROVE TypeInv'
  BY <1>20, TypeNothingReady
<1>21. ASSUME NEW p \in Pids, StepAside(p) PROVE TypeInv'
  BY <1>21, TypeStepAside
<1>22. ASSUME NEW p \in Pids, ComposeWave(p) PROVE TypeInv'
  BY <1>22, TypeComposeWave
<1>23. ASSUME NEW p \in Pids, MarkStarted(p) PROVE TypeInv'
  BY <1>23, TypeMarkStarted
<1>24. ASSUME NEW p \in Pids, MarkStolen(p) PROVE TypeInv'
  BY <1>24, TypeMarkStolen
<1>25. ASSUME NEW p \in Pids, Launch(p) PROVE TypeInv'
  BY <1>25, TypeLaunch
<1>26. ASSUME NEW p \in Pids, PersistLoad(p) PROVE TypeInv'
  BY <1>26, TypePersistLoad
<1>27. ASSUME NEW p \in Pids, ReLane(p) PROVE TypeInv'
  BY <1>27, TypeReLane
<1>28. ASSUME NEW p \in Pids, RecordOutcome(p) PROVE TypeInv'
  BY <1>28, TypeRecordOutcome
<1>29. ASSUME NEW p \in Pids, FinalizeLoad(p) PROVE TypeInv'
  BY <1>29, TypeFinalizeLoad
<1>30. ASSUME NEW p \in Pids, FinalizeWrite(p) PROVE TypeInv'
  BY <1>30, TypeFinalizeWrite
<1>31. ASSUME NEW p \in Pids, ReleaseLease(p) PROVE TypeInv'
  BY <1>31, TypeReleaseLease
<1>32. ASSUME NEW p \in Pids, Heartbeat(p) PROVE TypeInv'
  BY <1>32, TypeHeartbeat
<1>33. ASSUME NEW p \in Pids, WriteFails(p) PROVE TypeInv'
  BY <1>33, TypeWriteFails
<1>34. ASSUME NEW p \in Pids, Crash(p) PROVE TypeInv'
  BY <1>34, TypeCrash
<1>35. CASE UNCHANGED vars
  BY <1>35, TypeStutter
<1> QED
  BY <1>1, <1>2, <1>3, <1>4, <1>5, <1>6, <1>7, <1>8, <1>9, <1>10, <1>11,
     <1>12, <1>13, <1>14, <1>15, <1>16, <1>17, <1>18, <1>19, <1>20, <1>21, <1>22,
     <1>23, <1>24, <1>25, <1>26, <1>27, <1>28, <1>29, <1>30, <1>31, <1>32, <1>33,
     <1>34, <1>35
     DEF Next, Dispatcher, Supervise, Recover, Walk, Finish

\* Every reachable state is well typed: no attempt exceeds the re-lane depth, no
\* step is ever recorded with a class, a lane or a verdict outside the taxonomy,
\* and every receipt names a lane the node could run on.
THEOREM TypeCorrect == Spec => []TypeOK
<1>1. TypeInv /\ [Next]_vars => TypeInv'
  BY TypeStep
<1>2. TypeInv => TypeOK
  BY DEF TypeInv
<1> QED
  BY TypeInit, <1>1, <1>2, PTL DEF Spec

-----------------------------------------------------------------------------
(* The lease.  As long as no living holder misses its heartbeats, every     *)
(* process inside driveDispatch holds the lease, the lease of a living one  *)
(* is fresh, and a lease is left behind only by a crash.                    *)

LeaseInv ==
  /\ \A p \in Pids : pc[p] \in Driving => holder = p
  /\ holder # NoPid => pc[holder] \in Driving \cup {"dead"}
  /\ HolderAlive => fresh

\* A step inside driveDispatch, and a step of nobody, leave the lease alone.
LEMMA LeaseDriving ==
  ASSUME TypeInv, LeaseInv, NEW p \in Pids, NEW to \in Driving,
         pc[p] \in Driving, Go(p, to), holder' = holder, fresh => fresh'
  PROVE  LeaseInv'
BY DEF TypeInv, TypeOK, ProcessesOK, DiskOK, LeaseInv, HolderAlive, Go

LEMMA LeaseUntouched ==
  ASSUME TypeInv, LeaseInv, pc' = pc, holder' = holder, fresh => fresh'
  PROVE  LeaseInv'
BY DEF LeaseInv, HolderAlive

\* Nobody holds the lease before the first driver.
LEMMA LeaseInit == Init => LeaseInv
BY SupervisorAssumption DEF Init, LeaseInv, HolderAlive, Driving, ResumePcs, ExecutePcs

\* Taking the lease: a living holder's is fresh, so it is never taken from one.
LEMMA LeaseAcquire ==
  ASSUME TypeInv, LeaseInv, NEW p \in Pids, AcquireLease(p)
  PROVE  LeaseInv'
<1> DEFINE to == IF resuming[p] THEN "load" ELSE "beat"
<1>1. pc \in [Pids -> Pcs] /\ holder \in Pids \cup {NoPid} /\ NoPid \notin Pids
  BY SupervisorAssumption DEF TypeInv, TypeOK, ProcessesOK, DiskOK
<1>2. to \in Driving /\ pc' = [pc EXCEPT ![p] = to] /\ holder' = p
  BY DEF AcquireLease, Go, Driving, ResumePcs, ExecutePcs
<1>3. pc[p] \notin Driving \cup {"dead"}
  BY DEF AcquireLease, Driving, ResumePcs, ExecutePcs
<1>4. holder # p
  BY <1>1, <1>3 DEF LeaseInv
<1>5. ASSUME NEW q \in Pids, pc[q] \in Driving PROVE FALSE
  BY <1>1, <1>4, <1>5 DEF LeaseInv, AcquireLease, LeaseHolderLive, HolderAlive
<1>6. fresh'
  BY <1>4 DEF AcquireLease
<1> HIDE DEF to
<1> QED
  BY <1>1, <1>2, <1>5, <1>6 DEF LeaseInv, HolderAlive

\* Every step keeps the invariant.
LEMMA LeaseStep ==
  ASSUME MaxFreezes = 0
  PROVE  TypeInv /\ LeaseInv /\ [Next]_vars => LeaseInv'
<1> SUFFICES ASSUME TypeInv, LeaseInv, [Next]_vars PROVE LeaseInv'
  OBVIOUS
<1>t. /\ pc \in [Pids -> Pcs] /\ holder \in Pids \cup {NoPid} /\ NoPid \notin Pids
      /\ Child \in Pids
  BY SupervisorAssumption DEF TypeInv, TypeOK, ProcessesOK, DiskOK
<1>1. CASE Spawn
  BY <1>1, <1>t DEF Spawn, Go, disk, LeaseInv, HolderAlive, Driving, ResumePcs, ExecutePcs
<1>2. CASE SpawnFails
  <2>1. fresh => fresh'
    BY <1>2, Zenon DEF SpawnFails, Publish
  <2> QED
    BY <1>2, <2>1, LeaseUntouched DEF SpawnFails
<1>3. CASE MarkWorking
  <2>1. fresh => fresh'
    BY <1>3, Zenon DEF MarkWorking, Publish
  <2> QED
    BY <1>3, <2>1, LeaseUntouched DEF MarkWorking
<1>4. CASE RequestCancel
  BY <1>4, LeaseUntouched DEF RequestCancel, disk
<1>5. CASE Lapse
  BY <1>5 DEF Lapse, LeaseInv, HolderAlive
<1>6. CASE Freeze
  BY <1>6 DEF Freeze, TypeInv, TypeOK, HistoryOK
<1>7. ASSUME NEW p \in Pids, NEW mode \in Modes, StartDrive(p, mode) PROVE LeaseInv'
  BY <1>7, <1>t DEF StartDrive, Go, disk, LeaseInv, HolderAlive, Driving, ResumePcs, ExecutePcs
<1>8. ASSUME NEW p \in Pids, AcquireLease(p) PROVE LeaseInv'
  BY <1>8, LeaseAcquire
<1>9. ASSUME NEW p \in Pids, RefuseDrive(p) PROVE LeaseInv'
  BY <1>9, <1>t DEF RefuseDrive, Go, disk, LeaseInv, HolderAlive, Driving, ResumePcs, ExecutePcs
<1>10. ASSUME NEW p \in Pids, ReleaseLease(p) PROVE LeaseInv'
  BY <1>10, <1>t DEF ReleaseLease, Go, LeaseInv, HolderAlive, Driving, ResumePcs, ExecutePcs
<1>11. ASSUME NEW p \in Pids, Crash(p) PROVE LeaseInv'
  BY <1>11, <1>t DEF Crash, Go, disk, LeaseInv, HolderAlive, Driving, ResumePcs, ExecutePcs
<1>12. ASSUME NEW p \in Pids, NEW s \in Steps, NodeReturns(p, s) PROVE LeaseInv'
  BY <1>12, LeaseUntouched DEF NodeReturns, disk
<1>13. ASSUME NEW p \in Pids, Heartbeat(p) PROVE LeaseInv'
  BY <1>13, LeaseUntouched DEF Heartbeat, disk, lease
<1>14. ASSUME NEW p \in Pids, ResumeProbe(p) PROVE LeaseInv'
  BY <1>14, LeaseUntouched DEF ResumeProbe, disk, lease
<1>15. ASSUME NEW p \in Pids, ResumeApply(p) PROVE LeaseInv'
  BY <1>15, LeaseUntouched DEF ResumeApply, disk, lease
<1>16. ASSUME NEW p \in Pids, FirstBeat(p) PROVE LeaseInv'
  <2>1. fresh => fresh'
    BY <1>16, Zenon DEF FirstBeat
  <2> QED
    BY <1>16, <2>1, LeaseDriving DEF FirstBeat, Driving, ExecutePcs
<1>17. ASSUME NEW p \in Pids, ResumeLoad(p) PROVE LeaseInv'
  BY <1>17, LeaseDriving DEF ResumeLoad, Go, disk, lease, Driving, ResumePcs, ExecutePcs
<1>18. ASSUME NEW p \in Pids, ResumeBlocked(p) PROVE LeaseInv'
  BY <1>18, LeaseDriving DEF ResumeBlocked, Go, Reconciled, disk, lease, Driving, ResumePcs, ExecutePcs
<1>19. ASSUME NEW p \in Pids, ResumeVerdict(p) PROVE LeaseInv'
  BY <1>19, LeaseDriving DEF ResumeVerdict, Go, Reconciled, disk, lease, Driving, ResumePcs, ExecutePcs
<1>20. ASSUME NEW p \in Pids, ResumeReread(p) PROVE LeaseInv'
  BY <1>20, LeaseDriving DEF ResumeReread, Go, disk, lease, Driving, ResumePcs, ExecutePcs
<1>21. ASSUME NEW p \in Pids, MarkRunning(p) PROVE LeaseInv'
  BY <1>21, LeaseDriving DEF MarkRunning, Go, disk, lease, Driving, ResumePcs, ExecutePcs
<1>22. ASSUME NEW p \in Pids, CancelStop(p) PROVE LeaseInv'
  BY <1>22, LeaseDriving DEF CancelStop, Go, disk, lease, Driving, ResumePcs, ExecutePcs
<1>23. ASSUME NEW p \in Pids, NothingReady(p) PROVE LeaseInv'
  BY <1>23, LeaseDriving DEF NothingReady, Go, disk, lease, Driving, ResumePcs, ExecutePcs
<1>24. ASSUME NEW p \in Pids, StepAside(p) PROVE LeaseInv'
  BY <1>24, LeaseDriving DEF StepAside, Go, disk, lease, Driving, ResumePcs, ExecutePcs
<1>25. ASSUME NEW p \in Pids, ComposeWave(p) PROVE LeaseInv'
  BY <1>25, LeaseDriving DEF ComposeWave, Go, disk, lease, Driving, ResumePcs, ExecutePcs
<1>26. ASSUME NEW p \in Pids, MarkStarted(p) PROVE LeaseInv'
  BY <1>26, LeaseDriving DEF MarkStarted, Go, disk, lease, Driving, ResumePcs, ExecutePcs
<1>27. ASSUME NEW p \in Pids, MarkStolen(p) PROVE LeaseInv'
  BY <1>27, LeaseDriving DEF MarkStolen, Go, disk, lease, Driving, ResumePcs, ExecutePcs
<1>28. ASSUME NEW p \in Pids, Launch(p) PROVE LeaseInv'
  BY <1>28, LeaseDriving DEF Launch, Go, disk, lease, Driving, ResumePcs, ExecutePcs
<1>29. ASSUME NEW p \in Pids, PersistLoad(p) PROVE LeaseInv'
  BY <1>29, LeaseDriving DEF PersistLoad, Go, disk, lease, Driving, ResumePcs, ExecutePcs
<1>30. ASSUME NEW p \in Pids, ReLane(p) PROVE LeaseInv'
  BY <1>30, LeaseDriving DEF ReLane, Go, AfterPersist, disk, lease, Driving, ResumePcs, ExecutePcs
<1>31. ASSUME NEW p \in Pids, RecordOutcome(p) PROVE LeaseInv'
  BY <1>31, LeaseDriving DEF RecordOutcome, Go, AfterPersist, disk, lease, Driving, ResumePcs, ExecutePcs
<1>32. ASSUME NEW p \in Pids, FinalizeLoad(p) PROVE LeaseInv'
  BY <1>32, LeaseDriving DEF FinalizeLoad, Go, disk, lease, Driving, ResumePcs, ExecutePcs
<1>33. ASSUME NEW p \in Pids, FinalizeWrite(p) PROVE LeaseInv'
  BY <1>33, LeaseDriving DEF FinalizeWrite, Go, disk, lease, Driving, ResumePcs, ExecutePcs
<1>34. ASSUME NEW p \in Pids, WriteFails(p) PROVE LeaseInv'
  BY <1>34, LeaseDriving DEF WriteFails, Go, disk, lease, Driving, ResumePcs, ExecutePcs
<1>35. CASE UNCHANGED vars
  BY <1>35, LeaseUntouched DEF vars, disk
<1> QED
  BY <1>1, <1>2, <1>3, <1>4, <1>5, <1>6, <1>7, <1>8, <1>9, <1>10, <1>11,
     <1>12, <1>13, <1>14, <1>15, <1>16, <1>17, <1>18, <1>19, <1>20, <1>21,
     <1>22, <1>23, <1>24, <1>25, <1>26, <1>27, <1>28, <1>29, <1>30, <1>31,
     <1>32, <1>33, <1>34, <1>35
     DEF Next, Dispatcher, Supervise, Recover, Walk, Finish

\* As long as no living holder misses its heartbeats, no two processes are ever
\* inside driveDispatch together, whatever crashes, failed writes, resumes and
\* sweeps there are, for any DAG and any number of processes.
THEOREM OneDriverHolds ==
  ASSUME MaxFreezes = 0
  PROVE  Spec => []OneDriver
<1>1. Init => TypeInv /\ LeaseInv
  BY TypeInit, LeaseInit
<1>2. TypeInv /\ LeaseInv /\ [Next]_vars => (TypeInv /\ LeaseInv)'
  BY TypeStep, LeaseStep
<1>3. TypeInv /\ LeaseInv => OneDriver
  BY DEF LeaseInv, OneDriver, Attended
<1> QED
  BY <1>1, <1>2, <1>3, PTL DEF Spec

-----------------------------------------------------------------------------
(* The walk and the recovery, without missed heartbeats.                   *)

-----------------------------------------------------------------------------
(* The invariant.  What a driving process holds in memory about a step is  *)
(* still true of state.json: the step has no outcome yet.  With it, only   *)
(* steps without an outcome are ever written, so an ok outcome is kept and *)
(* the dependencies of whatever was started stay ok.                       *)

DepsOk(s) == \A d \in Deps[s] : Ok(step[d].class)

\* The process is going to write the step, or to hand it to its node.
Open(j) == j.at \notin {"idle", "blocked"}

WalkInv ==
  /\ \A p \in Pids, s \in Steps :
       /\ pc[p] \in Driving /\ Open(job[p][s]) => step[s].class = Pending
       /\ job[p][s].at # "idle" => DepsOk(s)
       /\ pc[p] \in {"acquire", "dead"} => job[p][s].at = "idle"
       /\ pc[p] = "off" => job[p][s].at \in {"idle", "running"}
  /\ \A s \in Steps : step[s].started \/ step[s].class # Pending => DepsOk(s)

\* Ok outcomes survive the step that is being taken.
Kept == \A s \in Steps : Ok(step[s].class) => step'[s].class = step[s].class

Inv == TypeInv /\ LeaseInv /\ WalkInv

\* The types the lemmas below rest on.
LEMMA WalkTypes ==
  ASSUME TypeInv
  PROVE  /\ pc \in [Pids -> Pcs]
         /\ job \in [Pids -> [Steps -> Job]]
         /\ step \in [Steps -> StepRecords]
         /\ \A s \in Steps : Deps[s] \subseteq Steps
BY IRAssumption DEF TypeInv, TypeOK, ProcessesOK, DiskOK

\* No outcome is not an ok outcome.
LEMMA PendingNotOk == ~ Ok(Pending)
BY DEF Ok, OkClasses, Pending

\* Nothing is known about any step before the first driver.
LEMMA WalkInit == Init => WalkInv
<1> SUFFICES ASSUME Init PROVE WalkInv
  OBVIOUS
<1>1. \A p \in Pids, s \in Steps : pc[p] = "off" /\ job[p][s].at = "idle"
  BY DEF Init, Idle
<1>2. \A s \in Steps : ~ step[s].started /\ step[s].class = Pending
  BY DEF Init, FreshStep
<1> QED
  BY <1>1, <1>2 DEF WalkInv, Driving, ResumePcs, ExecutePcs

-----------------------------------------------------------------------------
(* How the invariant survives: steps that touch neither memory nor steps,  *)
(* steps that only move on, steps that change memory, steps that write.    *)

LEMMA WalkUntouched ==
  ASSUME Inv, UNCHANGED <<pc, job, step>>
  PROVE  WalkInv' /\ Kept
BY DEF Inv, WalkInv, DepsOk, Kept

LEMMA WalkMove ==
  ASSUME Inv, NEW p \in Pids, NEW to \in Driving, pc[p] \in Driving, Go(p, to),
         UNCHANGED <<job, step>>
  PROVE  WalkInv' /\ Kept
<1>1. pc' \in [Pids -> Pcs] /\ \A q \in Pids : pc'[q] = IF q = p THEN to ELSE pc[q]
  BY WalkTypes DEF Inv, Go, Pcs
<1>2. to \notin {"acquire", "dead", "off"}
  BY DEF Driving, ResumePcs, ExecutePcs
<1> QED
  BY <1>1, <1>2 DEF Inv, WalkInv, DepsOk, Kept

LEMMA WalkJobs ==
  ASSUME Inv, NEW p \in Pids, NEW to \in Driving, Go(p, to),
         NEW row, job' = [job EXCEPT ![p] = row], step' = step,
         \A s \in Steps : /\ row[s].at # "idle" => DepsOk(s)
                          /\ Open(row[s]) => step[s].class = Pending
  PROVE  WalkInv' /\ Kept
<1>1. \A q \in Pids : /\ pc'[q] = IF q = p THEN to ELSE pc[q]
                      /\ job'[q] = IF q = p THEN row ELSE job[q]
  BY WalkTypes DEF Inv, Go
<1>2. to \notin {"acquire", "dead", "off"}
  BY DEF Driving, ResumePcs, ExecutePcs
<1>3. \A s \in Steps : DepsOk(s)' <=> DepsOk(s)
  BY DEF DepsOk
<1> QED
  BY <1>1, <1>2, <1>3 DEF Inv, WalkInv, Kept

LEMMA WalkJob ==
  ASSUME Inv, NEW p \in Pids, NEW s \in Steps, NEW to \in Driving, Go(p, to),
         pc[p] \in Driving, NEW j, SetJob(p, s, j), step' = step,
         Open(job[p][s])
  PROVE  WalkInv' /\ Kept
<1> DEFINE row == [job[p] EXCEPT ![s] = j]
<1>1. job[p] \in [Steps -> Job]
  BY WalkTypes DEF Inv
<1>2. job' = [job EXCEPT ![p] = row]
  BY WalkTypes DEF Inv, SetJob
<1>3. ASSUME NEW t \in Steps
      PROVE  /\ row[t].at # "idle" => DepsOk(t)
             /\ Open(row[t]) => step[t].class = Pending
  <2>1. CASE t = s
    BY <2>1 DEF Inv, WalkInv, Open
  <2>2. CASE t # s
    BY <1>1, <2>2 DEF Inv, WalkInv
  <2> QED
    BY <2>1, <2>2
<1> HIDE DEF row
<1> QED
  BY <1>2, <1>3, WalkJobs

\* A write to a step the process holds open: nobody else drives, so no other
\* memory goes stale, and the step had no outcome to lose.
LEMMA WalkWrite ==
  ASSUME Inv, NEW p \in Pids, NEW s \in Steps, NEW to \in Driving, Go(p, to),
         pc[p] \in Driving, Open(job[p][s]),
         NEW r, step' = [step EXCEPT ![s] = r],
         NEW j, SetJob(p, s, j),
         Open(j) => r.class = Pending
  PROVE  WalkInv' /\ Kept
<1>1. \A q \in Pids : pc'[q] = IF q = p THEN to ELSE pc[q]
  BY WalkTypes DEF Inv, Go
<1>2. \A t \in Steps : step'[t] = IF t = s THEN r ELSE step[t]
  BY WalkTypes DEF Inv
<1>3. \A q \in Pids, t \in Steps :
        job'[q][t] = IF q = p /\ t = s THEN j ELSE job[q][t]
  BY WalkTypes DEF Inv, SetJob
<1>4. to \notin {"acquire", "dead", "off"}
  BY DEF Driving, ResumePcs, ExecutePcs
<1>5. step[s].class = Pending /\ DepsOk(s)
  BY DEF Inv, WalkInv, Open
<1>6. Kept
  BY <1>2, <1>5, PendingNotOk DEF Kept
<1>7. ASSUME NEW t \in Steps, DepsOk(t) PROVE DepsOk(t)'
  BY <1>6, <1>7, WalkTypes DEF DepsOk, Kept, Inv
<1>8. ASSUME NEW q \in Pids, NEW t \in Steps
      PROVE  /\ pc'[q] \in Driving /\ Open(job'[q][t]) => step'[t].class = Pending
             /\ job'[q][t].at # "idle" => DepsOk(t)'
             /\ pc'[q] \in {"acquire", "dead"} => job'[q][t].at = "idle"
             /\ pc'[q] = "off" => job'[q][t].at \in {"idle", "running"}
  <2>1. CASE q = p /\ t = s
    BY <1>1, <1>2, <1>3, <1>4, <1>5, <1>7, <2>1
  <2>2. CASE q = p /\ t # s
    BY <1>1, <1>2, <1>3, <1>4, <1>7, <2>2 DEF Inv, WalkInv
  <2>3. CASE q # p
    <3>1. pc[q] \notin Driving
      BY <2>3 DEF Inv, LeaseInv
    <3> QED
      BY <1>1, <1>3, <1>7, <2>3, <3>1 DEF Inv, WalkInv
  <2> QED
    BY <2>1, <2>2, <2>3
<1>9. ASSUME NEW t \in Steps, step'[t].started \/ step'[t].class # Pending
      PROVE  DepsOk(t)'
  BY <1>2, <1>5, <1>7, <1>9 DEF Inv, WalkInv
<1> QED
  BY <1>6, <1>8, <1>9 DEF WalkInv

\* A process that enters, leaves or dies takes no open step with it, at most
\* nodes that still run.
LEMMA WalkOutside ==
  ASSUME Inv, NEW p \in Pids, NEW to \in {"acquire", "off", "dead"}, Go(p, to),
         NEW row, job' = [job EXCEPT ![p] = row], step' = step,
         \A s \in Steps : \/ row[s].at = "idle"
                          \/ to = "off" /\ row[s] = job[p][s] /\ row[s].at = "running"
  PROVE  WalkInv' /\ Kept
<1>1. \A q \in Pids : /\ pc'[q] = IF q = p THEN to ELSE pc[q]
                      /\ job'[q] = IF q = p THEN row ELSE job[q]
  BY WalkTypes DEF Inv, Go
<1>2. to \notin Driving
  BY DEF Driving, ResumePcs, ExecutePcs
<1>3. \A s \in Steps : DepsOk(s)' <=> DepsOk(s)
  BY DEF DepsOk
<1> QED
  BY <1>1, <1>2, <1>3 DEF Inv, WalkInv, Kept

-----------------------------------------------------------------------------
(* The actions that change memory or write a step.                         *)

\* Recovery opens exactly the steps that were started and have no outcome.
LEMMA WalkResumeLoad ==
  ASSUME Inv, NEW p \in Pids, ResumeLoad(p)
  PROVE  WalkInv' /\ Kept
<1> DEFINE row == [s \in Steps |->
             IF CrashWindow(s)
             THEN [Idle EXCEPT !.at = "window", !.attempt = step[s].attempt,
                               !.lane = step[s].lane]
             ELSE Idle]
<1>1. \A s \in Steps : /\ row[s].at # "idle" => DepsOk(s)
                       /\ Open(row[s]) => step[s].class = Pending
  BY DEF Idle, Open, CrashWindow, Inv, WalkInv
<1>2. job' = [job EXCEPT ![p] = row] /\ step' = step /\ Go(p, "reconcile")
  BY DEF ResumeLoad, disk
<1>3. "reconcile" \in Driving
  BY DEF Driving, ResumePcs
<1> HIDE DEF row
<1> QED
  BY <1>1, <1>2, <1>3, WalkJobs

\* A wave opens ready steps only.
LEMMA WalkComposeWave ==
  ASSUME Inv, NEW p \in Pids, ComposeWave(p)
  PROVE  WalkInv' /\ Kept
<1>1. PICK lane : job' = [job EXCEPT ![p] = [s \in Steps |->
               IF s \in PickWave(ReadySet(step), lane, MaxConcurrency)
               THEN [Idle EXCEPT !.at = "picked", !.attempt = step[s].attempt]
               ELSE Idle]]
  BY DEF ComposeWave
<1> DEFINE row == [s \in Steps |->
               IF s \in PickWave(ReadySet(step), lane, MaxConcurrency)
               THEN [Idle EXCEPT !.at = "picked", !.attempt = step[s].attempt]
               ELSE Idle]
<1>2. PickWave(ReadySet(step), lane, MaxConcurrency) \subseteq ReadySet(step)
  BY DEF PickWave
<1>3. \A s \in Steps : /\ row[s].at # "idle" => DepsOk(s)
                       /\ Open(row[s]) => step[s].class = Pending
  BY <1>2 DEF Idle, Open, ReadySet, DepsOk
<1>4. step' = step /\ Go(p, "start") /\ "start" \in Driving
  BY DEF ComposeWave, disk, Driving, ExecutePcs
<1> HIDE DEF row
<1> QED
  BY <1>1, <1>3, <1>4, WalkJobs DEF row

\* The receipt of an open step is looked up.
LEMMA WalkResumeProbe ==
  ASSUME Inv, NEW p \in Pids, ResumeProbe(p)
  PROVE  WalkInv' /\ Kept
<1>1. PICK s \in First(At(p, "window")) : \E j : SetJob(p, s, j)
  BY DEF ResumeProbe
<1>2. PICK j : SetJob(p, s, j)
  BY <1>1
<1>3. s \in Steps /\ Open(job[p][s])
  BY DEF First, At, Open
<1>4. /\ step' = step /\ pc[p] = "reconcile" /\ "reconcile" \in Driving
      /\ Go(p, "reconcile")
  BY WalkTypes DEF ResumeProbe, disk, Driving, ResumePcs, Go, Inv
<1> QED
  BY <1>2, <1>3, <1>4, WalkJob

\* A node of the wave is launched.
LEMMA WalkLaunch ==
  ASSUME Inv, NEW p \in Pids, Launch(p)
  PROVE  WalkInv' /\ Kept
<1> DEFINE to == IF At(p, "picked") # {} THEN "start" ELSE "wait"
<1>1. PICK s \in At(p, "started") : \E j : SetJob(p, s, j)
  BY DEF Launch
<1>2. PICK j : SetJob(p, s, j)
  BY <1>1
<1>3. s \in Steps /\ Open(job[p][s])
  BY DEF At, Open
<1>4. step' = step /\ pc[p] \in Driving /\ to \in Driving /\ Go(p, to)
  BY DEF Launch, disk, Driving, ExecutePcs
<1> HIDE DEF to
<1> QED
  BY <1>2, <1>3, <1>4, WalkJob

\* What is to be persisted is decided.
LEMMA WalkPersistLoad ==
  ASSUME Inv, NEW p \in Pids, PersistLoad(p)
  PROVE  WalkInv' /\ Kept
<1>1. PICK s \in First(At(p, "returned")) : \E j : SetJob(p, s, j)
  BY DEF PersistLoad
<1>2. PICK j : SetJob(p, s, j)
  BY <1>1
<1>3. s \in Steps /\ Open(job[p][s])
  BY DEF First, At, Open
<1>4. /\ step' = step /\ pc[p] \in Driving /\ "persist" \in Driving
      /\ Go(p, "persist")
  BY DEF PersistLoad, disk, Driving, ExecutePcs
<1> QED
  BY <1>2, <1>3, <1>4, WalkJob

\* Recovery writes the outcome of a step it holds open.
LEMMA WalkResumeApply ==
  ASSUME Inv, NEW p \in Pids, ResumeApply(p)
  PROVE  WalkInv' /\ Kept
<1>1. PICK s \in At(p, "probed") :
        /\ step' = [step EXCEPT ![s].class = job[p][s].class,
                                ![s].started = @ /\ job[p][s].class # Pending]
        /\ SetJob(p, s, [Idle EXCEPT !.at = IF job[p][s].class = "blocked"
                                            THEN "blocked" ELSE "idle"])
  BY DEF ResumeApply
<1> DEFINE r == [step[s] EXCEPT !.class = job[p][s].class,
                                !.started = @ /\ job[p][s].class # Pending]
           j == [Idle EXCEPT !.at = IF job[p][s].class = "blocked"
                                    THEN "blocked" ELSE "idle"]
<1>2. s \in Steps /\ Open(job[p][s])
  BY DEF At, Open
<1>3. step' = [step EXCEPT ![s] = r]
  BY <1>1, <1>2, WalkTypes DEF Inv
<1>4. ~ Open(j)
  BY DEF Open, Idle
<1>5. pc[p] = "reconcile" /\ "reconcile" \in Driving /\ Go(p, "reconcile")
  BY WalkTypes DEF ResumeApply, Driving, ResumePcs, Go, Inv
<1> HIDE DEF r, j
<1> QED
  BY <1>1, <1>2, <1>3, <1>4, <1>5, WalkWrite DEF j

\* The mark is written to a step that stays open, without an outcome.
LEMMA WalkMarkStarted ==
  ASSUME Inv, NEW p \in Pids, MarkStarted(p)
  PROVE  WalkInv' /\ Kept
<1>1. PICK s \in First(At(p, "picked")), lane \in Lanes \cup {NoLane} :
        /\ step' = [step EXCEPT ![s].started = TRUE,
                                ![s].attempt = job[p][s].attempt,
                                ![s].lane = lane]
        /\ SetJob(p, s, [job[p][s] EXCEPT !.at = "started", !.lane = lane])
  BY IRAssumption DEF MarkStarted, Resolve, First, At
<1> DEFINE r == [step[s] EXCEPT !.started = TRUE, !.attempt = job[p][s].attempt,
                                !.lane = lane]
           j == [job[p][s] EXCEPT !.at = "started", !.lane = lane]
<1>2. s \in Steps /\ Open(job[p][s])
  BY DEF First, At, Open
<1>3. step' = [step EXCEPT ![s] = r]
  BY <1>1, <1>2, WalkTypes DEF Inv
<1>4. /\ pc[p] \in Driving /\ "launch" \in Driving /\ Go(p, "launch")
  BY DEF MarkStarted, Driving, ExecutePcs
<1>5. r.class = Pending
  BY <1>2, <1>4, WalkTypes DEF Inv, WalkInv, StepRecords
<1> HIDE DEF r, j
<1> QED
  BY <1>1, <1>2, <1>3, <1>4, <1>5, WalkWrite DEF j

\* A re-lane resets a step the process holds open.
LEMMA WalkReLane ==
  ASSUME Inv, NEW p \in Pids, ReLane(p)
  PROVE  WalkInv' /\ Kept
<1> DEFINE to == IF At(p, "returned") # {} THEN "wait" ELSE "loop"
<1>1. PICK s \in At(p, "relane") :
        /\ step' = [step EXCEPT ![s].attempt = job[p][s].attempt + 1, ![s].class = Pending,
                               ![s].started = FALSE]
        /\ SetJob(p, s, Idle)
  BY DEF ReLane
<1> DEFINE r == [step[s] EXCEPT !.attempt = job[p][s].attempt + 1, !.class = Pending,
                               !.started = FALSE]
<1>2. s \in Steps /\ Open(job[p][s])
  BY DEF At, Open
<1>3. step' = [step EXCEPT ![s] = r]
  BY <1>1, <1>2, WalkTypes DEF Inv
<1>4. ~ Open(Idle)
  BY DEF Open, Idle
<1>5. pc[p] \in Driving /\ to \in Driving /\ Go(p, to)
  BY DEF ReLane, AfterPersist, Driving, ExecutePcs
<1> HIDE DEF r, to
<1> QED
  BY <1>1, <1>2, <1>3, <1>4, <1>5, WalkWrite

\* An outcome is recorded for a step the process holds open.
LEMMA WalkRecordOutcome ==
  ASSUME Inv, NEW p \in Pids, RecordOutcome(p)
  PROVE  WalkInv' /\ Kept
<1> DEFINE to == IF At(p, "returned") # {} THEN "wait" ELSE "loop"
<1>1. PICK s \in At(p, "record") :
        /\ step' = [step EXCEPT ![s].class = job[p][s].class, ![s].ref = TRUE,
                               ![s].lane = job[p][s].lane,
                               ![s].verdict = IF job[p][s].verdict # ""
                                            THEN job[p][s].verdict ELSE @]
        /\ SetJob(p, s, Idle)
  BY DEF RecordOutcome
<1> DEFINE r == [step[s] EXCEPT !.class = job[p][s].class, !.ref = TRUE,
                               !.lane = job[p][s].lane,
                               !.verdict = IF job[p][s].verdict # ""
                                            THEN job[p][s].verdict ELSE @]
<1>2. s \in Steps /\ Open(job[p][s])
  BY DEF At, Open
<1>3. step' = [step EXCEPT ![s] = r]
  BY <1>1, <1>2, WalkTypes DEF Inv
<1>4. ~ Open(Idle)
  BY DEF Open, Idle
<1>5. pc[p] \in Driving /\ to \in Driving /\ Go(p, to)
  BY DEF RecordOutcome, AfterPersist, Driving, ExecutePcs
<1> HIDE DEF r, to
<1> QED
  BY <1>1, <1>2, <1>3, <1>4, <1>5, WalkWrite

\* A node ends: its wave learns of it, or nobody does.
LEMMA WalkNodeReturns ==
  ASSUME Inv, NEW p \in Pids, NEW s \in Steps, NodeReturns(p, s)
  PROVE  WalkInv' /\ Kept
<1>1. /\ \E j : SetJob(p, s, j)
      /\ pc[p] \notin ExecutePcs => SetJob(p, s, Idle)
  BY Zenon DEF NodeReturns
<1>2. /\ job[p][s].at = "running"
      /\ step' = step
      /\ pc' = pc
  BY DEF NodeReturns, disk
<1>3. Open(job[p][s])
  BY <1>2 DEF Open
<1>4. CASE pc[p] \in ExecutePcs
  <2>1. pc[p] \in Driving
    BY <1>4 DEF Driving
  <2>2. Go(p, pc[p])
    BY <1>2, WalkTypes DEF Go, Inv
  <2>3. PICK j : SetJob(p, s, j)
    BY <1>1
  <2> QED
    BY <1>2, <1>3, <2>1, <2>2, <2>3, WalkJob
<1>5. CASE pc[p] \notin ExecutePcs
  <2>1. \A q \in Pids, t \in Steps :
          job'[q][t] = IF q = p /\ t = s THEN Idle ELSE job[q][t]
    BY <1>1, <1>5, WalkTypes DEF Inv, SetJob
  <2>2. \A t \in Steps : DepsOk(t)' <=> DepsOk(t)
    BY <1>2 DEF DepsOk
  <2>3. Idle.at = "idle" /\ ~ Open(Idle)
    BY DEF Idle, Open
  <2>4. \A q \in Pids, t \in Steps :
          /\ pc[q] \in Driving /\ Open(job'[q][t]) => step[t].class = Pending
          /\ job'[q][t].at # "idle" => DepsOk(t)
          /\ pc[q] \in {"acquire", "dead"} => job'[q][t].at = "idle"
          /\ pc[q] = "off" => job'[q][t].at \in {"idle", "running"}
    BY <2>1, <2>3 DEF Inv, WalkInv
  <2>5. \A t \in Steps : step[t].started \/ step[t].class # Pending => DepsOk(t)
    BY DEF Inv, WalkInv
  <2>6. Kept
    BY <1>2 DEF Kept
  <2> QED
    BY <1>2, <2>2, <2>4, <2>5, <2>6 DEF WalkInv
<1> QED
  BY <1>4, <1>5

\* The lease is given back: only running nodes are left.
LEMMA WalkReleaseLease ==
  ASSUME Inv, NEW p \in Pids, ReleaseLease(p)
  PROVE  WalkInv' /\ Kept
<1> DEFINE row == [s \in Steps |-> IF job[p][s].at = "running" THEN job[p][s]
                                   ELSE Idle]
<1>1. job' = [job EXCEPT ![p] = row] /\ step' = step /\ Go(p, "off")
  BY WalkTypes DEF ReleaseLease, Inv
<1>2. \A s \in Steps : \/ row[s].at = "idle"
                       \/ row[s] = job[p][s] /\ row[s].at = "running"
  BY DEF Idle
<1> HIDE DEF row
<1>3. \A q \in Pids : /\ pc'[q] = IF q = p THEN "off" ELSE pc[q]
                      /\ job'[q] = IF q = p THEN row ELSE job[q]
  BY <1>1, WalkTypes DEF Inv, Go
<1>4. "off" \notin Driving /\ \A s \in Steps : DepsOk(s)' <=> DepsOk(s)
  BY <1>1 DEF Driving, ResumePcs, ExecutePcs, DepsOk
<1> QED
  BY <1>1, <1>2, <1>3, <1>4 DEF Inv, WalkInv, Kept

\* The lease is taken by a process that has nothing in memory.
LEMMA WalkAcquireLease ==
  ASSUME Inv, NEW p \in Pids, AcquireLease(p)
  PROVE  WalkInv' /\ Kept
<1> DEFINE to == IF resuming[p] THEN "load" ELSE "beat"
<1>1. to \in Driving /\ Go(p, to) /\ step' = step /\ job' = job
  BY DEF AcquireLease, Driving, ResumePcs, ExecutePcs, memory
<1>2. \A s \in Steps : job[p][s].at = "idle"
  BY DEF AcquireLease, Inv, WalkInv
<1>3. job' = [job EXCEPT ![p] = job[p]]
  BY <1>1, WalkTypes DEF Inv
<1> HIDE DEF to
<1> QED
  BY <1>1, <1>2, <1>3, WalkJobs DEF Open

\* The child starts with nothing in memory.
LEMMA WalkSpawn ==
  ASSUME Inv, Spawn
  PROVE  WalkInv' /\ Kept
<1> DEFINE row == [s \in Steps |-> Idle]
<1>1. job' = [job EXCEPT ![Child] = row] /\ step' = step /\ Go(Child, "acquire")
  BY DEF Spawn, disk
<1>2. \A s \in Steps : row[s].at = "idle"
  BY DEF Idle
<1> HIDE DEF row
<1> QED
  BY <1>1, <1>2, WalkOutside, SupervisorAssumption

\* So does every other driver.
LEMMA WalkStartDrive ==
  ASSUME Inv, NEW p \in Pids, NEW mode \in Modes, StartDrive(p, mode)
  PROVE  WalkInv' /\ Kept
<1> DEFINE row == [s \in Steps |-> Idle]
<1>1. job' = [job EXCEPT ![p] = row] /\ step' = step /\ Go(p, "acquire")
  BY DEF StartDrive, disk
<1>2. \A s \in Steps : row[s].at = "idle"
  BY DEF Idle
<1> HIDE DEF row
<1> QED
  BY <1>1, <1>2, WalkOutside

\* A crash loses the memory.
LEMMA WalkCrash ==
  ASSUME Inv, NEW p \in Pids, Crash(p)
  PROVE  WalkInv' /\ Kept
<1> DEFINE row == [s \in Steps |-> Idle]
<1>1. job' = [job EXCEPT ![p] = row] /\ step' = step /\ Go(p, "dead")
  BY DEF Crash, disk
<1>2. \A s \in Steps : row[s].at = "idle"
  BY DEF Idle
<1> HIDE DEF row
<1> QED
  BY <1>1, <1>2, WalkOutside

\* A refused driver leaves with nothing.
LEMMA WalkRefuseDrive ==
  ASSUME Inv, NEW p \in Pids, RefuseDrive(p)
  PROVE  WalkInv' /\ Kept
<1>1. job' = [job EXCEPT ![p] = job[p]] /\ step' = step /\ Go(p, "off")
  BY WalkTypes DEF RefuseDrive, disk, memory, Inv
<1>2. \A s \in Steps : job[p][s].at = "idle"
  BY DEF RefuseDrive, Inv, WalkInv
<1> QED
  BY <1>1, <1>2, WalkOutside

-----------------------------------------------------------------------------
\* Every step keeps the invariant and every ok outcome.
LEMMA WalkStep == Inv /\ [Next]_vars => WalkInv' /\ Kept
<1> SUFFICES ASSUME Inv, [Next]_vars PROVE WalkInv' /\ Kept
  OBVIOUS
<1>1. CASE Spawn
  BY <1>1, WalkSpawn
<1>2. CASE SpawnFails
  BY <1>2, WalkUntouched DEF SpawnFails, disk, memory
<1>3. CASE MarkWorking
  BY <1>3, WalkUntouched DEF MarkWorking, disk, memory
<1>4. CASE RequestCancel
  BY <1>4, WalkUntouched DEF RequestCancel, disk, memory
<1>5. CASE Lapse
  BY <1>5, WalkUntouched DEF Lapse, disk, memory
<1>6. CASE Freeze
  BY <1>6, WalkUntouched DEF Freeze, disk, memory
<1>7. ASSUME NEW p \in Pids, NEW mode \in Modes, StartDrive(p, mode) PROVE WalkInv' /\ Kept
  BY <1>7, WalkStartDrive
<1>8. ASSUME NEW p \in Pids, NEW s \in Steps, NodeReturns(p, s) PROVE WalkInv' /\ Kept
  BY <1>8, WalkNodeReturns
<1>9. ASSUME NEW p \in Pids, AcquireLease(p) PROVE WalkInv' /\ Kept
  BY <1>9, WalkAcquireLease
<1>10. ASSUME NEW p \in Pids, RefuseDrive(p) PROVE WalkInv' /\ Kept
  BY <1>10, WalkRefuseDrive
<1>11. ASSUME NEW p \in Pids, ResumeLoad(p) PROVE WalkInv' /\ Kept
  BY <1>11, WalkResumeLoad
<1>12. ASSUME NEW p \in Pids, ResumeProbe(p) PROVE WalkInv' /\ Kept
  BY <1>12, WalkResumeProbe
<1>13. ASSUME NEW p \in Pids, ResumeApply(p) PROVE WalkInv' /\ Kept
  BY <1>13, WalkResumeApply
<1>14. ASSUME NEW p \in Pids, ComposeWave(p) PROVE WalkInv' /\ Kept
  BY <1>14, WalkComposeWave
<1>15. ASSUME NEW p \in Pids, MarkStarted(p) PROVE WalkInv' /\ Kept
  BY <1>15, WalkMarkStarted
<1>16. ASSUME NEW p \in Pids, Launch(p) PROVE WalkInv' /\ Kept
  BY <1>16, WalkLaunch
<1>17. ASSUME NEW p \in Pids, PersistLoad(p) PROVE WalkInv' /\ Kept
  BY <1>17, WalkPersistLoad
<1>18. ASSUME NEW p \in Pids, ReLane(p) PROVE WalkInv' /\ Kept
  BY <1>18, WalkReLane
<1>19. ASSUME NEW p \in Pids, RecordOutcome(p) PROVE WalkInv' /\ Kept
  BY <1>19, WalkRecordOutcome
<1>20. ASSUME NEW p \in Pids, ReleaseLease(p) PROVE WalkInv' /\ Kept
  BY <1>20, WalkReleaseLease
<1>21. ASSUME NEW p \in Pids, Crash(p) PROVE WalkInv' /\ Kept
  BY <1>21, WalkCrash
<1>22. ASSUME NEW p \in Pids, Heartbeat(p) PROVE WalkInv' /\ Kept
  BY <1>22, WalkUntouched DEF Heartbeat, memory
<1>23. ASSUME NEW p \in Pids, FirstBeat(p) PROVE WalkInv' /\ Kept
  BY <1>23, WalkMove DEF FirstBeat, Go, disk, memory, Driving,
     ResumePcs, ExecutePcs
<1>24. ASSUME NEW p \in Pids, ResumeBlocked(p) PROVE WalkInv' /\ Kept
  BY <1>24, WalkMove DEF ResumeBlocked, Go, Reconciled, disk, memory, Driving,
     ResumePcs, ExecutePcs
<1>25. ASSUME NEW p \in Pids, ResumeVerdict(p) PROVE WalkInv' /\ Kept
  BY <1>25, WalkMove DEF ResumeVerdict, Go, Reconciled, disk, memory, Driving,
     ResumePcs, ExecutePcs
<1>26. ASSUME NEW p \in Pids, ResumeReread(p) PROVE WalkInv' /\ Kept
  BY <1>26, WalkMove DEF ResumeReread, Go, disk, memory, Driving,
     ResumePcs, ExecutePcs
<1>27. ASSUME NEW p \in Pids, MarkRunning(p) PROVE WalkInv' /\ Kept
  BY <1>27, WalkMove DEF MarkRunning, Go, disk, memory, Driving,
     ResumePcs, ExecutePcs
<1>28. ASSUME NEW p \in Pids, CancelStop(p) PROVE WalkInv' /\ Kept
  BY <1>28, WalkMove DEF CancelStop, Go, disk, memory, Driving,
     ResumePcs, ExecutePcs
<1>29. ASSUME NEW p \in Pids, NothingReady(p) PROVE WalkInv' /\ Kept
  BY <1>29, WalkMove DEF NothingReady, Go, disk, memory, Driving,
     ResumePcs, ExecutePcs
<1>30. ASSUME NEW p \in Pids, StepAside(p) PROVE WalkInv' /\ Kept
  BY <1>30, WalkMove DEF StepAside, Go, disk, memory, Driving,
     ResumePcs, ExecutePcs
<1>31. ASSUME NEW p \in Pids, MarkStolen(p) PROVE WalkInv' /\ Kept
  BY <1>31, WalkMove DEF MarkStolen, Go, disk, memory, Driving,
     ResumePcs, ExecutePcs
<1>32. ASSUME NEW p \in Pids, FinalizeLoad(p) PROVE WalkInv' /\ Kept
  BY <1>32, WalkMove DEF FinalizeLoad, Go, disk, memory, Driving,
     ResumePcs, ExecutePcs
<1>33. ASSUME NEW p \in Pids, FinalizeWrite(p) PROVE WalkInv' /\ Kept
  BY <1>33, WalkMove DEF FinalizeWrite, Go, disk, memory, Driving,
     ResumePcs, ExecutePcs
<1>34. ASSUME NEW p \in Pids, WriteFails(p) PROVE WalkInv' /\ Kept
  BY <1>34, WalkMove DEF WriteFails, Go, disk, memory, Driving,
     ResumePcs, ExecutePcs
<1>35. CASE UNCHANGED vars
  BY <1>35, WalkUntouched DEF vars, disk, memory
<1> QED
  BY <1>1, <1>2, <1>3, <1>4, <1>5, <1>6, <1>7, <1>8, <1>9, <1>10, <1>11,
     <1>12, <1>13, <1>14, <1>15, <1>16, <1>17, <1>18, <1>19, <1>20, <1>21,
     <1>22, <1>23, <1>24, <1>25, <1>26, <1>27, <1>28, <1>29, <1>30, <1>31,
     <1>32, <1>33, <1>34, <1>35
     DEF Next, Dispatcher, Supervise, Recover, Walk, Finish

-----------------------------------------------------------------------------
\* The strengthened invariant holds of every behaviour in which no living
\* holder is robbed of its lease.
LEMMA InvHolds ==
  ASSUME MaxFreezes = 0
  PROVE  Spec => []Inv
<1>1. Init => Inv
  BY TypeInit, LeaseInit, WalkInit DEF Inv
<1>2. Inv /\ [Next]_vars => Inv'
  BY TypeStep, LeaseStep, WalkStep DEF Inv
<1> QED
  BY <1>1, <1>2, PTL DEF Spec

\* No node is launched, or runs on, without all its dependencies being ok on
\* disk: not after a recovery that reset them, not from a stale wave, not in a
\* wave that was abandoned.
THEOREM DepsHoldAlways ==
  ASSUME MaxFreezes = 0
  PROVE  Spec => []DepsHold
<1>1. Inv => DepsHold
  BY DEF Inv, WalkInv, DepsOk, DepsHold
<1> QED
  BY <1>1, InvHolds, PTL

\* An ok outcome on disk is final: no recovery, re-lane or late driver ever
\* replaces or resets it, over any number of crashes and failed writes.
THEOREM OkIsKeptAlways ==
  ASSUME MaxFreezes = 0
  PROVE  Spec => OkIsKept
<1>1. Inv /\ [Next]_vars =>
        [\A s \in Steps : Ok(step[s].class) => step'[s].class = step[s].class]_vars
  BY WalkStep DEF Kept
<1> QED
  BY <1>1, InvHolds, PTL DEF Spec, OkIsKept

-----------------------------------------------------------------------------
(* Done is complete.  finalize looks at the terminal step alone; that every *)
(* other step is ok too follows from the shape of the DAG, because ok       *)
(* outcomes are kept and no step ends without its dependencies.             *)

LastOk == Ok(step[LastStep].class)

DoneInv ==
  /\ status = "done" => LastOk
  /\ \A p \in Pids : pc[p] \in {"finwrite", "rfinwrite"} /\ fin[p].state = "done"
                     => LastOk

\* The last step is ok for good.
LEMMA LastOkKept == Kept /\ LastOk => LastOk'
BY IRAssumption DEF Kept, LastOk, LastStep, Steps

\* Only finalize computes a done, and only from an ok last step.
LEMMA DoneFinalizeLoad ==
  ASSUME Inv, DoneInv, Kept, NEW p \in Pids, FinalizeLoad(p)
  PROVE  DoneInv'
<1>1. \A q \in Pids : /\ q # p => pc'[q] = pc[q] /\ fin'[q] = fin[q]
                      /\ fin'[p].state = FinalState(step)
  BY WalkTypes DEF FinalizeLoad, Go, Inv, TypeInv, TypeOK, ProcessesOK
<1>2. status' = status /\ step' = step
  BY DEF FinalizeLoad, disk
<1>3. FinalState(step) = "done" => LastOk
  BY DEF FinalState, LastOk
<1> QED
  BY <1>1, <1>2, <1>3 DEF DoneInv, LastOk

\* A step that computes no verdict and publishes none, or an honest one.
LEMMA DoneUntouched ==
  ASSUME DoneInv, Kept, pc' = pc, fin' = fin, status' = "done" => LastOk
  PROVE  DoneInv'
BY LastOkKept DEF DoneInv

LEMMA DoneMove ==
  ASSUME Inv, DoneInv, Kept, NEW p \in Pids, NEW to, Go(p, to),
         to \notin {"finwrite", "rfinwrite"},
         \A q \in Pids \ {p} : fin'[q] = fin[q],
         status' = "done" => LastOk
  PROVE  DoneInv'
<1>1. \A q \in Pids : pc'[q] = IF q = p THEN to ELSE pc[q]
  BY WalkTypes DEF Go, Inv
<1> QED
  BY <1>1, LastOkKept DEF DoneInv

\* Every step keeps it: one case per action.
LEMMA DoneStep == Inv /\ DoneInv /\ [Next]_vars => DoneInv'
<1> SUFFICES ASSUME Inv, DoneInv, [Next]_vars PROVE DoneInv'
  OBVIOUS
<1>k. Kept
  BY WalkStep
<1>s. status = "done" => LastOk
  BY DEF DoneInv
<1>f. fin \in [Pids -> Finals]
  BY DEF Inv, TypeInv, TypeOK, ProcessesOK
<1>1. CASE Spawn
  BY <1>1, <1>k, <1>s, <1>f, DoneMove, SupervisorAssumption DEF Spawn, disk
<1>2. CASE SpawnFails
  BY <1>2, <1>k, <1>s, <1>f, DoneUntouched DEF SpawnFails, Publish, disk, memory
<1>3. CASE MarkWorking
  BY <1>3, <1>k, <1>s, <1>f, DoneUntouched DEF MarkWorking, Publish, disk, memory
<1>4. CASE RequestCancel
  BY <1>4, <1>k, <1>s, <1>f, DoneUntouched DEF RequestCancel, disk, memory
<1>5. CASE Lapse
  BY <1>5, <1>k, <1>s, <1>f, DoneUntouched DEF Lapse, disk, memory
<1>6. CASE Freeze
  BY <1>6, <1>k, <1>s, <1>f, DoneUntouched DEF Freeze, disk, memory
<1>7. ASSUME NEW p \in Pids, NEW mode \in Modes, StartDrive(p, mode) PROVE DoneInv'
  BY <1>7, <1>k, <1>s, <1>f, DoneMove DEF StartDrive, disk
<1>8. ASSUME NEW p \in Pids, NEW s \in Steps, NodeReturns(p, s) PROVE DoneInv'
  BY <1>8, <1>k, <1>s, <1>f, DoneUntouched DEF NodeReturns, disk
<1>9. ASSUME NEW p \in Pids, FinalizeLoad(p) PROVE DoneInv'
  BY <1>9, <1>k, <1>s, <1>f, DoneFinalizeLoad
<1>10. ASSUME NEW p \in Pids, FinalizeWrite(p) PROVE DoneInv'
  BY <1>10, <1>k, <1>s, <1>f, DoneMove DEF FinalizeWrite, DoneInv, memory
<1>11. ASSUME NEW p \in Pids, Heartbeat(p) PROVE DoneInv'
  BY <1>11, <1>k, <1>s, <1>f, DoneUntouched DEF Heartbeat, disk, memory
<1>12. ASSUME NEW p \in Pids, ResumeProbe(p) PROVE DoneInv'
  BY <1>12, <1>k, <1>s, <1>f, DoneUntouched DEF ResumeProbe, disk, memory
<1>13. ASSUME NEW p \in Pids, ResumeApply(p) PROVE DoneInv'
  BY <1>13, <1>k, <1>s, <1>f, DoneUntouched DEF ResumeApply, disk, memory
<1>14. ASSUME NEW p \in Pids, AcquireLease(p) PROVE DoneInv'
  BY <1>14, <1>k, <1>s, <1>f, DoneMove DEF AcquireLease, disk, memory
<1>15. ASSUME NEW p \in Pids, RefuseDrive(p) PROVE DoneInv'
  BY <1>15, <1>k, <1>s, <1>f, DoneMove DEF RefuseDrive, disk, memory
<1>16. ASSUME NEW p \in Pids, FirstBeat(p) PROVE DoneInv'
  BY <1>16, <1>k, <1>s, <1>f, DoneMove DEF FirstBeat, disk, memory
<1>17. ASSUME NEW p \in Pids, ReleaseLease(p) PROVE DoneInv'
  BY <1>17, <1>k, <1>s, <1>f, DoneMove DEF ReleaseLease, disk, memory
<1>18. ASSUME NEW p \in Pids, ResumeLoad(p) PROVE DoneInv'
  BY <1>18, <1>k, <1>s, <1>f, DoneMove DEF ResumeLoad, disk, memory
<1>19. ASSUME NEW p \in Pids, ResumeBlocked(p) PROVE DoneInv'
  BY <1>19, <1>k, <1>s, <1>f, DoneMove DEF ResumeBlocked, Reconciled, disk, memory
<1>20. ASSUME NEW p \in Pids, ResumeVerdict(p) PROVE DoneInv'
  BY <1>20, <1>k, <1>s, <1>f, DoneMove DEF ResumeVerdict, Reconciled, disk, memory
<1>21. ASSUME NEW p \in Pids, ResumeReread(p) PROVE DoneInv'
  BY <1>21, <1>k, <1>s, <1>f, DoneMove DEF ResumeReread, disk, memory
<1>22. ASSUME NEW p \in Pids, MarkRunning(p) PROVE DoneInv'
  BY <1>22, <1>k, <1>s, <1>f, DoneMove DEF MarkRunning, disk, memory
<1>23. ASSUME NEW p \in Pids, CancelStop(p) PROVE DoneInv'
  BY <1>23, <1>k, <1>s, <1>f, DoneMove DEF CancelStop, disk, memory
<1>24. ASSUME NEW p \in Pids, NothingReady(p) PROVE DoneInv'
  BY <1>24, <1>k, <1>s, <1>f, DoneMove DEF NothingReady, disk, memory
<1>25. ASSUME NEW p \in Pids, StepAside(p) PROVE DoneInv'
  BY <1>25, <1>k, <1>s, <1>f, DoneMove DEF StepAside, disk, memory
<1>26. ASSUME NEW p \in Pids, ComposeWave(p) PROVE DoneInv'
  BY <1>26, <1>k, <1>s, <1>f, DoneMove DEF ComposeWave, disk, memory
<1>27. ASSUME NEW p \in Pids, MarkStarted(p) PROVE DoneInv'
  BY <1>27, <1>k, <1>s, <1>f, DoneMove DEF MarkStarted, disk, memory
<1>28. ASSUME NEW p \in Pids, MarkStolen(p) PROVE DoneInv'
  BY <1>28, <1>k, <1>s, <1>f, DoneMove DEF MarkStolen, disk, memory
<1>29. ASSUME NEW p \in Pids, Launch(p) PROVE DoneInv'
  BY <1>29, <1>k, <1>s, <1>f, DoneMove DEF Launch, disk, memory
<1>30. ASSUME NEW p \in Pids, PersistLoad(p) PROVE DoneInv'
  BY <1>30, <1>k, <1>s, <1>f, DoneMove DEF PersistLoad, disk, memory
<1>31. ASSUME NEW p \in Pids, ReLane(p) PROVE DoneInv'
  BY <1>31, <1>k, <1>s, <1>f, DoneMove DEF ReLane, AfterPersist, disk, memory
<1>32. ASSUME NEW p \in Pids, RecordOutcome(p) PROVE DoneInv'
  BY <1>32, <1>k, <1>s, <1>f, DoneMove DEF RecordOutcome, AfterPersist, disk, memory
<1>33. ASSUME NEW p \in Pids, WriteFails(p) PROVE DoneInv'
  BY <1>33, <1>k, <1>s, <1>f, DoneMove DEF WriteFails, disk, memory
<1>34. ASSUME NEW p \in Pids, Crash(p) PROVE DoneInv'
  BY <1>34, <1>k, <1>s, <1>f, DoneMove DEF Crash, disk, memory
<1>35. CASE UNCHANGED vars
  BY <1>35, <1>k, <1>s, <1>f, DoneUntouched DEF vars, disk, memory
<1> QED
  BY <1>1, <1>2, <1>3, <1>4, <1>5, <1>6, <1>7, <1>8, <1>9, <1>10, <1>11,
     <1>12, <1>13, <1>14, <1>15, <1>16, <1>17, <1>18, <1>19, <1>20,
     <1>21, <1>22, <1>23, <1>24, <1>25, <1>26, <1>27, <1>28, <1>29,
     <1>30, <1>31, <1>32, <1>33, <1>34, <1>35
     DEF Next, Dispatcher, Supervise, Recover, Walk, Finish

\* Finalize's look at the terminal step is enough: a dispatch is published as
\* done only when every step of it is ok, for every DAG that Validate admits.
THEOREM DoneIsCompleteAlways ==
  ASSUME MaxFreezes = 0
  PROVE  Spec => []DoneIsComplete
<1>1. Init => DoneInv
  BY DEF Init, DoneInv
<1>2. Inv /\ DoneInv => DoneIsComplete
  <2> SUFFICES ASSUME Inv, LastOk PROVE \A s \in Steps : Ok(step[s].class)
    BY DEF DoneInv, DoneIsComplete
  <2> DEFINE G == {s \in Steps : Ok(step[s].class)}
  <2>1. LastStep \in G
    BY IRAssumption DEF LastOk, LastStep, Steps
  <2>2. \A s \in G : Deps[s] \subseteq G
    BY WalkTypes, PendingNotOk DEF Inv, WalkInv, DepsOk
  <2>3. G = Steps
    <3> HIDE DEF G
    <3>1. G \in SUBSET Steps
      BY DEF G
    <3> QED
      BY <2>1, <2>2, <3>1, EveryStepFeedsLast
  <2> QED
    BY <2>3
<1> QED
  BY <1>1, <1>2, DoneStep, InvHolds, PTL DEF Spec
=============================================================================
