---------------------------- MODULE Dispatch_proofs ----------------------------
(***************************************************************************)
(* What holds of concurrent dispatches for every rank table, every         *)
(* configuration, any number of processes and every length of the waits:   *)
(* nothing is sent against the operator's word, exit codes are honest, a   *)
(* strike latches, and the pacing lock lets one GLM child run at a time.   *)
(***************************************************************************)
EXTENDS Dispatch, FiniteSetTheorems, WellFoundedInduction, TLAPS

-----------------------------------------------------------------------------
(* One dispatch.  Whatever it does is a change of its own record, and what *)
(* may be said of the record depends on nothing else but config.           *)

Fields == {"pc", "ask", "lane", "now", "locked", "class", "costly", "sent", "receipt", "lost",
           "exit", "stranded"}

Pacings == {"wait", "found", "steal", "held"}
Unsent  == {"idle", "route", "gate", "ready"} \cup Pacings
Bookkeeping == {"latch", "ledger", "receipt", "health"}
Pcs == Unsent \cup {"child", "end"} \cup Bookkeeping

\* Past the gates.
Cleared == {"ready", "child"} \cup Pacings \cup Bookkeeping

\* The operator's word allows to send this.
Allowed(r) ==
  /\ r.ask.live /\ r.lane \notin r.ask.exclude
  /\ r.lane = "claude" => config.billing = "subscription"
  /\ r.lane = "glm" => ~ config.retired
  /\ r.lane \in Free => ~ config.freeOff /\ config.credential = "ok"
  /\ r.lane \in ThirdParty => ~ r.ask.leaks
  /\ r.lane = "gemini" => r.ask.class \in config.seated

\* What an ended dispatch tells the supervisor.
Honest(r) ==
  /\ r.receipt.admit => r.sent
  /\ r.sent => r.receipt.admit \/ r.lost
  /\ r.exit \in {1, 6} => ~ r.sent
  /\ r.exit = 3 => ~ r.sent \/ r.lane = "local"
  /\ r.exit \in {0, 4} /\ r.sent => r.class = "ok"
  /\ r.exit = 0 /\ ~ r.sent => ~ r.ask.live
  /\ r.exit = 5 /\ r.sent => r.class \notin {"ok", "deferred"}
  /\ r.exit = 5 => r.receipt.class \notin {"ok", "deferred", "none"} \/ r.lost

\* The receipt of a run that was sent, unless its append failed.
Truthful(r) == \/ r.receipt = [class |-> r.class, admit |-> TRUE]
               \/ r.receipt = NoReceipt /\ r.lost

\* Where the receipt is in the bookkeeping: the local lane writes it last.
Written(r) == r.pc = "health" /\ r.lane # "local"

RunOK(r) ==
  /\ DOMAIN r = Fields
  /\ r.pc \in Pcs
  /\ r.pc \in Unsent => ~ r.sent
  /\ r.pc = "gate" => r.lane \notin r.ask.exclude
  /\ r.pc \in Cleared \/ r.sent => Allowed(r)
  /\ r.pc \in Unsent \cup {"child"} \cup Bookkeeping /\ ~ Written(r) => r.receipt = NoReceipt
  /\ Written(r) => Truthful(r)
  /\ r.pc \in {"child"} \cup Bookkeeping => r.sent
  /\ r.pc \in Bookkeeping => r.class \in Classes(r.lane)
  /\ r.pc = "latch" => r.lane = "glm"
  /\ r.pc = "end" => Honest(r)

RunsOK == DOMAIN run = Procs /\ \A p \in Procs : RunOK(run[p])

\* A process that has nothing to do.
LEMMA IdleOK == RunOK(Idle)
BY DEF RunOK, Idle, Fields, Pcs, Unsent, Pacings, Bookkeeping, Cleared, Written

\* A step changes one record; config stays.
LEMMA OneRun ==
  ASSUME RunsOK, NEW p \in Procs, NEW r, Set(p, r), config' = config, RunOK(r)
  PROVE  RunsOK'
<1>1. DOMAIN run' = Procs /\ run'[p] = r /\ \A q \in Procs : q # p => run'[q] = run[q]
  BY DEF Set, RunsOK
<1>2. \A q \in Procs : RunOK(run'[q])
  BY <1>1 DEF RunsOK
<1>3. \A q \in Procs : RunOK(run[q])'
  BY <1>2 DEF RunOK, Allowed, Honest, Written, Truthful
<1> QED
  BY <1>1, <1>3 DEF RunsOK

\* What an action does to a record whose other fields it leaves alone.
LEMMA MoveTo ==
  ASSUME RunsOK, NEW p \in Procs, NEW at \in Pcs, Go(p, at), config' = config,
         RunOK([run[p] EXCEPT !.pc = at])
  PROVE  RunsOK'
BY OneRun DEF Go

-----------------------------------------------------------------------------
(* One lemma per action.                                                   *)

\* A dispatch is asked.
LEMMA RunsAsk == ASSUME RunsOK, NEW p \in Procs, NEW ask, Ask(p, ask) PROVE RunsOK'
<1> DEFINE r == [Idle EXCEPT !.pc = "route", !.ask = ask]
<1>1. RunOK(r)
  BY DEF Idle, NoReceipt, RunOK, Allowed, Honest, Written, Fields, Pcs, Unsent, Pacings, Cleared,
         Bookkeeping
<1>2. Set(p, r) /\ config' = config
  BY DEF Ask
<1> HIDE DEF r
<1> QED
  BY <1>1, <1>2, OneRun

\* Whichever lane the recommendation names, an excluded one does not pass.
LEMMA RunsResolve ==
  ASSUME RunsOK, NEW p \in Procs, run[p].pc = "route", NEW lane, NEW worked,
         Resolve(p, lane, worked)
  PROVE  RunsOK'
<1> DEFINE r == [run[p] EXCEPT !.lane = lane, !.now = clock]
           out == [r EXCEPT !.pc = "end", !.exit = 3,
                            !.stranded = run[p].ask.lane = "auto" /\ worked /\ Reachable(run[p].ask)]
           on == [r EXCEPT !.pc = "gate"]
           class == IF lane = NoLane THEN "deferred" ELSE "lane_excluded"
<1>1. /\ RunOK(run[p]) /\ ~ run[p].sent
      /\ config' = config
      /\ IF lane = NoLane \/ lane \in run[p].ask.exclude
         THEN \E e \in Appended(out, class, FALSE) : Set(p, e)
         ELSE Set(p, on)
  BY DEF RunsOK, RunOK, Unsent, Resolve, shared
<1>2. RunOK([out EXCEPT !.receipt = [class |-> class, admit |-> FALSE]])
  BY <1>1 DEF RunOK, Honest, Written, Fields, Pcs, Unsent, Pacings, Cleared, Bookkeeping
<1>3. RunOK([out EXCEPT !.lost = TRUE])
  BY <1>1 DEF RunOK, Honest, Written, Fields, Pcs, Unsent, Pacings, Cleared, Bookkeeping, NoReceipt
<1>4. ASSUME lane \notin run[p].ask.exclude PROVE RunOK(on)
  BY <1>1, <1>4 DEF RunOK, Written, Fields, Pcs, Unsent, Pacings, Cleared, Bookkeeping
<1> HIDE DEF r, out, on, class
<1>5. CASE lane = NoLane \/ lane \in run[p].ask.exclude
  <2>1. PICK e \in Appended(out, class, FALSE) : Set(p, e)
    BY <1>1, <1>5
  <2>2. RunOK(e)
    BY <1>2, <1>3, <2>1 DEF Appended
  <2> QED
    BY <1>1, <2>1, <2>2, OneRun
<1>6. CASE ~ (lane = NoLane \/ lane \in run[p].ask.exclude)
  BY <1>1, <1>4, <1>6, OneRun
<1> QED
  BY <1>5, <1>6

\* A refusal before anything is sent.
LEMMA RunsRefuse ==
  ASSUME RunsOK, NEW p \in Procs, run[p].pc \in Unsent, config' = config,
         NEW class, NEW exit, Refuse(p, class, exit), exit \in {3, 5, 6},
         exit = 5 => class \notin {"ok", "deferred", "none"}
  PROVE  RunsOK'
<1> DEFINE r == [run[p] EXCEPT !.pc = "end", !.exit = exit]
<1>1. RunOK(run[p]) /\ ~ run[p].sent
  BY DEF RunsOK, RunOK
<1>2. RunOK([r EXCEPT !.receipt = [class |-> class, admit |-> FALSE]])
  BY <1>1 DEF RunOK, Honest, Written, Fields, Pcs, Unsent, Pacings, Cleared, Bookkeeping
<1>3. RunOK([r EXCEPT !.lost = TRUE])
  BY <1>1 DEF RunOK, Honest, Written, Fields, Pcs, Unsent, Pacings, Cleared, Bookkeeping, NoReceipt
<1>4. PICK e \in Appended(r, class, FALSE) : Set(p, e)
  BY DEF Refuse
<1> HIDE DEF r
<1>5. RunOK(e)
  BY <1>2, <1>3, <1>4 DEF Appended
<1> QED
  BY <1>4, <1>5, OneRun

\* An end without a receipt: a configuration error, or a dry run.
LEMMA RunsFinish ==
  ASSUME RunsOK, NEW p \in Procs, run[p].pc \in Unsent, config' = config,
         NEW exit \in {0, 1}, Finish(p, exit), exit = 0 => ~ run[p].ask.live
  PROVE  RunsOK'
<1> DEFINE r == [run[p] EXCEPT !.pc = "end", !.exit = exit]
<1>1. RunOK(run[p]) /\ ~ run[p].sent /\ run[p].receipt = NoReceipt
  BY DEF RunsOK, RunOK, Unsent, Pacings, Written
<1>2. RunOK(r)
  BY <1>1 DEF NoReceipt, RunOK, Honest, Written, Fields, Pcs, Unsent, Pacings, Cleared, Bookkeeping
<1>3. Set(p, r)
  BY DEF Finish
<1> HIDE DEF r
<1> QED
  BY <1>2, <1>3, OneRun

\* What the gates rule is a refusal, or a go that no word of the operator's
\* stands against.
LEMMA Rulings ==
  ASSUME NEW p \in Procs, config \in Configs
  PROVE  /\ Ruling(p) # Yes => Ruling(p).exit \in {1, 3, 6}
         /\ Ruling(p) = Yes /\ run[p].ask.live /\ run[p].lane \notin run[p].ask.exclude
              => Allowed(run[p])
<1> DEFINE l == run[p].lane
           ask == run[p].ask
<1>1. Ruling(p) # Yes => Ruling(p).exit \in {1, 3, 6}
  BY DEF Ruling, Refusal, No, Yes
<1>2. ASSUME Ruling(p) = Yes
      PROVE  /\ l = "claude" => config.billing = "subscription"
             /\ l = "glm" => ~ config.retired
             /\ l \in Free => ~ config.freeOff /\ config.credential = "ok"
             /\ l \in ThirdParty => ~ ask.leaks
             /\ l = "gemini" => ask.class \in config.seated
  <2>1. Refusal(l, ask) = No("none", 0)
    BY <1>2 DEF Ruling, Yes
  <2>2. /\ No("lane_retired", 3) # No("none", 0) /\ No("lane_off", 3) # No("none", 0)
        /\ No("egress_denied", 6) # No("none", 0) /\ No("gated", 3) # No("none", 0)
        /\ No("deferred", 3) # No("none", 0) /\ No("none", 1) # No("none", 0)
    BY DEF No
  <2>3. config.credential \in {"ok", "missing", "corrupt"}
    BY DispatchAssumption
  <2> QED
    BY <2>1, <2>2, <2>3 DEF Refusal, Free, ThirdParty, Yes
<1> QED
  BY <1>1, <1>2 DEF Allowed

\* The gates: what passes them is allowed.
LEMMA RunsGate ==
  ASSUME RunsOK, config \in Configs, NEW p \in Procs, Gate(p)
  PROVE  RunsOK'
<1>1. /\ RunOK(run[p]) /\ run[p].pc = "gate" /\ run[p].pc \in Unsent /\ config' = config
      /\ run[p].lane \notin run[p].ask.exclude
  BY DEF RunsOK, RunOK, Gate, Refused, Deferred, DryRun, LimitReached, Admitted, AtGate, shared, Unsent
<1>2. CASE Refused(p)
  <2>1. CASE Ruling(p).exit = 1
    BY <1>1, <1>2, <2>1, RunsFinish DEF Refused
  <2>2. CASE Ruling(p).exit # 1
    BY <1>1, <1>2, <2>2, Rulings, RunsRefuse DEF Refused
  <2> QED
    BY <2>1, <2>2
<1>3. CASE Deferred(p)
  BY <1>1, <1>3, RunsRefuse DEF Deferred
<1>4. CASE DryRun(p)
  BY <1>1, <1>4, RunsFinish DEF DryRun
<1>5. CASE LimitReached(p)
  BY <1>1, <1>5, RunsRefuse DEF LimitReached
<1>6. CASE Admitted(p)
  <2> DEFINE at == IF run[p].lane = "glm" /\ config.pacing THEN "wait" ELSE "ready"
  <2>1. Allowed(run[p])
    BY <1>1, <1>6, Rulings DEF Admitted, Passed
  <2>2. RunOK([run[p] EXCEPT !.pc = at])
    BY <1>1, <2>1 DEF RunOK, Allowed, Written, Fields, Pcs, Unsent, Pacings, Cleared, Bookkeeping
  <2>3. Set(p, [run[p] EXCEPT !.pc = at])
    BY <1>6 DEF Admitted
  <2> HIDE DEF at
  <2> QED
    BY <1>1, <2>2, <2>3, OneRun
<1> QED
  BY <1>2, <1>3, <1>4, <1>5, <1>6 DEF Gate

\* Pacing sends nothing.
LEMMA RunsPace == ASSUME RunsOK, NEW p \in Procs, Pace(p) PROVE RunsOK'
<1>1. /\ RunOK(run[p]) /\ run[p].pc \in Pacings /\ run[p].pc \in Unsent /\ config' = config
      /\ ~ run[p].sent /\ Allowed(run[p]) /\ run[p].receipt = NoReceipt
  BY DEF RunsOK, RunOK, Pace, TakeLock, SeeLock, TryAgain, FoundStale, Steal, Busy, Started,
         Pacing, shared, Pacings, Unsent, Cleared, Written
<1>2. ASSUME NEW at \in Pacings \cup {"ready"} PROVE RunOK([run[p] EXCEPT !.pc = at])
  BY <1>1 DEF RunOK, Allowed, Written, Fields, Pcs, Unsent, Pacings, Cleared, Bookkeeping
<1>3. CASE Busy(p)
  BY <1>1, <1>3, RunsRefuse DEF Busy
<1>4. CASE TakeLock(p)
  <2> DEFINE r == [run[p] EXCEPT !.pc = "held", !.locked = TRUE]
  <2>1. RunOK(r)
    BY <1>1 DEF RunOK, Allowed, Written, Fields, Pcs, Unsent, Pacings, Cleared, Bookkeeping
  <2>2. Set(p, r)
    BY <1>4 DEF TakeLock
  <2> HIDE DEF r
  <2> QED
    BY <1>1, <2>1, <2>2, OneRun
<1>5. CASE SeeLock(p) \/ TryAgain(p) \/ FoundStale(p) \/ Steal(p) \/ Started(p)
  <2>1. \E at \in Pacings \cup {"ready"} : Go(p, at)
    BY <1>5 DEF SeeLock, TryAgain, FoundStale, Steal, Started, Pacings
  <2> QED
    BY <1>1, <1>2, <2>1, MoveTo DEF Pcs, Unsent
<1> QED
  BY <1>3, <1>4, <1>5 DEF Pace

\* The child: a configuration error sends nothing, a launch does.
LEMMA RunsChild == ASSUME RunsOK, NEW p \in Procs, Child(p) PROVE RunsOK'
<1>1. RunOK(run[p]) /\ config' = config
  BY DEF RunsOK, Child, ConfigError, Launch, Return, shared
<1>2. CASE ConfigError(p)
  BY <1>1, <1>2, RunsFinish DEF ConfigError, Unsent
<1>3. CASE Launch(p)
  <2> DEFINE r == [run[p] EXCEPT !.pc = "child", !.sent = TRUE]
  <2>1. run[p].pc = "ready"
    BY <1>3 DEF Launch
  <2>2. RunOK(r)
    BY <1>1, <2>1 DEF RunOK, Allowed, Written, Fields, Pcs, Unsent, Pacings, Cleared, Bookkeeping
  <2>3. Set(p, r)
    BY <1>3 DEF Launch
  <2> HIDE DEF r
  <2> QED
    BY <1>1, <2>2, <2>3, OneRun
<1>4. CASE Return(p)
  <2>1. run[p].pc = "child"
    BY <1>4 DEF Return
  <2>2. PICK class \in Classes(run[p].lane), costly \in BOOLEAN :
          Set(p, [run[p] EXCEPT !.pc = AfterChild(run[p].lane), !.class = class, !.costly = costly])
    BY <1>4 DEF Return
  <2> DEFINE r == [run[p] EXCEPT !.pc = AfterChild(run[p].lane), !.class = class, !.costly = costly]
  <2>3. /\ AfterChild(run[p].lane) \in {"latch", "health", "ledger"}
        /\ AfterChild(run[p].lane) = "latch" => run[p].lane = "glm"
        /\ AfterChild(run[p].lane) = "health" => run[p].lane = "local"
    BY DEF AfterChild
  <2>4. RunOK(r)
    BY <1>1, <2>1, <2>3 DEF RunOK, Allowed, Written, Fields, Pcs, Unsent, Pacings, Cleared, Bookkeeping
  <2> HIDE DEF r
  <2> QED
    BY <1>1, <2>2, <2>4, OneRun DEF r
<1> QED
  BY <1>2, <1>3, <1>4 DEF Child

\* The exit code of a run that was sent.
LEMMA ExitCodes ==
  ASSUME NEW lane, NEW class \in Classes(lane), NEW costly
  PROVE  /\ ExitCode(lane, class, costly) \in {0, 3, 4, 5}
         /\ ExitCode(lane, class, costly) = 3 => lane = "local"
         /\ ExitCode(lane, class, costly) \in {0, 4} => class = "ok"
         /\ ExitCode(lane, class, costly) = 5 => class \notin {"ok", "deferred", "none"}
<1>1. class = "deferred" => lane = "local"
  BY DEF Classes
<1>2. class # "none"
  BY DEF Classes
<1>3. CASE class = "deferred"
  <2>1. ExitCode(lane, class, costly) = 3
    BY <1>3 DEF ExitCode
  <2> QED
    BY <1>1, <1>3, <2>1
<1>4. CASE class = "ok"
  <2>1. ExitCode(lane, class, costly) \in {0, 4}
    BY <1>4 DEF ExitCode
  <2> QED
    BY <1>4, <2>1
<1>5. CASE class # "deferred" /\ class # "ok"
  <2>1. ExitCode(lane, class, costly) = 5
    BY <1>5 DEF ExitCode
  <2> QED
    BY <1>2, <1>5, <2>1
<1> QED
  BY <1>3, <1>4, <1>5

\* Ending with the receipt written, or lost, tells the truth.
LEMMA EndOK ==
  ASSUME NEW r, DOMAIN r = Fields, r.sent, r.class \in Classes(r.lane), Allowed(r), Truthful(r)
  PROVE  RunOK([r EXCEPT !.pc = "end", !.exit = ExitCode(r.lane, r.class, r.costly)])
<1> DEFINE e == [r EXCEPT !.pc = "end", !.exit = ExitCode(r.lane, r.class, r.costly)]
<1>1. /\ DOMAIN e = Fields /\ e.pc = "end" /\ e.sent = r.sent /\ e.class = r.class
      /\ e.lane = r.lane /\ e.ask = r.ask /\ e.exit = ExitCode(r.lane, r.class, r.costly)
      /\ e.receipt = r.receipt /\ e.lost = r.lost
  BY DEF Fields
<1> HIDE DEF e
<1>2. r.receipt.admit \/ r.lost
  BY DEF Truthful
<1>3. r.class \notin {"ok", "deferred", "none"} => r.receipt.class \notin {"ok", "deferred", "none"} \/ r.lost
  BY DEF Truthful
<1>4. Honest(e)
  BY <1>1, <1>2, <1>3, ExitCodes DEF Honest
<1>5. Allowed(e)
  BY <1>1 DEF Allowed
<1>6. RunOK(e)
  BY <1>1, <1>4, <1>5 DEF RunOK, Written, Pcs, Unsent, Pacings, Bookkeeping
<1> QED
  BY <1>6 DEF e

\* The bookkeeping writes the receipt, then ends with the exit code.
LEMMA RunsAfter == ASSUME RunsOK, NEW p \in Procs, After(p) PROVE RunsOK'
<1>1. RunOK(run[p]) /\ config' = config
  BY DEF RunsOK, After, Latch, Ledger, Receipt, Health, Leave, shared
<1>2. CASE Latch(p)
  <2>1. run[p].pc = "latch" /\ Go(p, "ledger")
    BY <1>2 DEF Latch
  <2>2. RunOK([run[p] EXCEPT !.pc = "ledger"])
    BY <1>1, <2>1 DEF RunOK, Allowed, Written, Fields, Pcs, Unsent, Pacings, Cleared, Bookkeeping
  <2> QED
    BY <1>1, <2>1, <2>2, MoveTo DEF Pcs, Bookkeeping
<1>3. CASE Ledger(p)
  <2>1. run[p].pc = "ledger" /\ Go(p, "receipt")
    BY <1>3 DEF Ledger
  <2>2. RunOK([run[p] EXCEPT !.pc = "receipt"])
    BY <1>1, <2>1 DEF RunOK, Allowed, Written, Fields, Pcs, Unsent, Pacings, Cleared, Bookkeeping
  <2> QED
    BY <1>1, <2>1, <2>2, MoveTo DEF Pcs, Bookkeeping
<1>4. CASE Receipt(p)
  <2>1. run[p].pc = "receipt" /\ run[p].pc \in Bookkeeping /\ run[p].receipt = NoReceipt
    BY <1>1, <1>4 DEF Receipt, Bookkeeping, RunOK, Written
  <2>2. PICK r \in Appended(run[p], run[p].class, TRUE) :
          Set(p, IF run[p].lane = "local" THEN [r EXCEPT !.pc = "end", !.exit = ExitOf(p)]
                 ELSE [r EXCEPT !.pc = "health"])
    BY <1>4 DEF Receipt
  <2>3. /\ DOMAIN r = Fields /\ r.sent = run[p].sent /\ r.class = run[p].class
        /\ r.lane = run[p].lane /\ r.ask = run[p].ask /\ r.costly = run[p].costly
        /\ Truthful(r)
    BY <1>1, <2>1, <2>2 DEF Appended, RunOK, Fields, Truthful
  <2>4. r.sent /\ r.class \in Classes(r.lane) /\ Allowed(r)
    BY <1>1, <2>1, <2>3 DEF RunOK, Allowed, Bookkeeping, Cleared
  <2>5. CASE run[p].lane = "local"
    <3>1. ExitOf(p) = ExitCode(r.lane, r.class, r.costly)
      BY <2>3 DEF ExitOf
    <3> QED
      BY <1>1, <2>2, <2>3, <2>4, <2>5, <3>1, EndOK, OneRun
  <2>6. CASE run[p].lane # "local"
    <3> DEFINE h == [r EXCEPT !.pc = "health"]
    <3>1. /\ DOMAIN h = Fields /\ h.pc = "health" /\ h.sent = r.sent /\ h.class = r.class
          /\ h.lane = r.lane /\ h.ask = r.ask /\ h.receipt = r.receipt /\ h.lost = r.lost
      BY <2>3 DEF Fields
    <3>2. Set(p, h)
      BY <2>2, <2>6
    <3> HIDE DEF h
    <3>3. Truthful(h) /\ Allowed(h)
      BY <2>3, <2>4, <3>1 DEF Truthful, Allowed
    <3>4. RunOK(h)
      BY <2>3, <2>4, <2>6, <3>1, <3>3 DEF RunOK, Written, Pcs, Unsent, Pacings, Cleared, Bookkeeping
    <3> QED
      BY <1>1, <3>2, <3>4, OneRun
  <2> QED
    BY <2>5, <2>6
<1>5. CASE Health(p)
  <2>1. run[p].pc = "health" /\ run[p].pc \in Bookkeeping
    BY <1>5 DEF Health, Bookkeeping
  <2>2. CASE run[p].lane = "local"
    <3>1. Go(p, "receipt")
      BY <1>5, <2>2 DEF Health
    <3>2. RunOK([run[p] EXCEPT !.pc = "receipt"])
      BY <1>1, <2>1, <2>2 DEF RunOK, Allowed, Written, Fields, Pcs, Unsent, Pacings, Cleared, Bookkeeping
    <3> QED
      BY <1>1, <3>1, <3>2, MoveTo DEF Pcs, Bookkeeping
  <2>3. CASE run[p].lane # "local"
    <3>1. /\ DOMAIN run[p] = Fields /\ run[p].sent /\ Truthful(run[p]) /\ Allowed(run[p])
          /\ run[p].class \in Classes(run[p].lane)
      BY <1>1, <2>1, <2>3 DEF RunOK, Written, Bookkeeping, Cleared
    <3>2. Set(p, [run[p] EXCEPT !.pc = "end",
                                !.exit = ExitCode(run[p].lane, run[p].class, run[p].costly)])
      BY <1>5, <2>3 DEF Health, Finish, ExitOf
    <3> QED
      BY <1>1, <3>1, <3>2, EndOK, OneRun
  <2> QED
    BY <2>2, <2>3
<1>6. CASE Leave(p)
  BY <1>1, <1>6, IdleOK, OneRun DEF Leave
<1> QED
  BY <1>2, <1>3, <1>4, <1>5, <1>6 DEF After

-----------------------------------------------------------------------------
SentInv == config \in Configs /\ RunsOK

\* Nothing is sent at the start.
LEMMA SentInvInit == DispatchInit => SentInv
BY IdleOK DEF DispatchInit, SentInv, RunsOK

\* Nobody edits the configuration.
LEMMA ConfigStays == [DispatchNext]_dispatchVars => config' = config
<1> SUFFICES ASSUME DispatchNext PROVE config' = config
  BY DEF dispatchVars
<1>1. ASSUME NEW p \in Procs, Recommend(p) PROVE config' = config
  BY <1>1 DEF Recommend, Named, AutoRoute, AutoBroken, Resolve, shared
<1>2. ASSUME NEW p \in Procs, Gate(p) PROVE config' = config
  BY <1>2 DEF Gate, Refused, Deferred, DryRun, LimitReached, Admitted, AtGate, shared
<1>3. ASSUME NEW p \in Procs, Pace(p) PROVE config' = config
  BY <1>3 DEF Pace, TakeLock, SeeLock, TryAgain, FoundStale, Steal, Busy, Started, Pacing, shared
<1>4. ASSUME NEW p \in Procs, Child(p) PROVE config' = config
  BY <1>4 DEF Child, ConfigError, Launch, Return, shared
<1>5. ASSUME NEW p \in Procs, After(p) PROVE config' = config
  BY <1>5 DEF After, Latch, Ledger, Receipt, Health, Leave, shared
<1>6. ASSUME NEW p \in Procs, Step(p) PROVE config' = config
  BY <1>1, <1>2, <1>3, <1>4, <1>5, <1>6 DEF Step
<1>7. ASSUME NEW p \in Procs, Crash(p) PROVE config' = config
  BY <1>7 DEF Crash
<1>8. ASSUME NEW p \in Procs, NEW ask, Ask(p, ask) PROVE config' = config
  BY <1>8 DEF Ask
<1>9. ClockTick \/ AckGLM => config' = config
  BY DEF ClockTick, AckGLM, shared
<1>10. ASSUME NEW l, NEW q, QuotaMoves(l, q) PROVE config' = config
  BY <1>10 DEF QuotaMoves
<1> QED
  BY <1>6, <1>7, <1>8, <1>9, <1>10 DEF DispatchNext

\* No step of anybody sends what it may not, or lies about it.
LEMMA SentInvStep == SentInv /\ [DispatchNext]_dispatchVars => SentInv'
<1> SUFFICES ASSUME SentInv, [DispatchNext]_dispatchVars PROVE SentInv'
  OBVIOUS
<1>1. config' = config /\ RunsOK /\ config \in Configs
  BY ConfigStays DEF SentInv
<1>2. ASSUME run' = run PROVE RunsOK'
  BY <1>1, <1>2 DEF RunsOK, RunOK, Allowed, Honest, Written, Truthful
<1>3. CASE ClockTick \/ AckGLM \/ UNCHANGED dispatchVars \/ \E l \in config.moving, q \in Quotas : QuotaMoves(l, q)
  <2>1. run' = run
    BY <1>3 DEF ClockTick, AckGLM, QuotaMoves, dispatchVars
  <2> QED
    BY <1>1, <1>2, <2>1 DEF SentInv
<1>4. ASSUME NEW p \in Procs, Crash(p) PROVE RunsOK'
  BY <1>1, <1>4, IdleOK, OneRun DEF Crash
<1>5. ASSUME NEW p \in Procs, NEW ask \in config.requests, Ask(p, ask) PROVE RunsOK'
  BY <1>1, <1>5, RunsAsk
<1>6. ASSUME NEW p \in Procs, Step(p) PROVE RunsOK'
  <2>1. ASSUME Recommend(p) PROVE RunsOK'
    BY <1>1, <2>1, RunsResolve DEF Recommend, Named, AutoRoute, AutoBroken
  <2> QED
    BY <1>1, <1>6, <2>1, RunsGate, RunsPace, RunsChild, RunsAfter DEF Step
<1> QED
  BY <1>1, <1>3, <1>4, <1>5, <1>6 DEF SentInv, DispatchNext

\* The invariant of single dispatches.
LEMMA SentInvAlways == DispatchSpec => []SentInv
BY SentInvInit, SentInvStep, PTL DEF DispatchSpec

\* Nothing is sent against the operator's word, force or not: by any dispatch
\* of any process, whatever is configured, asked, routed, polled or crashes.
THEOREM ForceProofAlways == DispatchSpec => []ForceProof
<1>1. SentInv => ForceProof
  BY DEF SentInv, RunsOK, RunOK, Allowed, ForceProof
<1> QED
  BY <1>1, SentInvAlways, PTL

\* The exit code tells the supervisor what really happened, and so does a receipt
\* that is there; it is missing after a run that was sent only if its append failed.
THEOREM ExitIsHonestAlways == DispatchSpec => []ExitIsHonest
<1>1. SentInv => ExitIsHonest
  BY DEF SentInv, RunsOK, RunOK, Honest, ExitIsHonest
<1> QED
  BY <1>1, SentInvAlways, PTL

-----------------------------------------------------------------------------
(* What a step may change of a record, for the invariants that relate it   *)
(* to the latch and to the pacing lock.                                    *)

\* The fields a step leaves alone, as the two histories below need them.
Keeps(p, r) == Set(p, r) /\ r.lane = run[p].lane /\ r.locked = run[p].locked

\* Moving on changes where the dispatch is.
LEMMA GoSets ==
  ASSUME NEW p, DOMAIN run[p] = Fields, NEW at, Go(p, at)
  PROVE  \E r : Keeps(p, r) /\ r.pc = at /\ r.class = run[p].class
<1> DEFINE r == [run[p] EXCEPT !.pc = at]
<1>1. r.pc = at /\ r.lane = run[p].lane /\ r.locked = run[p].locked /\ r.class = run[p].class
  BY DEF Fields
<1>2. Set(p, r)
  BY DEF Go
<1> HIDE DEF r
<1> QED
  BY <1>1, <1>2 DEF Keeps

\* So does ending without a receipt.
LEMMA FinishSets ==
  ASSUME NEW p, DOMAIN run[p] = Fields, NEW exit, Finish(p, exit)
  PROVE  \E r : Keeps(p, r) /\ r.pc = "end"
<1> DEFINE r == [run[p] EXCEPT !.pc = "end", !.exit = exit]
<1>1. r.pc = "end" /\ r.lane = run[p].lane /\ r.locked = run[p].locked
  BY DEF Fields
<1>2. Set(p, r)
  BY DEF Finish
<1> HIDE DEF r
<1> QED
  BY <1>1, <1>2 DEF Keeps

\* And with one.
LEMMA RefuseSets ==
  ASSUME NEW p, DOMAIN run[p] = Fields, NEW class, NEW exit, Refuse(p, class, exit)
  PROVE  \E r : Keeps(p, r) /\ r.pc = "end"
<1>1. PICK r \in Appended([run[p] EXCEPT !.pc = "end", !.exit = exit], class, FALSE) : Set(p, r)
  BY DEF Refuse
<1> DEFINE e == [run[p] EXCEPT !.pc = "end", !.exit = exit]
<1>3. DOMAIN e = Fields /\ e.pc = "end" /\ e.lane = run[p].lane /\ e.locked = run[p].locked
  BY DEF Fields
<1> HIDE DEF e
<1>2. r.pc = "end" /\ r.lane = run[p].lane /\ r.locked = run[p].locked
  BY <1>1, <1>3 DEF e, Appended, Fields
<1> QED
  BY <1>1, <1>2 DEF Keeps

\* A resolved dispatch is at the gate, or turned away.
LEMMA ResolveSets ==
  ASSUME NEW p, DOMAIN run[p] = Fields, NEW lane, NEW worked, Resolve(p, lane, worked)
  PROVE  \E r : /\ Set(p, r) /\ r.pc \in {"gate", "end"} /\ r.locked = run[p].locked
                /\ r.now = clock
<1> DEFINE s == [run[p] EXCEPT !.lane = lane, !.now = clock]
           out == [s EXCEPT !.pc = "end", !.exit = 3,
                            !.stranded = run[p].ask.lane = "auto" /\ worked /\ Reachable(run[p].ask)]
           on == [s EXCEPT !.pc = "gate"]
           class == IF lane = NoLane THEN "deferred" ELSE "lane_excluded"
<1>1. (\E e \in Appended(out, class, FALSE) : Set(p, e)) \/ Set(p, on)
  BY DEF Resolve
<1>2. on.pc = "gate" /\ on.locked = run[p].locked /\ on.now = clock
  BY DEF Fields
<1>3. DOMAIN out = Fields /\ out.pc = "end" /\ out.locked = run[p].locked /\ out.now = clock
  BY DEF Fields
<1> HIDE DEF on, out, class
<1>4. \A e \in Appended(out, class, FALSE) : e.pc = "end" /\ e.locked = run[p].locked /\ e.now = clock
  BY <1>3 DEF Appended, Fields
<1> QED
  BY <1>1, <1>2, <1>4

\* A receipt is followed by the breaker's update, or by the end.
LEMMA ReceiptSets ==
  ASSUME NEW p, DOMAIN run[p] = Fields, Receipt(p)
  PROVE  \E r : /\ Keeps(p, r) /\ r.pc \in {"end", "health"}
                /\ r.now = run[p].now /\ r.stranded = run[p].stranded
<1>1. PICK s \in Appended(run[p], run[p].class, TRUE) :
        Set(p, IF run[p].lane = "local" THEN [s EXCEPT !.pc = "end", !.exit = ExitOf(p)]
               ELSE [s EXCEPT !.pc = "health"])
  BY DEF Receipt
<1>2. /\ DOMAIN s = Fields /\ s.lane = run[p].lane /\ s.locked = run[p].locked
      /\ s.now = run[p].now /\ s.stranded = run[p].stranded
  BY <1>1 DEF Appended, Fields
<1> DEFINE local == [s EXCEPT !.pc = "end", !.exit = ExitOf(p)]
           other == [s EXCEPT !.pc = "health"]
<1>3. /\ local.pc = "end" /\ local.lane = run[p].lane /\ local.locked = run[p].locked
      /\ local.now = run[p].now /\ local.stranded = run[p].stranded
  BY <1>2 DEF Fields
<1>4. /\ other.pc = "health" /\ other.lane = run[p].lane /\ other.locked = run[p].locked
      /\ other.now = run[p].now /\ other.stranded = run[p].stranded
  BY <1>2 DEF Fields
<1>5. Set(p, local) \/ Set(p, other)
  BY <1>1
<1> HIDE DEF local, other
<1> QED
  BY <1>3, <1>4, <1>5 DEF Keeps

\* Every pacing step, and what it does to the lock this dispatch holds.
LEMMA PaceSets ==
  ASSUME NEW p, DOMAIN run[p] = Fields, Pace(p)
  PROVE  \E r : /\ Set(p, r) /\ r.lane = run[p].lane
                /\ r.pc \in Pacings \cup {"ready", "end"}
                /\ r.locked <=> run[p].locked \/ TakeLock(p)
                /\ r.pc \in {"held", "ready"} => TakeLock(p) \/ run[p].pc = "held"
                /\ r.pc = "steal" => FoundStale(p)
<1>1. CASE TakeLock(p)
  <2> DEFINE r == [run[p] EXCEPT !.pc = "held", !.locked = TRUE]
  <2>1. r.pc = "held" /\ r.lane = run[p].lane /\ r.locked = TRUE
    BY DEF Fields
  <2>2. Set(p, r)
    BY <1>1 DEF TakeLock
  <2> HIDE DEF r
  <2> QED
    BY <1>1, <2>1, <2>2 DEF Pacings
<1>2. ~ TakeLock(p) => Busy(p) \/ SeeLock(p) \/ TryAgain(p) \/ FoundStale(p) \/ Steal(p) \/ Started(p)
  BY DEF Pace
<1>3. CASE ~ TakeLock(p) /\ Busy(p)
  BY <1>3, RefuseSets DEF Busy, Keeps
<1>4. CASE ~ TakeLock(p) /\ (SeeLock(p) \/ TryAgain(p) \/ FoundStale(p) \/ Steal(p) \/ Started(p))
  <2>1. PICK at \in {"found", "wait", "steal", "ready"} :
          /\ Go(p, at)
          /\ at = "steal" => FoundStale(p)
          /\ at = "ready" => run[p].pc = "held"
    BY <1>4 DEF SeeLock, TryAgain, FoundStale, Steal, Started, Pacing
  <2>2. PICK r : Keeps(p, r) /\ r.pc = at
    BY <2>1, GoSets
  <2> QED
    BY <1>4, <2>1, <2>2 DEF Keeps, Pacings
<1> QED
  BY <1>1, <1>2, <1>3, <1>4

\* A gate ends the dispatch, or lets it wait for its turn, or go.
LEMMA GateSets ==
  ASSUME NEW p, DOMAIN run[p] = Fields, Gate(p)
  PROVE  \E r : /\ Keeps(p, r) /\ r.pc \in {"wait", "ready", "end"}
                /\ r.pc # "end" => Admitted(p)
                /\ r.pc = "ready" => ~ (run[p].lane = "glm" /\ config.pacing)
<1>1. CASE Admitted(p)
  <2> DEFINE at == IF run[p].lane = "glm" /\ config.pacing THEN "wait" ELSE "ready"
  <2>1. Go(p, at)
    BY <1>1 DEF Admitted, Go
  <2>2. PICK r : Keeps(p, r) /\ r.pc = at
    BY <2>1, GoSets
  <2> QED
    BY <1>1, <2>2
<1>2. CASE Refused(p) \/ Deferred(p) \/ LimitReached(p) \/ DryRun(p)
  <2>1. PICK r : Keeps(p, r) /\ r.pc = "end"
    BY <1>2, FinishSets, RefuseSets DEF Refused, Deferred, LimitReached, DryRun
  <2> QED
    BY <2>1
<1> QED
  BY <1>1, <1>2 DEF Gate

-----------------------------------------------------------------------------
(* The 1313 latch.  A dispatch whose strike nobody has acknowledged is     *)
(* either about to latch, or the lane is latched, and then its process     *)
(* cannot be back with a child of that lane.                               *)

Struck(r, latched) ==
  \/ r.pc = "latch" /\ r.class = "strike"
  \/ /\ r.pc # "latch" /\ latched
     /\ r.lane = "glm" => r.pc \notin Pacings \cup {"ready", "child"}

StrikeInv == owed \subseteq Procs /\ \A p \in owed : Struck(run[p], latch)

\* A step of one dispatch that forgets no strike.
LEMMA StrikeOne ==
  ASSUME StrikeInv, RunsOK, NEW p \in Procs, NEW r, Set(p, r), latch => latch',
         owed' \subseteq owed \cup {p}, p \in owed' => Struck(r, latch')
  PROVE  StrikeInv'
<1>1. run'[p] = r /\ \A q \in Procs : q # p => run'[q] = run[q]
  BY DEF Set, RunsOK
<1>2. \A q \in owed' : q # p => Struck(run[q], latch')
  BY DEF StrikeInv, Struck
<1> QED
  BY <1>1, <1>2 DEF StrikeInv, Struck

\* Only a strike puts a dispatch into debt; before it, the lane is not the
\* latched one, or the dispatch is not past its gates.
LEMMA StrikeStep ==
  ASSUME StrikeInv, RunsOK, NEW p \in Procs, Step(p)
  PROVE  StrikeInv'
<1>1. RunOK(run[p]) /\ (p \in owed => Struck(run[p], latch)) /\ DOMAIN run[p] = Fields
  BY DEF RunsOK, RunOK, StrikeInv
<1>2. CASE Recommend(p)
  <2>1. PICK lane, worked : run[p].pc = "route" /\ Resolve(p, lane, worked)
    BY <1>2 DEF Recommend, Named, AutoRoute, AutoBroken
  <2>2. PICK r : Set(p, r) /\ r.pc \in {"gate", "end"}
    BY <1>1, <2>1, ResolveSets
  <2>3. latch' = latch /\ owed' = owed
    BY <2>1 DEF Resolve
  <2> QED
    BY <1>1, <2>1, <2>2, <2>3, StrikeOne DEF Struck, Pacings
<1>3. CASE Gate(p)
  <2>1. latch' = latch /\ owed' = owed /\ run[p].pc = "gate"
    BY <1>3 DEF Gate, Refused, Deferred, DryRun, LimitReached, Admitted, AtGate
  <2>2. CASE Admitted(p)
    <3>1. Ruling(p) = Yes
      BY <2>2 DEF Admitted, Passed
    <3>2. run[p].lane = "glm" => ~ latch
      BY <3>1 DEF Ruling, Refusal, No, Yes, Free, ThirdParty
    <3>3. PICK r : Keeps(p, r) /\ r.pc \in {"wait", "ready", "end"}
      BY <1>1, <1>3, GateSets
    <3> QED
      BY <1>1, <2>1, <3>2, <3>3, StrikeOne DEF Keeps, Struck, Pacings
  <2>3. CASE ~ Admitted(p)
    <3>1. PICK r : Keeps(p, r) /\ r.pc = "end"
      BY <1>1, <1>3, <2>3, GateSets
    <3> QED
      BY <1>1, <2>1, <3>1, StrikeOne DEF Keeps, Struck, Pacings
  <2> QED
    BY <2>2, <2>3
<1>4. CASE Pace(p)
  <2>1. latch' = latch /\ owed' = owed /\ run[p].pc \in Pacings
    BY <1>4 DEF Pace, TakeLock, SeeLock, TryAgain, FoundStale, Steal, Busy, Started, Pacing, Pacings
  <2>2. PICK r : Set(p, r) /\ r.pc \in Pacings \cup {"ready", "end"} /\ r.lane = run[p].lane
    BY <1>1, <1>4, PaceSets
  <2> QED
    BY <1>1, <2>1, <2>2, StrikeOne DEF Struck, Pacings
<1>5. CASE ConfigError(p)
  <2>1. PICK r : Keeps(p, r) /\ r.pc = "end"
    BY <1>1, <1>5, FinishSets DEF ConfigError
  <2> QED
    BY <1>1, <1>5, <2>1, StrikeOne DEF Keeps, ConfigError, Struck, Pacings
<1>6. CASE Launch(p)
  <2> DEFINE r == [run[p] EXCEPT !.pc = "child", !.sent = TRUE]
  <2>1. Set(p, r) /\ r.pc = "child" /\ r.lane = run[p].lane
    BY <1>1, <1>6 DEF Launch, Fields
  <2> HIDE DEF r
  <2> QED
    BY <1>1, <1>6, <2>1, StrikeOne DEF Launch, Struck
<1>7. CASE Return(p)
  <2>1. PICK class \in Classes(run[p].lane), costly \in BOOLEAN :
          /\ Set(p, [run[p] EXCEPT !.pc = AfterChild(run[p].lane), !.class = class, !.costly = costly])
          /\ owed' = IF class = "strike" THEN owed \cup {p} ELSE owed
    BY <1>7 DEF Return
  <2> DEFINE r == [run[p] EXCEPT !.pc = AfterChild(run[p].lane), !.class = class, !.costly = costly]
  <2>2. r.pc = AfterChild(run[p].lane) /\ r.class = class /\ r.lane = run[p].lane /\ Set(p, r)
    BY <1>1, <2>1 DEF Fields
  <2> HIDE DEF r
  <2>3. run[p].pc = "child" /\ latch' = latch
    BY <1>7 DEF Return
  <2>4. class = "strike" => run[p].lane = "glm"
    BY DEF Classes
  <2>5. CASE run[p].lane = "glm"
    <3>1. p \notin owed /\ r.pc = "latch"
      BY <1>1, <2>2, <2>3, <2>5 DEF Struck, AfterChild
    <3>2. p \in owed' => class = "strike"
      BY <2>1, <3>1
    <3> QED
      BY <2>1, <2>2, <2>3, <3>1, <3>2, StrikeOne DEF Struck
  <2>6. CASE run[p].lane # "glm"
    <3>1. owed' = owed /\ r.pc \in {"ledger", "health"} /\ r.lane # "glm"
      BY <2>1, <2>2, <2>4, <2>6 DEF AfterChild
    <3> QED
      BY <1>1, <2>2, <2>3, <3>1, StrikeOne DEF Struck
  <2> QED
    BY <2>5, <2>6
<1>8. CASE Latch(p)
  <2>1. PICK r : Keeps(p, r) /\ r.pc = "ledger"
    BY <1>1, <1>8, GoSets DEF Latch
  <2>2. p \in owed' => latch'
    BY <1>1, <1>8 DEF Latch, Struck
  <2>3. owed' \subseteq owed
    BY <1>8 DEF Latch
  <2>4. latch => latch'
    BY <1>8, Zenon DEF Latch
  <2> QED
    BY <2>1, <2>2, <2>3, <2>4, StrikeOne DEF Keeps, Struck, Pacings
<1>9. CASE Ledger(p) \/ Receipt(p) \/ Health(p) \/ Leave(p)
  <2>1. /\ latch' = latch /\ owed' = owed
        /\ run[p].pc # "latch"
    BY <1>9 DEF Ledger, Receipt, Health, Leave
  <2>2. PICK r : Set(p, r) /\ r.pc \in {"receipt", "health", "end", "idle"}
    <3>1. CASE Ledger(p)
      BY <1>1, <3>1, GoSets DEF Ledger, Keeps
    <3>2. CASE Receipt(p)
      BY <1>1, <3>2, ReceiptSets DEF Keeps
    <3>3. CASE Health(p)
      BY <1>1, <3>3, GoSets, FinishSets DEF Health, Keeps
    <3>4. CASE Leave(p)
      BY <3>4 DEF Leave, Idle
    <3> QED
      BY <1>9, <3>1, <3>2, <3>3, <3>4
  <2> QED
    BY <1>1, <2>1, <2>2, StrikeOne DEF Struck, Pacings
<1> QED
  BY <1>2, <1>3, <1>4, <1>5, <1>6, <1>7, <1>8, <1>9 DEF Step, Child, After

\* A strike is forgotten by nobody but the operator.
LEMMA StrikeInvStep ==
  ASSUME StrikeInv, RunsOK, [DispatchNext]_dispatchVars
  PROVE  StrikeInv'
<1>1. CASE AckGLM
  BY <1>1 DEF AckGLM, StrikeInv, Struck
<1>2. ASSUME NEW p \in Procs, Crash(p) PROVE StrikeInv'
  <2>1. p \in owed => Struck(run[p], latch)
    BY DEF StrikeInv
  <2> QED
    BY <1>2, <2>1, StrikeOne DEF Crash, Struck, Idle, Pacings
<1>3. ASSUME NEW p \in Procs, NEW ask, Ask(p, ask) PROVE StrikeInv'
  <2> DEFINE r == [Idle EXCEPT !.pc = "route", !.ask = ask]
  <2>1. Set(p, r) /\ r.pc = "route"
    BY <1>3 DEF Ask, Idle
  <2> HIDE DEF r
  <2>2. p \in owed => Struck(run[p], latch)
    BY DEF StrikeInv
  <2> QED
    BY <1>3, <2>1, <2>2, StrikeOne DEF Ask, Struck, Pacings
<1>4. ASSUME run' = run, latch' = latch, owed' = owed PROVE StrikeInv'
  BY <1>4 DEF StrikeInv, Struck
<1>5. CASE ClockTick \/ UNCHANGED dispatchVars \/ \E l \in config.moving, q \in Quotas : QuotaMoves(l, q)
  <2>1. run' = run /\ latch' = latch /\ owed' = owed
    BY <1>5 DEF ClockTick, QuotaMoves, dispatchVars
  <2> QED
    BY <1>4, <2>1
<1> QED
  BY <1>1, <1>2, <1>3, <1>5, StrikeStep DEF DispatchNext

\* Once a 1313 strike is past the latch, and the latch could be written, the lane
\* stays latched until the operator acknowledges, whatever the other dispatches do
\* and whoever dies.
THEOREM StrikeLatchedAlways == DispatchSpec => []StrikeLatched
<1>1. DispatchInit => StrikeInv
  BY DEF DispatchInit, StrikeInv
<1>2. SentInv /\ StrikeInv /\ [DispatchNext]_dispatchVars => StrikeInv'
  BY StrikeInvStep DEF SentInv
<1>3. StrikeInv => StrikeLatched
  BY DEF StrikeInv, Struck, StrikeLatched
<1> QED
  BY <1>1, <1>2, <1>3, SentInvAlways, PTL DEF DispatchSpec

-----------------------------------------------------------------------------
(* The pacing lock.  Until somebody dies, the lock file is there exactly   *)
(* while a dispatch that took it has not left, it is fresh because that    *)
(* dispatch beats, and so nobody finds it stale.                           *)

Paced(r, q, lock) ==
  /\ r.pc # "steal"
  /\ r.pc = "idle" => ~ r.locked
  /\ r.locked => lock # NoLock /\ lock.by = q
  /\ config.pacing /\ r.lane = "glm" /\ r.pc \in {"held", "ready", "child"} => r.locked

LockOK(lock, at) ==
  lock # NoLock => /\ lock = [by |-> lock.by, at |-> at]
                   /\ lock.by \in Procs /\ run[lock.by].locked

PaceInv ==
  /\ clock \in Nat /\ crashes \in Nat
  /\ crashes = 0 => LockOK(pace, clock) /\ \A p \in Procs : Paced(run[p], p, pace)

\* A step of one dispatch that neither takes nor removes the lock.
LEMMA PaceOne ==
  ASSUME PaceInv, RunsOK, NEW p \in Procs, NEW r, Set(p, r), UNCHANGED <<clock, config, crashes, pace>>,
         r.locked <=> run[p].locked,
         r.pc \notin {"steal", "idle"},
         config.pacing /\ r.lane = "glm" /\ r.pc \in {"held", "ready", "child"} => run[p].locked
  PROVE  PaceInv'
<1>1. run'[p] = r /\ \A q \in Procs : q # p => run'[q] = run[q]
  BY DEF Set, RunsOK
<1> SUFFICES ASSUME crashes = 0 PROVE LockOK(pace, clock)' /\ \A q \in Procs : Paced(run[q], q, pace)'
  BY DEF PaceInv
<1>2. LockOK(pace, clock) /\ \A q \in Procs : Paced(run[q], q, pace)
  BY DEF PaceInv
<1>3. LockOK(pace, clock)'
  BY <1>1, <1>2 DEF LockOK, NoLock
<1>4. \A q \in Procs : Paced(run[q], q, pace)'
  BY <1>1, <1>2 DEF Paced, NoLock
<1> QED
  BY <1>3, <1>4

\* Pacing: the lock is taken only when there is none, and a lock that is
\* beaten is never old enough to be stolen.
LEMMA PaceStep ==
  ASSUME PaceInv, RunsOK, NEW p \in Procs, Pace(p)
  PROVE  PaceInv'
<1>1. DOMAIN run[p] = Fields /\ run[p].pc \in Pacings /\ UNCHANGED <<clock, config, crashes>>
  BY DEF RunsOK, RunOK, Pace, TakeLock, SeeLock, TryAgain, FoundStale, Steal, Busy, Started,
         Pacing, Pacings, shared
<1> SUFFICES ASSUME crashes = 0 PROVE LockOK(pace, clock)' /\ \A q \in Procs : Paced(run[q], q, pace)'
  BY <1>1 DEF PaceInv
<1>2. LockOK(pace, clock) /\ \A q \in Procs : Paced(run[q], q, pace)
  BY DEF PaceInv
<1>3. PICK r : /\ Set(p, r) /\ r.lane = run[p].lane
               /\ r.pc \in Pacings \cup {"ready", "end"}
               /\ r.locked <=> run[p].locked \/ TakeLock(p)
               /\ r.pc \in {"held", "ready"} => TakeLock(p) \/ run[p].pc = "held"
               /\ r.pc = "steal" => FoundStale(p)
  BY <1>1, PaceSets
<1>4. run'[p] = r /\ \A q \in Procs : q # p => run'[q] = run[q]
  BY <1>3 DEF Set, RunsOK
<1>5. ~ FoundStale(p) /\ ~ Steal(p)
  <2>1. ~ Steal(p)
    BY <1>2 DEF Steal, Pacing, Paced
  <2>2. ~ Stale
    <3>1. pace # NoLock => pace.at = clock
      BY <1>2 DEF LockOK
    <3>2. clock \in Nat /\ LockStale \in Nat
      BY DispatchAssumption DEF PaceInv
    <3> QED
      BY <3>1, <3>2 DEF Stale
  <2> QED
    BY <2>1, <2>2 DEF FoundStale
<1>6. CASE TakeLock(p)
  <2>1. pace = NoLock /\ pace' = [by |-> p, at |-> clock] /\ clock' = clock
    BY <1>1, <1>6 DEF TakeLock
  <2>2. pace' # NoLock
    BY <2>1, DispatchAssumption DEF NoLock
  <2>3. LockOK(pace, clock)'
    BY <1>3, <1>4, <1>6, <2>1 DEF LockOK, NoLock
  <2>4. \A q \in Procs : q # p => ~ run[q].locked
    BY <1>2, <2>1 DEF Paced
  <2>5. Paced(run[p], p, pace)'
    BY <1>3, <1>4, <1>5, <1>6, <2>1, <2>2 DEF Paced, NoLock, Pacings
  <2>6. \A q \in Procs : q # p => Paced(run[q], q, pace)'
    BY <1>1, <1>2, <1>4, <2>4 DEF Paced
  <2> QED
    BY <2>3, <2>5, <2>6
<1>7. CASE ~ TakeLock(p)
  <2>1. pace' = pace
    BY <1>5, <1>7 DEF Pace, SeeLock, TryAgain, FoundStale, Busy, Started
  <2> QED
    BY <1>1, <1>3, <1>5, <1>7, <2>1, PaceOne DEF PaceInv, Paced, Pacings
<1> QED
  BY <1>6, <1>7

\* The steps of a dispatch that is not pacing leave the lock alone, but for
\* leaving, which removes the lock of a dispatch that took one.
LEMMA PaceStepOfAny ==
  ASSUME PaceInv, RunsOK, NEW p \in Procs, Step(p)
  PROVE  PaceInv'
<1>1. DOMAIN run[p] = Fields /\ UNCHANGED <<config>>
  BY ConfigStays DEF RunsOK, RunOK, DispatchNext
<1>2. crashes = 0 => Paced(run[p], p, pace)
  BY DEF PaceInv
<1> HIDE DEF Fields
<1>3. CASE Recommend(p)
  <2>1. PICK lane, worked : run[p].pc = "route" /\ Resolve(p, lane, worked)
    BY <1>3 DEF Recommend, Named, AutoRoute, AutoBroken
  <2>2. PICK r : Set(p, r) /\ r.pc \in {"gate", "end"} /\ r.locked = run[p].locked
    BY <1>1, <2>1, ResolveSets
  <2>3. UNCHANGED <<clock, config, crashes, pace>>
    BY <2>1 DEF Resolve, shared
  <2> QED
    BY <2>2, <2>3, PaceOne
<1>4. CASE Gate(p)
  <2>1. PICK r : /\ Keeps(p, r) /\ r.pc \in {"wait", "ready", "end"}
                 /\ r.pc = "ready" => ~ (run[p].lane = "glm" /\ config.pacing)
    BY <1>1, <1>4, GateSets
  <2>2. UNCHANGED <<clock, config, crashes, pace>>
    BY <1>4 DEF Gate, Refused, Deferred, DryRun, LimitReached, Admitted, AtGate, shared
  <2> QED
    BY <2>1, <2>2, PaceOne DEF Keeps
<1>5. CASE Pace(p)
  BY <1>5, PaceStep
<1>6. CASE Child(p)
  <2>1. UNCHANGED <<clock, config, crashes, pace>>
    BY <1>6 DEF Child, ConfigError, Launch, Return, shared
  <2>2. CASE ConfigError(p)
    <3>1. PICK r : Keeps(p, r) /\ r.pc = "end"
      BY <1>1, <2>2, FinishSets DEF ConfigError
    <3> QED
      BY <2>1, <3>1, PaceOne DEF Keeps
  <2>3. CASE Launch(p)
    <3> DEFINE r == [run[p] EXCEPT !.pc = "child", !.sent = TRUE]
    <3>1. Set(p, r) /\ r.pc = "child" /\ r.lane = run[p].lane /\ r.locked = run[p].locked
      BY <1>1, <2>3 DEF Launch, Fields
    <3>2. run[p].pc = "ready"
      BY <2>3 DEF Launch
    <3> HIDE DEF r
    <3>3. crashes = 0 => PaceInv'
      BY <1>2, <2>1, <3>1, <3>2, PaceOne DEF Paced
    <3>4. crashes # 0 => PaceInv'
      BY <2>1 DEF PaceInv
    <3> QED
      BY <3>3, <3>4
  <2>4. CASE Return(p)
    <3>1. PICK class, costly :
            Set(p, [run[p] EXCEPT !.pc = AfterChild(run[p].lane), !.class = class, !.costly = costly])
      BY <2>4 DEF Return
    <3> DEFINE r == [run[p] EXCEPT !.pc = AfterChild(run[p].lane), !.class = class, !.costly = costly]
    <3>2. Set(p, r) /\ r.pc = AfterChild(run[p].lane) /\ r.lane = run[p].lane /\ r.locked = run[p].locked
      BY <1>1, <3>1 DEF Fields
    <3> HIDE DEF r
    <3>3. r.pc \in {"latch", "health", "ledger"}
      BY <3>2 DEF AfterChild
    <3> QED
      BY <2>1, <3>2, <3>3, PaceOne
  <2> QED
    BY <1>6, <2>2, <2>3, <2>4 DEF Child
<1>7. CASE Latch(p) \/ Ledger(p) \/ Receipt(p) \/ Health(p)
  <2>1. UNCHANGED <<clock, config, crashes, pace>>
    BY <1>7 DEF Latch, Ledger, Receipt, Health, shared
  <2>2. PICK r : Keeps(p, r) /\ r.pc \in {"ledger", "receipt", "health", "end"}
    <3>1. CASE Latch(p)
      BY <1>1, <3>1, GoSets DEF Latch
    <3>2. CASE Ledger(p)
      BY <1>1, <3>2, GoSets DEF Ledger
    <3>3. CASE Receipt(p)
      BY <1>1, <3>3, ReceiptSets
    <3>4. CASE Health(p)
      BY <1>1, <3>4, GoSets, FinishSets DEF Health
    <3> QED
      BY <1>7, <3>1, <3>2, <3>3, <3>4
  <2> QED
    BY <2>1, <2>2, PaceOne DEF Keeps
<1>8. CASE Leave(p)
  <2>1. /\ run'[p] = Idle /\ \A q \in Procs : q # p => run'[q] = run[q]
        /\ UNCHANGED <<clock, config, crashes>>
        /\ pace' = IF run[p].locked THEN NoLock ELSE pace
    BY <1>8 DEF Leave, Set, RunsOK, shared
  <2>2. CASE crashes # 0
    BY <2>1, <2>2 DEF PaceInv
  <2>3. CASE crashes = 0
    <3>1. LockOK(pace, clock) /\ \A q \in Procs : Paced(run[q], q, pace)
      BY <2>3 DEF PaceInv
    <3>2. LockOK(pace, clock)'
      BY <2>1, <3>1 DEF LockOK, NoLock
    <3>3. Paced(run[p], p, pace)'
      BY <2>1 DEF Paced, Idle
    <3>4. \A q \in Procs : q # p => Paced(run[q], q, pace)'
      BY <2>1, <3>1 DEF Paced
    <3> QED
      BY <2>1, <2>3, <3>2, <3>3, <3>4 DEF PaceInv
  <2> QED
    BY <2>2, <2>3
<1> QED
  BY <1>3, <1>4, <1>5, <1>6, <1>7, <1>8 DEF Step, After

\* Time passes for the lock as for everybody, because somebody beats; a death
\* ends the guarantee.
LEMMA PaceInvStep ==
  ASSUME PaceInv, RunsOK, [DispatchNext]_dispatchVars
  PROVE  PaceInv'
<1>1. CASE ClockTick
  <2>1. /\ clock' = clock + 1 /\ UNCHANGED <<run, config, crashes>>
        /\ pace' = [pace EXCEPT !.at = Beat(clock + 1)]
    BY <1>1 DEF ClockTick
  <2>2. clock' \in Nat /\ crashes' \in Nat
    BY <2>1 DEF PaceInv
  <2>3. CASE crashes = 0
    <3>1. LockOK(pace, clock) /\ \A q \in Procs : Paced(run[q], q, pace)
      BY <2>3 DEF PaceInv
    <3>2. CASE pace = NoLock
      <4>1. pace' = pace
        BY <2>1, <3>2 DEF Beat, Beats, NoLock
      <4> QED
        BY <2>1, <2>2, <3>1, <3>2, <4>1 DEF PaceInv, LockOK, Paced
    <3>3. CASE pace # NoLock
      <4>1. Beats
        BY <3>1, <3>3 DEF LockOK, Beats
      <4>2. pace' = [by |-> pace.by, at |-> clock + 1]
        BY <2>1, <3>1, <3>3, <4>1 DEF LockOK, Beat
      <4>3. pace' # NoLock
        BY <3>1, <3>3, <4>2, DispatchAssumption DEF LockOK, NoLock
      <4>4. LockOK(pace, clock)'
        BY <2>1, <3>1, <3>3, <4>2 DEF LockOK
      <4>5. \A q \in Procs : Paced(run[q], q, pace)'
        BY <2>1, <3>1, <4>2, <4>3 DEF Paced
      <4> QED
        BY <2>2, <4>4, <4>5 DEF PaceInv
    <3> QED
      BY <3>2, <3>3
  <2> QED
    BY <2>1, <2>2, <2>3 DEF PaceInv
<1>2. ASSUME NEW p \in Procs, Crash(p) PROVE PaceInv'
  BY <1>2 DEF Crash, PaceInv
<1>3. ASSUME NEW p \in Procs, NEW ask, Ask(p, ask) PROVE PaceInv'
  <2> DEFINE r == [Idle EXCEPT !.pc = "route", !.ask = ask]
  <2>1. Set(p, r) /\ r.pc = "route" /\ ~ r.locked
    BY <1>3 DEF Ask, Idle
  <2> HIDE DEF r
  <2>2. UNCHANGED <<clock, config, crashes, pace>> /\ run[p].pc = "idle"
    BY <1>3 DEF Ask
  <2>3. CASE crashes = 0
    BY <2>1, <2>2, <2>3, PaceOne DEF PaceInv, Paced
  <2>4. CASE crashes # 0
    BY <2>2, <2>4 DEF PaceInv
  <2> QED
    BY <2>3, <2>4
<1>4. ASSUME UNCHANGED <<clock, config, crashes, pace, run>> PROVE PaceInv'
  BY <1>4 DEF PaceInv, LockOK, Paced
<1>5. CASE AckGLM \/ UNCHANGED dispatchVars \/ \E l \in config.moving, q \in Quotas : QuotaMoves(l, q)
  <2>1. UNCHANGED <<clock, config, crashes, pace, run>>
    BY <1>5 DEF AckGLM, QuotaMoves, dispatchVars, shared
  <2> QED
    BY <1>4, <2>1
<1> QED
  BY <1>1, <1>2, <1>3, <1>5, PaceStepOfAny DEF DispatchNext

\* With pacing on, one GLM child runs at a time however long it takes, as long
\* as no dispatch died with the lock: for every length of the waits.
THEOREM OneGLMChildAlways == DispatchSpec => []OneGLMChild
<1>1. DispatchInit => PaceInv
  BY DEF DispatchInit, PaceInv, LockOK, Paced, Idle, NoLock
<1>2. SentInv /\ PaceInv /\ [DispatchNext]_dispatchVars => PaceInv'
  BY PaceInvStep DEF SentInv
<1>3. PaceInv => OneGLMChild
  BY DEF PaceInv, Paced, OneGLMChild
<1> QED
  BY <1>1, <1>2, <1>3, SentInvAlways, PTL DEF DispatchSpec

-----------------------------------------------------------------------------
(* The router finds the best lane, and a lane for "auto" when there is one.*)

\* A set of integers that something bounds below has a least one.
LEMMA LeastInteger ==
  ASSUME NEW T \in SUBSET Int, T # {}, NEW b \in Int, \A n \in T : b <= n
  PROVE  \E m \in T : \A n \in T : m <= n
<1> DEFINE U == {n - b : n \in T}
<1>1. U \in SUBSET Nat /\ U # {}
  <2>1. \A n \in T : n - b \in Nat
    OBVIOUS
  <2> QED
    BY <2>1
<1>2. IsWellFoundedOn(OpToRel(<, Nat), Nat)
  BY NatLessThanWellFounded
<1>3. PICK u \in U : \A v \in U : <<v, u>> \notin OpToRel(<, Nat)
  <2> HIDE DEF U
  <2> QED
    BY <1>1, <1>2, WFMin
<1>4. PICK m \in T : u = m - b
  BY <1>3
<1>5. ASSUME NEW n \in T PROVE m <= n
  <2>1. <<n - b, u>> \notin {ss \in Nat \X Nat : ss[1] < ss[2]}
    BY <1>3 DEF OpToRel
  <2>2. n - b \in Nat /\ u \in Nat
    BY <1>1, <1>4
  <2>3. ~ (n - b < u)
    BY <2>1, <2>2
  <2> QED
    BY <1>4, <2>3
<1> QED
  BY <1>5

\* What a score looks like.
IsScore(s, i) == s = <<s[1], s[2], s[3], i>> /\ s[1] \in Int /\ s[2] \in Nat /\ s[3] \in Nat

\* Some member of a set has the least value.
LEMMA LeastOf ==
  ASSUME NEW T, T # {}, NEW v, NEW b \in Int, \A i \in T : v[i] \in Int /\ b <= v[i]
  PROVE  \E i \in T : \A j \in T : v[i] <= v[j]
<1> DEFINE V == {v[i] : i \in T}
<1>1. V \in SUBSET Int /\ V # {} /\ \A n \in V : b <= n
  OBVIOUS
<1>2. PICK m \in V : \A n \in V : m <= n
  <2> HIDE DEF V
  <2> QED
    BY <1>1, LeastInteger
<1> QED
  BY <1>2

\* Every set of scored positions has a first one.
LEMMA FirstExists ==
  ASSUME NEW S \in SUBSET Nat, S # {}, NEW score, \A i \in S : IsScore(score[i], i),
         NEW b \in Int, \A i \in S : b <= score[i][1]
  PROVE  /\ FirstOf(S, score) \in S
         /\ \A j \in S \ {FirstOf(S, score)} : LexLess(score[FirstOf(S, score)], score[j])
<1> DEFINE Least(T, k) == {i \in T : \A j \in T : score[i][k] <= score[j][k]}
<1> DEFINE S1 == Least(S, 1)
           S2 == Least(S1, 2)
           S3 == Least(S2, 3)
           S4 == Least(S3, 4)
<1>2. \A i \in S : /\ score[i][1] \in Int /\ score[i][2] \in Nat /\ score[i][3] \in Nat
                   /\ score[i][4] = i /\ i \in Nat /\ DOMAIN score[i] = 1 .. 4
  BY DEF IsScore
<1>1. S1 \subseteq S /\ S2 \subseteq S1 /\ S3 \subseteq S2
  OBVIOUS
<1>3. S1 # {}
  <2> DEFINE v == [i \in S |-> score[i][1]]
  <2>1. \E i \in S : \A j \in S : v[i] <= v[j]
    <3>1. \A i \in S : v[i] \in Int /\ b <= v[i]
      BY <1>2
    <3> HIDE DEF v
    <3> QED
      BY <3>1, LeastOf
  <2> QED
    BY <2>1
<1>4. S2 # {}
  <2> DEFINE v == [i \in S1 |-> score[i][2]]
  <2>1. \E i \in S1 : \A j \in S1 : v[i] <= v[j]
    <3> HIDE DEF S1, S2, S3
    <3>1. 0 \in Int /\ \A i \in S1 : v[i] \in Int /\ 0 <= v[i]
      BY <1>1, <1>2
    <3> HIDE DEF v
    <3> QED
      BY <1>3, <3>1, LeastOf
  <2> QED
    BY <2>1
<1>5. S3 # {}
  <2> DEFINE v == [i \in S2 |-> score[i][3]]
  <2>1. \E i \in S2 : \A j \in S2 : v[i] <= v[j]
    <3> HIDE DEF S1, S2, S3
    <3>1. 0 \in Int /\ \A i \in S2 : v[i] \in Int /\ 0 <= v[i]
      BY <1>1, <1>2
    <3> HIDE DEF v
    <3> QED
      BY <1>4, <3>1, LeastOf
  <2> QED
    BY <2>1
<1>6. S4 # {}
  <2> DEFINE v == [i \in S3 |-> score[i][4]]
  <2>1. \E i \in S3 : \A j \in S3 : v[i] <= v[j]
    <3> HIDE DEF S1, S2, S3
    <3>1. 0 \in Int /\ \A i \in S3 : v[i] \in Int /\ 0 <= v[i]
      BY <1>1, <1>2
    <3> HIDE DEF v
    <3> QED
      BY <1>5, <3>1, LeastOf
  <2> QED
    BY <2>1
<1>7. PICK f : f \in S4
  BY <1>6
<1>8. f \in S /\ f \in S1 /\ f \in S2 /\ f \in S3
  BY <1>7
<1> DEFINE le(j, k) == score[f][k] <= score[j][k]
           eq(j, k) == score[f][k] = score[j][k]
<1>9. ASSUME NEW j \in S
      PROVE  /\ le(j, 1) /\ (eq(j, 1) => j \in S1)
             /\ j \in S1 => le(j, 2) /\ (eq(j, 2) => j \in S2)
             /\ j \in S2 => le(j, 3) /\ (eq(j, 3) => j \in S3)
             /\ j \in S3 => le(j, 4)
  <2>1. le(j, 1) /\ (eq(j, 1) => j \in S1)
    BY <1>8
  <2>2. j \in S1 => le(j, 2) /\ (eq(j, 2) => j \in S2)
    <3> HIDE DEF S1
    <3> QED
      BY <1>8
  <2>3. j \in S2 => le(j, 3) /\ (eq(j, 3) => j \in S3)
    <3> HIDE DEF S2
    <3> QED
      BY <1>8
  <2>4. j \in S3 => le(j, 4)
    <3> HIDE DEF S3
    <3> QED
      BY <1>7
  <2> HIDE DEF S1, S2, S3, S4, le, eq
  <2> QED
    BY <2>1, <2>2, <2>3, <2>4
<1> HIDE DEF S1, S2, S3, S4
<1>10. ASSUME NEW j \in S \ {f} PROVE LexLess(score[f], score[j])
  <2>1. /\ \A k \in 1 .. 4 : score[f][k] \in Int /\ score[j][k] \in Int
        /\ ~ eq(j, 4)
        /\ DOMAIN score[f] = 1 .. 4
    <3>1. \A i \in S : \A k \in 1 .. 4 : score[i][k] \in Int
      BY <1>2
    <3>2. f \in S /\ j \in S
      BY <1>8
    <3>3. score[f][4] = f /\ score[j][4] = j /\ DOMAIN score[f] = 1 .. 4
      BY <1>2, <3>2
    <3> QED
      BY <3>1, <3>2, <3>3
  <2>2. le(j, 1) /\ (eq(j, 1) => le(j, 2) /\ (eq(j, 2) => le(j, 3) /\ (eq(j, 3) => le(j, 4))))
    BY <1>9
  <2>3. \E k \in 1 .. 4 : score[f][k] < score[j][k] /\ \A m \in 1 .. k - 1 : score[f][m] = score[j][m]
    <3>1. CASE ~ eq(j, 1)
      BY <2>1, <2>2, <3>1
    <3>2. CASE eq(j, 1) /\ ~ eq(j, 2)
      BY <2>1, <2>2, <3>2
    <3>3. CASE eq(j, 1) /\ eq(j, 2) /\ ~ eq(j, 3)
      BY <2>1, <2>2, <3>3
    <3>4. CASE eq(j, 1) /\ eq(j, 2) /\ eq(j, 3)
      BY <2>1, <2>2, <3>4
    <3> QED
      BY <3>1, <3>2, <3>3, <3>4
  <2> QED
    BY <2>1, <2>3 DEF LexLess
<1> QED
  BY <1>8, <1>10 DEF FirstOf

\* Nothing that comes later in the order dominates.
LEMMA FirstIsUndominated ==
  ASSUME NEW i, NEW j, NEW s, NEW t, IsScore(s, i), IsScore(t, j), LexLess(s, t)
  PROVE  ~ Dominates(t, s)
<1>1. PICK k \in 1 .. 4 : s[k] < t[k] /\ \A m \in 1 .. k - 1 : s[m] = t[m]
  BY DEF LexLess, IsScore
<1>2. /\ s[1] \in Int /\ s[2] \in Int /\ t[1] \in Int /\ t[2] \in Int
  BY DEF IsScore
<1>3. CASE k = 1
  BY <1>1, <1>2, <1>3 DEF Dominates
<1>4. CASE k = 2
  BY <1>1, <1>2, <1>4 DEF Dominates
<1>5. CASE k \in {3, 4}
  <2>1. s[1] = t[1] /\ s[2] = t[2]
    BY <1>1, <1>5
  <2> QED
    BY <1>2, <2>1 DEF Dominates
<1> QED
  BY <1>3, <1>4, <1>5

\* The seed table's shape, which an operator's override need not have: no
\* class offers the local lane twice, and every entry names a lane.
OneLocal ==
  \A c \in DOMAIN Table : \A i, j \in DOMAIN Table[c] :
    /\ Table[c][i].lane # NoLane
    /\ Table[c][i].lane = "local" /\ Table[c][j].lane = "local" => i = j

\* What a consult may say of the lanes of a class.
StatesOK(class, st) ==
  \A i \in DOMAIN Candidates(class) :
    LET l == Candidates(class)[i].lane
    IN  st[l].pct \in Int /\ st[l].down \in Int /\ st[l].boost \in {0, 1}

\* The entries of a class.
LEMMA Entries ==
  ASSUME NEW class
  PROVE  /\ Candidates(class) \in Seq([lane : STRING, rank : Nat])
         /\ DOMAIN Candidates(class) \subseteq Nat
         /\ OneLocal => \A i, j \in DOMAIN Candidates(class) :
              /\ Candidates(class)[i].lane # NoLane
              /\ Candidates(class)[i].lane = "local" /\ Candidates(class)[j].lane = "local" => i = j
<1>1. PICK c \in DOMAIN Table : Candidates(class) = Table[c]
  BY TableAssumption DEF Candidates
<1>2. Table[c] \in Seq([lane : STRING, rank : Nat])
  BY TableAssumption
<1>3. DOMAIN Table[c] \subseteq Nat
  BY <1>2
<1> QED
  BY <1>1, <1>2, <1>3 DEF OneLocal

\* Every entry has a score, and none is below the best rank, boosted.
LEMMA Scores ==
  ASSUME NEW class, NEW st, StatesOK(class, st), NEW incident \in BOOLEAN,
         NEW i \in DOMAIN Candidates(class)
  PROVE  IsScore(Score(class, st, incident, i), i) /\ -1 <= Score(class, st, incident, i)[1]
<1> DEFINE e == Candidates(class)[i]
<1>1. e.rank \in Nat
  <2>1. Candidates(class) \in Seq([lane : STRING, rank : Nat])
    BY Entries
  <2>2. e \in [lane : STRING, rank : Nat]
    <3>1. \A R : \A s \in Seq(R) : \A k \in DOMAIN s : s[k] \in R
      OBVIOUS
    <3> HIDE DEF e
    <3>2. Candidates(class)[i] \in [lane : STRING, rank : Nat]
      BY <2>1, <3>1
    <3> QED
      BY <3>2 DEF e
  <2> HIDE DEF e
  <2> QED
    BY <2>2
<1>2. st[e.lane].pct \in Int /\ st[e.lane].down \in Int /\ st[e.lane].boost \in {0, 1}
  BY DEF StatesOK
<1> HIDE DEF e
<1>3. EffRank(e, st, incident) \in Int /\ -1 <= EffRank(e, st, incident)
  <2> DEFINE throttle == IF st[e.lane].state = "throttled" /\ ~ incident THEN 1 ELSE 0
             burn == IF st[e.lane].down >= 2 /\ ~ incident THEN 1 ELSE 0
  <2>1. throttle \in {0, 1} /\ burn \in {0, 1}
    OBVIOUS
  <2>2. EffRank(e, st, incident) = e.rank + throttle + burn - st[e.lane].boost
    BY DEF EffRank
  <2> HIDE DEF throttle, burn
  <2> QED
    BY <1>1, <1>2, <2>1, <2>2
<1>4. NormPct(st[e.lane].pct) \in Nat
  BY <1>2 DEF NormPct
<1>5. Priority(e.lane) \in Nat
  BY DEF Priority
<1>6. Score(class, st, incident, i)
        = <<EffRank(e, st, incident), NormPct(st[e.lane].pct), Priority(e.lane), i>>
  BY DEF Score, e
<1> QED
  BY <1>3, <1>4, <1>5, <1>6 DEF IsScore

\* Whatever the lanes' states, a dispatch to "auto" gets a lane of the class
\* that is open to it when there is one that is not local, and never one that
\* is masked or too small for the context.
LEMMA AutoIsFound ==
  ASSUME NEW class, NEW st, StatesOK(class, st), NEW ctx, NEW incidentOn, OneLocal,
         NEW i \in Pool(class, st, ctx), Candidates(class)[i].lane # "local"
  PROVE  \E a \in Pool(class, st, ctx) :
           /\ Route(class, st, ctx, incidentOn).auto = Candidates(class)[a].lane
           /\ Candidates(class)[a].lane # "local"
<1> DEFINE incident == incidentOn /\ IncidentActive(class, st)
           score == [k \in DOMAIN Candidates(class) |-> Score(class, st, incident, k)]
           lane(k) == Candidates(class)[k].lane
           pool == Pool(class, st, ctx)
           win == FirstOf(pool, score)
           rest == pool \ {win}
           others == {k \in Alternatives(pool, win, score) : lane(k) # "local"}
<1>1. pool \subseteq DOMAIN Candidates(class) /\ pool \in SUBSET Nat
  BY Entries DEF Pool
<1>2. incident \in BOOLEAN
  BY DEF IncidentActive
<1>3. \A k \in pool : IsScore(score[k], k) /\ -1 <= score[k][1]
  <2> HIDE DEF incident, pool
  <2> QED
    BY <1>1, <1>2, Scores
<1>4. Route(class, st, ctx, incidentOn).auto =
        IF lane(win) # "local" THEN lane(win)
        ELSE IF others = {} THEN NoLane ELSE lane(FirstOf(others, score))
  <2>1. pool # {}
    OBVIOUS
  <2> QED
    BY <2>1 DEF Route
<1>5. \A T \in SUBSET pool : T # {} =>
        FirstOf(T, score) \in T /\ \A j \in T \ {FirstOf(T, score)} : LexLess(score[FirstOf(T, score)], score[j])
  <2> HIDE DEF pool, score
  <2>1. PICK b \in Int : b = -1
    OBVIOUS
  <2>2. ASSUME NEW T \in SUBSET pool, T # {}
        PROVE  /\ T \in SUBSET Nat /\ \A k \in T : IsScore(score[k], k)
               /\ \A k \in T : b <= score[k][1]
    BY <1>1, <1>3, <2>1
  <2> QED
    BY <2>2, FirstExists
<1> HIDE DEF score, incident, pool
<1>6. win \in pool
  BY <1>5 DEF pool
<1>7. CASE lane(win) # "local"
  BY <1>4, <1>6, <1>7 DEF pool
<1>8. CASE lane(win) = "local"
  <2>1. \A k \in rest : lane(k) # "local"
    BY <1>1, <1>6, <1>8, Entries
  <2>2. i \in rest /\ rest \in SUBSET pool
    BY <1>8 DEF pool
  <2> DEFINE f == FirstOf(rest, score)
  <2>3. f \in rest /\ \A j \in rest \ {f} : LexLess(score[f], score[j])
    BY <1>5, <2>2
  <2> HIDE DEF f
  <2>4. ASSUME NEW j \in rest PROVE ~ Dominates(score[j], score[f])
    <3>1. CASE j = f
      <4>1. score[f][1] \in Int /\ score[f][2] \in Int
        BY <1>3, <2>3 DEF IsScore
      <4> QED
        BY <3>1, <4>1 DEF Dominates
    <3>2. CASE j # f
      BY <1>3, <2>3, <3>2, FirstIsUndominated
    <3> QED
      BY <3>1, <3>2
  <2>5. f \in others
    BY <2>1, <2>3, <2>4 DEF Alternatives
  <2>6. others \in SUBSET pool
    BY DEF Alternatives
  <2> HIDE DEF others
  <2>7. FirstOf(others, score) \in others
    BY <1>5, <2>5, <2>6
  <2>8. lane(FirstOf(others, score)) # "local"
    BY <2>7 DEF others
  <2> QED
    BY <1>4, <1>8, <2>5, <2>6, <2>7, <2>8 DEF pool
<1> QED
  BY <1>7, <1>8

\* A consult that an open lane answers never leaves "auto" without a lane the
\* dispatch may use.
LEMMA RoutedWhenReachable ==
  ASSUME OneLocal, config \in Configs, NEW ask, Reachable(ask),
         NEW on, on = {Candidates(ask.class)[i].lane : i \in DOMAIN Candidates(ask.class)},
         NEW pct \in [on -> Percents], NEW lean
  PROVE  LET a == Route(ask.class, LaneStates(ask, pct, lean), ask.ctx, config.incident).auto
         IN  a # NoLane /\ a \notin ask.exclude
<1> DEFINE st == LaneStates(ask, pct, lean)
<1>1. \A l \in on : /\ st[l].state = StateOf(l, ask)
                    /\ st[l].pct \in Int /\ st[l].down \in Int /\ st[l].boost \in {0, 1}
  <2> TAKE l \in on
  <2> DEFINE idle == lean[l] = "idle" /\ ask.batch /\ StateOf(l, ask) = "open" /\ l # "local"
             burning == lean[l] = "burning" /\ l # "local"
  <2>1. st[l] = [state |-> StateOf(l, ask),
                 pct   |-> IF l = "local" THEN -1 ELSE pct[l],
                 down  |-> IF burning THEN 2 ELSE 0,
                 boost |-> IF idle THEN 1 ELSE 0]
    BY DEF LaneStates
  <2>2. pct[l] \in Int
    BY DispatchAssumption
  <2> HIDE DEF st, idle, burning
  <2> QED
    BY <2>1, <2>2
<1>2. StatesOK(ask.class, st)
  <2> HIDE DEF st
  <2> QED
    BY <1>1 DEF StatesOK
<1>3. PICK i \in DOMAIN Candidates(ask.class) :
        LET l == Candidates(ask.class)[i].lane
        IN  /\ l # "local" /\ l \notin ask.exclude /\ ~ OverContext(l, ask.ctx)
            /\ PolicyState(l, ask.class) \in {"open", "throttled"} /\ ~ BreakerOpen(l)
  BY DEF Reachable
<1> HIDE DEF st
<1>4. i \in Pool(ask.class, st, ask.ctx)
  <2> DEFINE l == Candidates(ask.class)[i].lane
  <2>1. StateOf(l, ask) \in {"open", "throttled"}
    BY <1>3 DEF StateOf
  <2>2. ~ Masked(st[l].state)
    BY <1>1, <2>1 DEF Masked
  <2> QED
    BY <1>3, <2>2 DEF Pool
<1>5. PICK a \in Pool(ask.class, st, ask.ctx) :
        Route(ask.class, st, ask.ctx, config.incident).auto = Candidates(ask.class)[a].lane
  BY <1>2, <1>3, <1>4, AutoIsFound
<1>6. a \in DOMAIN Candidates(ask.class) /\ ~ Masked(st[Candidates(ask.class)[a].lane].state)
  BY DEF Pool
<1>7. Candidates(ask.class)[a].lane \notin ask.exclude
  BY <1>1, <1>6 DEF StateOf, Masked
<1>8. Candidates(ask.class)[a].lane # NoLane
  BY <1>6, Entries
<1> QED
  BY <1>5, <1>7, <1>8 DEF st

\* What a dispatch resolved to stays what it is until it leaves.
Stays(p, r) ==
  Set(p, r) /\ r.lane = run[p].lane /\ r.now = run[p].now /\ r.stranded = run[p].stranded

LEMMA StepStays ==
  ASSUME RunsOK, NEW p \in Procs, Step(p), ~ Recommend(p), ~ Leave(p)
  PROVE  \E r : Stays(p, r)
<1>1. DOMAIN run[p] = Fields
  BY DEF RunsOK, RunOK
<1>2. ASSUME NEW at, Go(p, at) PROVE \E r : Stays(p, r)
  <2> DEFINE r == [run[p] EXCEPT !.pc = at]
  <2>1. r.lane = run[p].lane /\ r.now = run[p].now /\ r.stranded = run[p].stranded
    BY <1>1 DEF Fields
  <2> HIDE DEF r
  <2> QED
    BY <1>2, <2>1 DEF Go, Stays, r
<1>3. ASSUME NEW exit, Finish(p, exit) PROVE \E r : Stays(p, r)
  <2> DEFINE r == [run[p] EXCEPT !.pc = "end", !.exit = exit]
  <2>1. r.lane = run[p].lane /\ r.now = run[p].now /\ r.stranded = run[p].stranded
    BY <1>1 DEF Fields
  <2> HIDE DEF r
  <2> QED
    BY <1>3, <2>1 DEF Finish, Stays, r
<1>4. ASSUME NEW class, NEW exit, Refuse(p, class, exit) PROVE \E r : Stays(p, r)
  <2> DEFINE e == [run[p] EXCEPT !.pc = "end", !.exit = exit]
  <2>1. /\ DOMAIN e = Fields /\ e.lane = run[p].lane /\ e.now = run[p].now
        /\ e.stranded = run[p].stranded
    BY <1>1 DEF Fields
  <2>2. PICK r \in Appended(e, class, FALSE) : Set(p, r)
    BY <1>4 DEF Refuse
  <2> HIDE DEF e
  <2> QED
    BY <2>1, <2>2 DEF Stays, Appended, Fields
<1>5. CASE Gate(p)
  <2>1. CASE Admitted(p)
    BY <1>2, <2>1 DEF Admitted, Go
  <2>2. CASE Refused(p) \/ Deferred(p) \/ DryRun(p) \/ LimitReached(p)
    BY <1>3, <1>4, <2>2 DEF Refused, Deferred, DryRun, LimitReached
  <2> QED
    BY <1>5, <2>1, <2>2 DEF Gate
<1>6. CASE Pace(p)
  <2>1. CASE TakeLock(p)
    <3> DEFINE r == [run[p] EXCEPT !.pc = "held", !.locked = TRUE]
    <3>1. r.lane = run[p].lane /\ r.now = run[p].now /\ r.stranded = run[p].stranded
      BY <1>1 DEF Fields
    <3>2. Set(p, r)
      BY <2>1 DEF TakeLock
    <3> HIDE DEF r
    <3> QED
      BY <3>1, <3>2 DEF Stays
  <2>2. CASE SeeLock(p) \/ TryAgain(p) \/ FoundStale(p) \/ Steal(p) \/ Busy(p) \/ Started(p)
    BY <1>2, <1>4, <2>2 DEF SeeLock, TryAgain, FoundStale, Steal, Busy, Started
  <2> QED
    BY <1>6, <2>1, <2>2 DEF Pace
<1>7. CASE Child(p)
  <2>1. CASE ConfigError(p)
    BY <1>3, <2>1 DEF ConfigError
  <2>2. CASE Launch(p)
    <3> DEFINE r == [run[p] EXCEPT !.pc = "child", !.sent = TRUE]
    <3>1. r.lane = run[p].lane /\ r.now = run[p].now /\ r.stranded = run[p].stranded
      BY <1>1 DEF Fields
    <3>2. Set(p, r)
      BY <2>2 DEF Launch
    <3> HIDE DEF r
    <3> QED
      BY <3>1, <3>2 DEF Stays
  <2>3. CASE Return(p)
    <3>1. PICK class, costly :
            Set(p, [run[p] EXCEPT !.pc = AfterChild(run[p].lane), !.class = class, !.costly = costly])
      BY <2>3 DEF Return
    <3> DEFINE r == [run[p] EXCEPT !.pc = AfterChild(run[p].lane), !.class = class, !.costly = costly]
    <3>2. r.lane = run[p].lane /\ r.now = run[p].now /\ r.stranded = run[p].stranded
      BY <1>1 DEF Fields
    <3> HIDE DEF r
    <3> QED
      BY <3>1, <3>2 DEF Stays, r
  <2> QED
    BY <1>7, <2>1, <2>2, <2>3 DEF Child
<1>8. CASE Receipt(p)
  BY <1>1, <1>8, ReceiptSets DEF Keeps, Stays
<1>9. CASE Latch(p) \/ Ledger(p) \/ Health(p)
  BY <1>2, <1>3, <1>9 DEF Latch, Ledger, Health
<1> QED
  BY <1>5, <1>6, <1>7, <1>8, <1>9 DEF Step, After

\* A lane named by the caller is never a stranding; one that auto finds is not.
LEMMA NobodyStrandedStep ==
  ASSUME OneLocal, SentInv, AutoFindsALane, [DispatchNext]_dispatchVars
  PROVE  AutoFindsALane'
<1>1. RunsOK /\ config \in Configs
  BY DEF SentInv
<1>2. ASSUME NEW p \in Procs, NEW r, Set(p, r), ~ r.stranded PROVE AutoFindsALane'
  BY <1>1, <1>2 DEF Set, RunsOK, AutoFindsALane
<1>3. ASSUME NEW p \in Procs, NEW lane, NEW worked, Resolve(p, lane, worked),
             run[p].ask.lane = "auto" /\ worked /\ Reachable(run[p].ask)
               => lane # NoLane /\ lane \notin run[p].ask.exclude
      PROVE  AutoFindsALane'
  <2> DEFINE ask == run[p].ask
             s == [run[p] EXCEPT !.lane = lane, !.now = clock]
             bad == ask.lane = "auto" /\ worked /\ Reachable(ask)
             out == [s EXCEPT !.pc = "end", !.exit = 3, !.stranded = bad]
             on == [s EXCEPT !.pc = "gate"]
             class == IF lane = NoLane THEN "deferred" ELSE "lane_excluded"
  <2>1. DOMAIN run[p] = Fields /\ ~ run[p].stranded
    BY <1>1 DEF RunsOK, RunOK, AutoFindsALane
  <2>2. IF lane = NoLane \/ lane \in ask.exclude
        THEN \E e \in Appended(out, class, FALSE) : Set(p, e)
        ELSE Set(p, on)
    BY <1>3 DEF Resolve
  <2>3. DOMAIN out = Fields /\ out.stranded = bad /\ ~ on.stranded
    BY <2>1 DEF Fields
  <2>4. lane = NoLane \/ lane \in ask.exclude => ~ bad
    BY <1>3
  <2> HIDE DEF out, on, bad, ask, class
  <2>5. CASE lane = NoLane \/ lane \in ask.exclude
    <3>1. PICK e \in Appended(out, class, FALSE) : Set(p, e)
      BY <2>2, <2>5
    <3>2. e.stranded = bad
      BY <2>3, <3>1 DEF Appended, Fields
    <3> QED
      BY <1>2, <2>4, <2>5, <3>1, <3>2
  <2>6. CASE ~ (lane = NoLane \/ lane \in ask.exclude)
    BY <1>2, <2>2, <2>3, <2>6
  <2> QED
    BY <2>5, <2>6
<1>4. ASSUME NEW p \in Procs, Recommend(p) PROVE AutoFindsALane'
  <2>1. CASE Named(p)
    BY <1>3, <2>1 DEF Named
  <2>2. CASE AutoBroken(p)
    BY <1>3, <2>2 DEF AutoBroken
  <2>3. CASE AutoRoute(p)
    <3> DEFINE ask == run[p].ask
               on == {Candidates(ask.class)[i].lane : i \in DOMAIN Candidates(ask.class)}
    <3>1. PICK pct \in [on -> Percents], lean \in [on -> config.leans] :
            Resolve(p, Route(ask.class, LaneStates(ask, pct, lean), ask.ctx, config.incident).auto, TRUE)
      BY <2>3 DEF AutoRoute
    <3> DEFINE a == Route(ask.class, LaneStates(ask, pct, lean), ask.ctx, config.incident).auto
    <3>2. Reachable(ask) => a # NoLane /\ a \notin ask.exclude
      BY <1>1, RoutedWhenReachable
    <3> HIDE DEF a
    <3> QED
      BY <1>3, <3>1, <3>2 DEF a
  <2> QED
    BY <1>4, <2>1, <2>2, <2>3 DEF Recommend
<1>5. ASSUME NEW p \in Procs, Step(p) PROVE AutoFindsALane'
  <2>1. CASE ~ Recommend(p) /\ ~ Leave(p)
    <3>1. PICK r : Stays(p, r)
      BY <1>1, <1>5, <2>1, StepStays
    <3> QED
      BY <1>2, <3>1 DEF Stays, AutoFindsALane
  <2>2. CASE Leave(p)
    BY <1>2, <2>2 DEF Leave, Idle
  <2> QED
    BY <1>4, <2>1, <2>2
<1>6. ASSUME NEW p \in Procs, Crash(p) PROVE AutoFindsALane'
  BY <1>2, <1>6 DEF Crash, Idle
<1>7. ASSUME NEW p \in Procs, NEW ask, Ask(p, ask) PROVE AutoFindsALane'
  <2> DEFINE r == [Idle EXCEPT !.pc = "route", !.ask = ask]
  <2>1. Set(p, r) /\ ~ r.stranded
    BY <1>7 DEF Ask, Idle
  <2> HIDE DEF r
  <2> QED
    BY <1>2, <2>1
<1>8. CASE ClockTick \/ AckGLM \/ UNCHANGED dispatchVars \/ \E l \in config.moving, q \in Quotas : QuotaMoves(l, q)
  <2>1. run' = run
    BY <1>8 DEF ClockTick, AckGLM, QuotaMoves, dispatchVars
  <2> QED
    BY <2>1 DEF AutoFindsALane
<1> QED
  BY <1>5, <1>6, <1>7, <1>8 DEF DispatchNext

\* A dispatch to "auto" is turned away only when no lane it may go to would
\* take it: for every table that offers the local lane at most once a class.
\* (A second local entry may dominate every runner-up, and the first one's
\* hand-off then finds nobody.)
THEOREM AutoFindsALaneAlways ==
  ASSUME OneLocal
  PROVE  DispatchSpec => []AutoFindsALane
<1>1. DispatchInit => AutoFindsALane
  BY DEF DispatchInit, AutoFindsALane, Idle
<1>2. SentInv /\ AutoFindsALane /\ [DispatchNext]_dispatchVars => AutoFindsALane'
  BY NobodyStrandedStep
<1> QED
  BY <1>1, <1>2, SentInvAlways, PTL DEF DispatchSpec

-----------------------------------------------------------------------------
(* The breaker.  Its count never exceeds the failures there have been since *)
(* the lane last worked, and an exclusion in force was set when the count  *)
(* had reached the threshold, for at most the longest backoff from an      *)
(* instant that had already come.                                          *)

\* Powers of two are natural numbers: they count the subsets of 1 .. n.
LEMMA PowersOfTwo == \A n \in Nat : 2 ^ n \in Nat
<1> TAKE n \in Nat
<1>1. IsFiniteSet(1 .. n) /\ Cardinality(1 .. n) = n
  BY FS_Interval
<1>2. IsFiniteSet(SUBSET (1 .. n)) /\ Cardinality(SUBSET (1 .. n)) = 2 ^ n
  BY <1>1, FS_SUBSET
<1> QED
  BY <1>2, FS_CardinalityType

\* No backoff is longer than the longest.
LEMMA BackoffBound ==
  ASSUME NEW past \in Nat \ {0}
  PROVE  Backoff(past) \in Int /\ Backoff(past) <= Cap
<1>1. 2 ^ (past - 1) \in Nat
  BY PowersOfTwo
<1>2. PICK power \in Nat : power = 2 ^ (past - 1)
  BY <1>1
<1>3. Base \in Nat /\ Cap \in Nat
  BY BreakerAssumption
<1>4. Backoff(past) = IF Base * power >= Cap THEN Cap ELSE Base * power
  BY <1>2 DEF Backoff
<1>5. Base * power \in Nat
  BY <1>2, <1>3
<1> QED
  BY <1>3, <1>4, <1>5

\* An entry of exclusions.json whose exclusion, if any, n failures earned.
Earned(e, n, at) ==
  /\ e.fails \in Nat /\ n \in Nat /\ e.until \in Int /\ e.last \in Int
  /\ e.fails <= n
  /\ e.until # Never => n >= Threshold /\ e.until <= at + Cap

\* An entry without an exclusion stays earned whatever happens around it.
LEMMA EarnedLater ==
  ASSUME NEW e, NEW n, NEW at \in Int, NEW later \in Int, at <= later, Earned(e, n, at)
  PROVE  Earned(e, n, later)
<1>1. Cap \in Int
  BY BreakerAssumption
<1> QED
  BY <1>1 DEF Earned

\* One more failure of the adapter, reported by a dispatch that started
\* earlier.
LEMMA EarnedByFailure ==
  ASSUME NEW e, NEW n, NEW at \in Nat, NEW now \in Nat, now <= at, Earned(e, n, at)
  PROVE  Earned(RecordFailure(e, now), n + 1, at)
<1> DEFINE fails == 1 + IF e.last # Never /\ now - e.last > DecayAfter THEN 0 ELSE e.fails
           past == fails - Threshold + 1
           until == IF past >= 1 THEN now + Backoff(past) ELSE e.until
<1>1. RecordFailure(e, now) = [fails |-> fails, last |-> now, until |-> until]
  BY DEF RecordFailure
<1>2. Threshold \in Nat /\ Cap \in Int
  BY BreakerAssumption
<1>3. fails \in Nat /\ fails <= n + 1 /\ n \in Nat
  BY DEF Earned
<1> HIDE DEF fails
<1>4. past \in Int
  BY <1>2, <1>3
<1>5. past >= 1 => until = now + Backoff(past) /\ Backoff(past) \in Int /\ Backoff(past) <= Cap
  BY <1>4, BackoffBound
<1>6. past < 1 => until = e.until
  BY <1>4
<1>7. past >= 1 => fails >= Threshold
  BY <1>2, <1>3
<1> HIDE DEF until, past
<1>8. until \in Int /\ (until # Never => n + 1 >= Threshold /\ until <= at + Cap)
  <2>1. CASE past >= 1
    BY <1>2, <1>3, <1>5, <1>7, <2>1
  <2>2. CASE past < 1
    BY <1>2, <1>3, <1>6, <2>2 DEF Earned
  <2> QED
    BY <1>4, <2>1, <2>2
<1> QED
  BY <1>1, <1>3, <1>8 DEF Earned

\* An entry with nothing against the lane is always earned.
LEMMA EarnedHealthy == ASSUME NEW n \in Nat, NEW at PROVE Earned(Healthy, n, at)
BY DEF Earned, Healthy, Never

\* The instant of a dispatch has come, and every lane's entry is earned.
BreakerInv ==
  /\ clock \in Nat
  /\ \A p \in Procs : run[p].now \in Nat /\ run[p].now <= clock
  /\ DOMAIN health = Lanes /\ DOMAIN streak = Lanes
  /\ \A l \in Lanes : Earned(health[l], streak[l], clock)

\* A record that keeps its instant, or takes the present one.
LEMMA BreakerOne ==
  ASSUME BreakerInv, RunsOK, NEW p \in Procs, NEW r, Set(p, r), r.now \in {0, clock, run[p].now},
         UNCHANGED <<clock, health, streak>>
  PROVE  BreakerInv'
<1>1. run'[p] = r /\ \A q \in Procs : q # p => run'[q] = run[q]
  BY DEF Set, RunsOK
<1>2. r.now \in Nat /\ r.now <= clock
  BY DEF BreakerInv
<1>3. \A q \in Procs : run'[q].now \in Nat /\ run'[q].now <= clock'
  BY <1>1, <1>2 DEF BreakerInv
<1>4. \A l \in Lanes : Earned(health[l], streak[l], clock)'
  BY DEF BreakerInv, Earned
<1> QED
  BY <1>3, <1>4 DEF BreakerInv

\* What a dispatch tells the breaker of its lane.
LEMMA BreakerHealth ==
  ASSUME BreakerInv, RunsOK, NEW p \in Procs, Health(p)
  PROVE  BreakerInv'
<1> DEFINE l == run[p].lane
           c == run[p].class
<1>1. PICK r : Stays(p, r)
  BY StepStays DEF Step, After, Recommend, Named, AutoRoute, AutoBroken, Leave, Health
<1>2. UNCHANGED clock
  BY DEF Health, shared
<1>3. CASE UNCHANGED <<health, streak>>
  BY <1>1, <1>2, <1>3, BreakerOne DEF Stays
<1>4. CASE /\ health' = [health EXCEPT ![l] = Noted(@, l, c, run[p].now)]
           /\ streak' = [streak EXCEPT ![l] =
                CASE c = "adapter_error" \/ (c = "api_error" /\ l = "local") -> @ + 1
                  [] c \in {"ok", "deferred"} -> 0
                  [] OTHER -> @]
  <2>1. \A q \in Procs : run'[q].now \in Nat /\ run'[q].now <= clock
    BY <1>1 DEF Stays, Set, RunsOK, BreakerInv
  <2>2. DOMAIN health' = Lanes /\ DOMAIN streak' = Lanes
    BY <1>4 DEF BreakerInv
  <2>3. \A k \in Lanes : k # l => health'[k] = health[k] /\ streak'[k] = streak[k]
    BY <1>4 DEF BreakerInv
  <2>4. ASSUME l \in Lanes PROVE Earned(health'[l], streak'[l], clock)
    <3>1. Earned(health[l], streak[l], clock) /\ streak[l] \in Nat
      BY <2>4 DEF BreakerInv, Earned
    <3>2. CASE AdapterFailed(l, c)
      <4> HIDE DEF l, c
      <4>1. health'[l] = RecordFailure(health[l], run[p].now)
        BY <1>4, <2>4, <3>2 DEF BreakerInv, Noted, AdapterFailed, AdapterHealthy
      <4>2. streak'[l] = streak[l] + 1
        BY <1>4, <2>4, <3>2 DEF BreakerInv, AdapterFailed
      <4> QED
        BY <3>1, <4>1, <4>2, EarnedByFailure DEF BreakerInv
    <3>3. CASE ~ AdapterFailed(l, c) /\ AdapterHealthy(c)
      <4>1. health'[l] = Healthy /\ streak'[l] = 0
        BY <1>4, <2>4, <3>3 DEF BreakerInv, Noted, AdapterFailed, AdapterHealthy
      <4> QED
        BY <4>1, EarnedHealthy
    <3>4. CASE ~ AdapterFailed(l, c) /\ ~ AdapterHealthy(c)
      <4>1. health'[l] = health[l] /\ streak'[l] = streak[l]
        BY <1>4, <2>4, <3>4 DEF BreakerInv, Noted, AdapterFailed, AdapterHealthy
      <4> QED
        BY <3>1, <4>1
    <3> QED
      BY <3>2, <3>3, <3>4
  <2>5. \A k \in Lanes : Earned(health'[k], streak'[k], clock)
    BY <2>3, <2>4 DEF BreakerInv
  <2>6. \A k \in Lanes : Earned(health[k], streak[k], clock)'
    BY <1>2, <2>5 DEF Earned
  <2> QED
    BY <1>2, <2>1, <2>2, <2>6 DEF BreakerInv
<1> QED
  BY <1>3, <1>4 DEF Health

\* No step excludes a lane that has not earned it.
LEMMA BreakerStep ==
  ASSUME BreakerInv, RunsOK, [DispatchNext]_dispatchVars
  PROVE  BreakerInv'
<1>1. CASE ClockTick
  <2>1. clock' = clock + 1 /\ UNCHANGED <<run, health, streak>>
    BY <1>1 DEF ClockTick
  <2>2. \A l \in Lanes : Earned(health[l], streak[l], clock + 1)
    BY EarnedLater DEF BreakerInv
  <2>3. \A l \in Lanes : Earned(health[l], streak[l], clock)'
    BY <2>1, <2>2 DEF Earned
  <2> QED
    BY <2>1, <2>3 DEF BreakerInv
<1>2. ASSUME NEW p \in Procs, Crash(p) PROVE BreakerInv'
  <2>1. Set(p, Idle) /\ Idle.now = 0 /\ UNCHANGED <<clock, health, streak>>
    BY <1>2 DEF Crash, Idle
  <2> QED
    BY <2>1, BreakerOne
<1>3. ASSUME NEW p \in Procs, NEW ask, Ask(p, ask) PROVE BreakerInv'
  <2> DEFINE r == [Idle EXCEPT !.pc = "route", !.ask = ask]
  <2>1. Set(p, r) /\ r.now = 0 /\ UNCHANGED <<clock, health, streak>>
    BY <1>3 DEF Ask, Idle
  <2> HIDE DEF r
  <2> QED
    BY <2>1, BreakerOne
<1>4. ASSUME NEW p \in Procs, Recommend(p) PROVE BreakerInv'
  <2>1. PICK lane, worked : Resolve(p, lane, worked)
    BY <1>4 DEF Recommend, Named, AutoRoute, AutoBroken
  <2>2. DOMAIN run[p] = Fields
    BY DEF RunsOK, RunOK
  <2>3. PICK r : Set(p, r) /\ r.now = clock
    BY <2>1, <2>2, ResolveSets
  <2>4. UNCHANGED <<clock, health, streak>>
    BY <2>1 DEF Resolve, shared
  <2> QED
    BY <2>3, <2>4, BreakerOne
<1>5. ASSUME NEW p \in Procs, Step(p) PROVE BreakerInv'
  <2>1. CASE Leave(p)
    <3>1. Set(p, Idle) /\ Idle.now = 0 /\ UNCHANGED <<clock, health, streak>>
      BY <2>1 DEF Leave, Idle, shared
    <3> QED
      BY <3>1, BreakerOne
  <2>2. CASE ~ Recommend(p) /\ ~ Leave(p) /\ ~ Health(p)
    <3>1. PICK r : Stays(p, r)
      BY <1>5, <2>2, StepStays
    <3>2. UNCHANGED <<clock, health, streak>>
      <4>1. CASE Gate(p)
        BY <4>1 DEF Gate, Refused, Deferred, DryRun, LimitReached, Admitted, AtGate, shared
      <4>2. CASE Pace(p)
        BY <4>2 DEF Pace, TakeLock, SeeLock, TryAgain, FoundStale, Steal, Busy, Started, Pacing, shared
      <4>3. CASE Child(p)
        BY <4>3 DEF Child, ConfigError, Launch, Return, shared
      <4>4. CASE Latch(p) \/ Ledger(p) \/ Receipt(p)
        BY <4>4 DEF Latch, Ledger, Receipt, shared
      <4> QED
        BY <1>5, <2>2, <4>1, <4>2, <4>3, <4>4 DEF Step, After
    <3> QED
      BY <3>1, <3>2, BreakerOne DEF Stays
  <2> QED
    BY <1>4, <2>1, <2>2, BreakerHealth
<1>6. CASE AckGLM \/ UNCHANGED dispatchVars \/ \E l \in config.moving, q \in Quotas : QuotaMoves(l, q)
  <2>1. UNCHANGED <<clock, run, health, streak>>
    BY <1>6 DEF AckGLM, QuotaMoves, dispatchVars, shared
  <2> QED
    BY <2>1 DEF BreakerInv, Earned
<1> QED
  BY <1>1, <1>2, <1>3, <1>5, <1>6 DEF DispatchNext

\* The lanes that have just failed once have earned what they got.
LEMMA BreakerInit == DispatchInit => BreakerInv
<1> SUFFICES ASSUME DispatchInit PROVE BreakerInv
  OBVIOUS
<1>1. \A p \in Procs : run[p].now = 0
  BY DEF DispatchInit, Idle
<1>2. ASSUME NEW l \in Lanes PROVE Earned(health[l], streak[l], clock)
  <2>1. clock = 0 /\ streak[l] = health[l].fails
    BY DEF DispatchInit
  <2>2. CASE health[l] = Healthy
    BY <2>1, <2>2, EarnedHealthy DEF Healthy
  <2>3. CASE health[l] = RecordFailure(Healthy, 0)
    <3>1. RecordFailure(Healthy, 0).fails = 1
      BY DEF RecordFailure, Healthy, Never
    <3>2. Earned(RecordFailure(Healthy, 0), 0 + 1, 0)
      BY EarnedHealthy, EarnedByFailure
    <3> QED
      BY <2>1, <2>3, <3>1, <3>2
  <2> QED
    BY <2>2, <2>3 DEF DispatchInit
<1> QED
  BY <1>1, <1>2 DEF DispatchInit, BreakerInv

\* A lane is excluded only for as many failures of its own adapter as the
\* threshold since it last worked, and never for longer than the longest
\* backoff from now: whatever the base, the cap, the threshold and the decay,
\* and however late a dispatch reports.
THEOREM ExclusionIsEarnedAlways == DispatchSpec => []ExclusionIsEarned
<1>1. BreakerInv => ExclusionIsEarned
  BY DEF BreakerInv, Earned, Excluded, ExclusionIsEarned
<1>2. SentInv /\ BreakerInv /\ [DispatchNext]_dispatchVars => BreakerInv'
  BY BreakerStep DEF SentInv
<1> QED
  BY <1>1, <1>2, BreakerInit, SentInvAlways, PTL DEF DispatchSpec
=============================================================================
