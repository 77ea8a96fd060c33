------------------------------ MODULE StateLock ------------------------------
(***************************************************************************)
(* The lock file of the small state files (internal/orch/lockfile, and the *)
(* ledger's copy of it), and a store it protects: the local lane's         *)
(* sliding-window limiter (internal/orch/slidewin).                        *)
(*                                                                         *)
(* Acquire creates <file>.lock exclusively; a waiter that finds it older   *)
(* than stale removes it and tries again, and gives up after wait.  Stat,  *)
(* remove and create are steps of their own, so a waiter may remove        *)
(* another lock than the one it looked at, and a release removes whatever  *)
(* file is there.  A removal that fails goes unnoticed, at a theft and at a *)
(* release.  A dispatch captures its clock before it asks.                 *)
(***************************************************************************)
EXTENDS Integers, FiniteSets

CONSTANTS Procs,     \* concurrent dispatches
          NoProc,    \* no lock file
          Gone,      \* a process that died before, holding the lock
          Wait,      \* how long Acquire waits (2s)
          StaleAge,  \* how old a lock must be to be stolen (30s)
          Limit,     \* LocalMaxPerMin
          Span,      \* the limiter's minute
          MaxAsks,   \* bound: dispatches
          MaxClock,  \* bound: the clock, and no dispatch starts too late to time out
          MaxTrouble \* bound: deaths, unreadable windows and jams of the lock file, together

ASSUME LockAssumption ==
  /\ NoProc \notin Procs
  /\ Gone \notin Procs \cup {NoProc}
  /\ Wait \in Nat
  /\ StaleAge \in Nat
  /\ Limit \in Nat \ {0}
  /\ Span \in Nat \ {0}
  /\ MaxAsks \in Nat
  /\ MaxClock \in Nat \ {0}
  /\ MaxTrouble \in Nat

VARIABLES
  clock,   \* the time
  lock,    \* the lock file: who created it and when
  stamps,  \* the limiter's file: the instants of the dispatches it knows of
  pc,      \* where each process is
  asks,    \* how many dispatches asked
  asked,   \* the instant each captured
  copy,    \* the stamps it loaded
  jam,     \* whether the lock file can not be removed: not yet, now, no longer
  \* history
  robbed,  \* a lock was removed while the process that created it was working
  slow,    \* a process worked under a lock older than StaleAge
  crashes, \* how many processes died
  forgot,  \* a process could not read the stamps and went on without them
  admitted,\* every stamped dispatch
  lag      \* the longest time between capturing the clock and saving the stamp

lockVars == <<clock, lock, stamps, pc, asks, asked, copy, jam, robbed, slow, crashes,
              forgot, admitted, lag>>

-----------------------------------------------------------------------------
Times == 0 .. MaxClock
None  == [by |-> NoProc, at |-> 0]
Left  == [by |-> Gone, at |-> 0]
NoStamps == {}

\* Holding the lock, as far as the process knows.
Critical == {"held", "loaded", "done"}
Working(p) == pc[p] \in Critical
Pcs == {"idle", "trying", "found", "stealing", "dead"} \cup Critical

\* The window of Allow: stamps newer than the caller's cutoff are kept.
Kept(S, t) == {s \in S : s.at > t - Span}
\* (Slip: the limit is compared with <=.)
FitsOneMore(S, t) == Cardinality(Kept(S, t)) <= Limit
Fits(S, t) == Cardinality(Kept(S, t)) < Limit

\* The stamp of a dispatch; the number tells equal instants of a file apart.
Stamp(p) == [no |-> Cardinality(admitted) + 1, at |-> asked[p]]

\* Another program has the lock file open, so that it can not be removed.
Jammed == jam = "now"
RemoveLock == lock' = IF Jammed THEN lock ELSE None

\* (Bound.)
Trouble == crashes + (IF forgot THEN 1 ELSE 0) + (IF jam # "none" THEN 1 ELSE 0)

Go(p, at) == pc' = [pc EXCEPT ![p] = at]
Forget(p) == copy' = [copy EXCEPT ![p] = NoStamps]

LockInit ==
  /\ clock = 0
  /\ lock \in {None, Left}
  /\ stamps = NoStamps
  /\ pc = [p \in Procs |-> "idle"]
  /\ asks = 0
  /\ asked = [p \in Procs |-> 0]
  /\ copy = [p \in Procs |-> NoStamps]
  /\ jam = "none"
  /\ robbed = FALSE
  /\ slow = FALSE
  /\ forgot = FALSE
  /\ crashes = IF lock = Left THEN 1 ELSE 0
  /\ admitted = NoStamps
  /\ lag = 0

ClockTick ==
  /\ clock < MaxClock
  /\ clock' = clock + 1
  /\ slow' = (slow \/ \E p \in Procs : Working(p) /\ lock.by = p /\ clock + 1 - lock.at > StaleAge)
  /\ UNCHANGED <<jam, forgot, asks, lock, stamps, pc, asked, copy, robbed, crashes,
                 admitted, lag>>

\* A dispatch on the local lane asks the limiter.
Ask(p) ==
  /\ pc[p] = "idle"
  /\ asks < MaxAsks /\ clock + Wait < MaxClock
  /\ asks' = asks + 1
  /\ Go(p, "trying")
  /\ asked' = [asked EXCEPT ![p] = clock]
  /\ UNCHANGED <<jam, forgot, clock, lock, stamps, copy, robbed, slow, crashes, admitted, lag>>

\* (Slip: the file is created or truncated.)
NotExclusive == TRUE
\* O_CREATE|O_EXCL.
LockFree == lock = None
Create(p) ==
  /\ pc[p] = "trying"
  /\ IF LockFree
     THEN Go(p, "held") /\ lock' = [by |-> p, at |-> clock]
     ELSE Go(p, "found") /\ UNCHANGED lock
  /\ UNCHANGED <<jam, forgot, asks, clock, stamps, asked, copy, robbed, slow, crashes,
                 admitted, lag>>

\* (Slip: any lock that is in the way is stolen.)
AnyLock == lock # None
StaleLock == lock # None /\ clock - lock.at > StaleAge

\* (Slip: a waiter waits for the lock as long as it takes.)
NeverTimedOut(p) == FALSE
TimedOut(p) == clock > asked[p] + Wait

\* Stat: steal, give up (the caller fails open), or sleep and try again.
Look(p) ==
  /\ pc[p] = "found"
  /\ Go(p, IF StaleLock THEN "stealing" ELSE IF TimedOut(p) THEN "idle" ELSE "trying")
  /\ UNCHANGED <<jam, forgot, asks, clock, lock, stamps, asked, copy, robbed, slow,
                 crashes, admitted, lag>>

\* The lock that is there now, not the one that was found stale.  Whether the
\* removal succeeded is not looked at, nor is the deadline: the waiter tries again.
Steal(p) ==
  /\ pc[p] = "stealing"
  /\ Go(p, "trying")
  /\ robbed' = (robbed \/ (~Jammed /\ lock.by \in Procs /\ Working(lock.by)))
  /\ RemoveLock
  /\ UNCHANGED <<jam, forgot, clock, stamps, asks, asked, copy, slow, crashes, admitted, lag>>

Load(p) ==
  /\ pc[p] = "held"
  /\ Go(p, "loaded")
  /\ copy' = [copy EXCEPT ![p] = stamps]
  /\ UNCHANGED <<jam, forgot, asks, clock, lock, stamps, asked, robbed, slow, crashes,
                 admitted, lag>>

\* The file is unreadable or corrupt: a warning, and an empty window (bound: once).
LoadFails(p) ==
  /\ pc[p] = "held"
  /\ ~forgot /\ Trouble < MaxTrouble
  /\ Go(p, "loaded")
  /\ Forget(p)
  /\ forgot' = TRUE
  /\ UNCHANGED <<jam, asks, clock, lock, stamps, asked, robbed, slow, crashes, admitted, lag>>

\* Allow and Save: the file is replaced with the window and the new stamp.
Admit(p) ==
  /\ pc[p] = "loaded"
  /\ Fits(copy[p], asked[p])
  /\ Go(p, "done")
  /\ stamps' = Kept(copy[p], asked[p]) \cup {Stamp(p)}
  /\ admitted' = admitted \cup {Stamp(p)}
  /\ lag' = IF clock - asked[p] > lag THEN clock - asked[p] ELSE lag
  /\ Forget(p)
  /\ UNCHANGED <<jam, forgot, asks, clock, lock, asked, robbed, slow, crashes>>

Deny(p) ==
  /\ pc[p] = "loaded"
  /\ ~Fits(copy[p], asked[p])
  /\ Go(p, "done")
  /\ Forget(p)
  /\ UNCHANGED <<jam, forgot, asks, clock, lock, stamps, asked, robbed, slow, crashes,
                 admitted, lag>>

\* The state could not be saved: an alert, and the dispatch proceeds unstamped.
SaveFails(p) ==
  /\ pc[p] = "loaded"
  /\ Fits(copy[p], asked[p])
  /\ Go(p, "done")
  /\ Forget(p)
  /\ UNCHANGED <<jam, forgot, asks, clock, lock, stamps, asked, robbed, slow, crashes,
                 admitted, lag>>

Release(p) ==
  /\ pc[p] = "done"
  /\ Go(p, "idle")
  /\ RemoveLock
  /\ asked' = [asked EXCEPT ![p] = 0]
  /\ UNCHANGED <<jam, forgot, clock, stamps, asks, copy, robbed, slow, crashes, admitted, lag>>

Crash(p) ==
  /\ Trouble < MaxTrouble
  /\ pc[p] \notin {"idle", "dead"}
  /\ Go(p, "dead")
  /\ crashes' = crashes + 1
  /\ UNCHANGED <<jam, forgot, asks, clock, lock, stamps, asked, copy, robbed, slow,
                 admitted, lag>>

\* Another program opens the lock file, and closes it (bound: once).
Jam ==
  /\ Jammed \/ (jam = "none" /\ Trouble < MaxTrouble)
  /\ jam' = IF Jammed THEN "past" ELSE "now"
  /\ UNCHANGED <<clock, lock, stamps, pc, asks, asked, copy, robbed, slow, crashes, forgot,
                 admitted, lag>>

LockStep(p) == \/ Create(p) \/ Look(p) \/ Steal(p) \/ Load(p) \/ LoadFails(p)
           \/ Admit(p) \/ Deny(p) \/ SaveFails(p) \/ Release(p)

LockNext == ClockTick \/ Jam \/ \E p \in Procs : Ask(p) \/ LockStep(p) \/ Crash(p)

LockSpec == LockInit /\ [][LockNext]_lockVars

\* The clock runs, and so does a process that has not died.
LockFairSpec == LockSpec /\ WF_lockVars(ClockTick) /\ \A p \in Procs : WF_lockVars(LockStep(p))

-----------------------------------------------------------------------------
(* Properties.                                                             *)

\* The lock, the window and the processes' copies are well formed.
LockTypeOK ==
  /\ clock \in Times
  /\ lock \in [by: Procs \cup {Gone}, at: Times] \cup {None}
  /\ stamps \subseteq admitted
  /\ pc \in [Procs -> Pcs]
  /\ asks \in Nat
  /\ asked \in [Procs -> Times]
  /\ copy \in [Procs -> SUBSET admitted]
  /\ jam \in {"none", "now", "past"}
  /\ robbed \in BOOLEAN
  /\ slow \in BOOLEAN
  /\ forgot \in BOOLEAN
  /\ crashes \in Nat
  /\ admitted \subseteq [no: 1 .. MaxAsks, at: Times]
  /\ lag \in Nat

\* Until a working process is robbed of its lock, at most one process works on
\* the file: crashes, give-ups and thefts of abandoned locks do not break the
\* mutual exclusion of lockfile.Acquire.
Exclusive == ~robbed => \A p, q \in Procs : Working(p) /\ Working(q) => p = q

\* A working process is robbed only if some process overstayed StaleAge, died
\* holding the lock, or could not remove it: as long as none of this happens,
\* contention alone never lets two processes in, whatever steps of the waiters
\* interleave.
RobbedOnlyAfterTrouble == robbed => slow \/ crashes > 0 \/ jam # "none"

\* The limit holds for the stamped dispatches in every window shorter than Span
\* by the lag of the stamps (two dispatches never both pass at limit - 1,
\* slidewin.Decide), unless a lock was stolen from a working process or the
\* window could not be read.  The limiter fails open: a dispatch that gave up on
\* the lock, or whose stamp could not be saved, runs unstamped and is not counted.
LimitHolds ==
  ~robbed /\ ~forgot => \A t \in Times :
    Cardinality({s \in admitted : s.at <= t /\ s.at > t - (Span - lag)}) <= Limit

\* No call hangs: a dispatch that asks is answered or gives up, or dies, also
\* behind a lock whose owner is dead, unless the lock file can never again be
\* removed: a waiter that found that one stale looks at no deadline and spins.
AsksEnd == []<>~Jammed => \A p \in Procs : pc[p] = "trying" ~> pc[p] \in {"idle", "dead"}
=============================================================================
