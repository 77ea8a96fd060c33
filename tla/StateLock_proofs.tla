--------------------------- MODULE StateLock_proofs ---------------------------
(***************************************************************************)
(* The lock file excludes, for any number of processes, any waiting and    *)
(* stealing times and any number of crashes.                               *)
(***************************************************************************)
EXTENDS StateLock, FiniteSetTheorems, TLAPS

-----------------------------------------------------------------------------
(* What of the types the arguments need.                                   *)

ClockOK == clock \in Nat
OwnerOK == lock.by \in Procs \cup {NoProc, Gone} /\ lock.at \in Nat
PlacesOK == pc \in [Procs -> Pcs]
CrashesOK == crashes \in Nat
TypesOK == ClockOK /\ OwnerOK /\ PlacesOK /\ CrashesOK

\* Who works on the file owns the lock file, unless there was a theft.
OwnerWorks == ~robbed => \A p \in Procs : Working(p) => lock.by = p

\* As long as nobody died or overstayed and the lock file can be removed, there is
\* no abandoned or stale lock, so nobody is about to steal one.
NoTrouble == crashes = 0 /\ ~slow /\ jam = "none"
Attended == NoTrouble => /\ ~robbed
                         /\ lock # None => lock.by \in Procs /\ Working(lock.by)
                         /\ lock # None => clock - lock.at <= StaleAge
                         /\ \A p \in Procs : pc[p] # "stealing"
                         /\ \A p \in Procs : pc[p] # "dead"

LockInv == TypesOK /\ OwnerWorks /\ Attended

\* Who is at one of the steps works, and nobody else does.
LEMMA WorkingSteps ==
  ASSUME NEW p \in Procs
  PROVE  /\ pc[p] \in {"held", "loaded", "done"} => Working(p)
         /\ pc[p] \in {"idle", "trying", "found", "stealing", "dead"} => ~Working(p)
BY DEF Working, Critical

\* The initial state.
LEMMA LockInvInit == LockInit => LockInv
<1> SUFFICES ASSUME LockInit PROVE LockInv
  OBVIOUS
<1> USE LockAssumption
<1>1. TypesOK
  BY DEF LockInit, TypesOK, ClockOK, OwnerOK, PlacesOK, CrashesOK, None, Left, Pcs
<1>2. OwnerWorks
  BY DEF LockInit, OwnerWorks, Working, Critical
<1>3. Attended
  BY DEF LockInit, Attended, NoTrouble, None, Left
<1> QED
  BY <1>1, <1>2, <1>3 DEF LockInv

\* The clock: the lock of a worker grows old only by somebody's overstaying.
LEMMA LockInvClock == LockInv /\ ClockTick => LockInv'
<1> SUFFICES ASSUME LockInv, ClockTick PROVE LockInv'
  OBVIOUS
<1> USE LockAssumption
<1>1. TypesOK'
  BY DEF LockInv, TypesOK, ClockOK, OwnerOK, PlacesOK, CrashesOK, ClockTick
<1>2. OwnerWorks'
  BY DEF LockInv, OwnerWorks, ClockTick, Working
<1>3. Attended'
  <2>1. clock' = clock + 1 /\ UNCHANGED <<lock, pc, robbed, crashes>>
    BY DEF ClockTick
  <2>3. None' = None /\ (NoTrouble' => NoTrouble)
    BY DEF None, NoTrouble, ClockTick
  <2>2. clock + 1 - lock.at = (clock + 1) - lock.at
    BY DEF LockInv, TypesOK, ClockOK, OwnerOK
  <2>4. NoTrouble' => \A p \in Procs : Working(p) /\ lock.by = p => ~((clock + 1) - lock.at > StaleAge)
    BY <2>2 DEF NoTrouble, ClockTick
  <2>5. clock \in Int /\ lock.at \in Int /\ StaleAge \in Int
    BY DEF LockInv, TypesOK, ClockOK, OwnerOK
  <2>6. NoTrouble' /\ lock # None => (clock + 1) - lock.at <= StaleAge
    <3> SUFFICES ASSUME NoTrouble', lock # None PROVE (clock + 1) - lock.at <= StaleAge
      OBVIOUS
    <3>1. lock.by \in Procs /\ Working(lock.by)
      BY <2>3 DEF LockInv, Attended
    <3>2. ~((clock + 1) - lock.at > StaleAge)
      BY <2>4, <3>1
    <3> QED
      BY <2>5, <3>2
  <2> QED
    BY <2>1, <2>3, <2>5, <2>6 DEF LockInv, Attended, Working
<1> QED
  BY <1>1, <1>2, <1>3 DEF LockInv

\* Steps that leave the lock file alone and move a process from one place to
\* another where it works as much as before.
LEMMA LockInvMove ==
  ASSUME LockInv, NEW p \in Procs, NEW at \in Pcs \ {"stealing", "dead"},
         Working(p) <=> at \in Critical, Go(p, at),
         UNCHANGED <<clock, lock, jam, robbed, slow, crashes>>
  PROVE  LockInv'
<1> USE LockAssumption
<1>1. /\ \A q \in Procs : Working(q)' <=> Working(q)
      /\ \A q \in Procs : q # p => pc'[q] = pc[q]
      /\ pc'[p] = at
      /\ pc' \in [Procs -> Pcs]
  BY DEF LockInv, TypesOK, PlacesOK, Go, Working
<1>2. TypesOK'
  BY <1>1 DEF LockInv, TypesOK, ClockOK, OwnerOK, PlacesOK, CrashesOK
<1>3. OwnerWorks'
  BY <1>1 DEF LockInv, OwnerWorks
<1>4. Attended'
  BY <1>1 DEF LockInv, Attended, NoTrouble, None
<1> QED
  BY <1>2, <1>3, <1>4 DEF LockInv

\* Ask, and the steps of a process inside, are such moves.
LEMMA LockInvInside ==
  ASSUME LockInv, NEW p \in Procs, Ask(p) \/ Load(p) \/ LoadFails(p) \/ Admit(p) \/ Deny(p) \/ SaveFails(p)
  PROVE  LockInv'
<1>1. CASE Ask(p)
  BY <1>1, WorkingSteps, LockInvMove DEF Ask, Pcs, Critical
<1>2. CASE Load(p)
  BY <1>2, WorkingSteps, LockInvMove DEF Load, Pcs, Critical
<1>3. CASE Admit(p)
  BY <1>3, WorkingSteps, LockInvMove DEF Admit, Pcs, Critical
<1>4. CASE Deny(p)
  BY <1>4, WorkingSteps, LockInvMove DEF Deny, Pcs, Critical
<1>5. CASE SaveFails(p)
  BY <1>5, WorkingSteps, LockInvMove DEF SaveFails, Pcs, Critical
<1>6. CASE LoadFails(p)
  BY <1>6, WorkingSteps, LockInvMove DEF LoadFails, Pcs, Critical
<1> QED
  BY <1>1, <1>2, <1>3, <1>4, <1>5, <1>6

\* The exclusive create: there was no lock, so nobody worked.
LEMMA LockInvCreate == ASSUME LockInv, NEW p \in Procs, Create(p) PROVE LockInv'
<1> USE LockAssumption
<1>1. CASE LockFree
  <2>1. lock = None /\ lock' = [by |-> p, at |-> clock] /\ Go(p, "held") /\ None.by = NoProc
    BY <1>1 DEF Create, LockFree, None
  <2>2. UNCHANGED <<clock, jam, robbed, slow, crashes>>
    BY DEF Create
  <2>3. /\ pc' \in [Procs -> Pcs] /\ pc'[p] = "held"
        /\ \A q \in Procs : q # p => pc'[q] = pc[q]
    BY <2>1 DEF LockInv, TypesOK, PlacesOK, Go, Pcs, Critical
  <2>4. TypesOK'
    BY <2>1, <2>2, <2>3 DEF LockInv, TypesOK, ClockOK, OwnerOK, PlacesOK, CrashesOK
  <2>5. ~robbed => \A q \in Procs : ~Working(q)
    BY <2>1 DEF LockInv, OwnerWorks
  <2>6. OwnerWorks'
    BY <2>1, <2>2, <2>3, <2>5 DEF OwnerWorks, Working
  <2>7. Attended'
    BY <2>1, <2>2, <2>3 DEF LockInv, TypesOK, ClockOK, Attended, NoTrouble, Working, Critical
  <2> QED
    BY <2>4, <2>6, <2>7 DEF LockInv
<1>2. CASE ~LockFree
  BY <1>2, WorkingSteps, LockInvMove DEF Create, Pcs, Critical
<1> QED
  BY <1>1, <1>2

\* A waiter looks: it goes on to steal only a lock that is stale.
LEMMA LockInvLook == ASSUME LockInv, NEW p \in Procs, Look(p) PROVE LockInv'
<1> USE LockAssumption
<1>1. CASE StaleLock
  <2>1. /\ pc' \in [Procs -> Pcs] /\ pc'[p] = "stealing"
        /\ \A q \in Procs : q # p => pc'[q] = pc[q]
        /\ pc[p] = "found"
        /\ UNCHANGED <<clock, lock, jam, robbed, slow, crashes>>
    BY <1>1 DEF Look, LockInv, TypesOK, PlacesOK, Go, Pcs, Critical
  <2>2. TypesOK'
    BY <2>1 DEF LockInv, TypesOK, ClockOK, OwnerOK, PlacesOK, CrashesOK
  <2>3. \A q \in Procs : Working(q)' <=> Working(q)
    BY <2>1 DEF Working, Critical
  <2>4. OwnerWorks'
    BY <2>1, <2>3 DEF LockInv, OwnerWorks
  <2>5. ~NoTrouble
    BY <1>1 DEF LockInv, TypesOK, ClockOK, OwnerOK, Attended, StaleLock
  <2>6. Attended'
    BY <2>1, <2>5 DEF Attended, NoTrouble
  <2> QED
    BY <2>2, <2>4, <2>6 DEF LockInv
<1>2. CASE ~StaleLock
  <2> DEFINE at == IF TimedOut(p) THEN "idle" ELSE "trying"
  <2>1. Go(p, at) /\ at \in Pcs \ {"stealing", "dead"} /\ at \notin Critical
    BY <1>2 DEF Look, Pcs, Critical
  <2>2. ~Working(p) /\ UNCHANGED <<clock, lock, jam, robbed, slow, crashes>>
    BY WorkingSteps DEF Look
  <2> HIDE DEF at
  <2> QED
    BY <2>1, <2>2, LockInvMove
<1> QED
  BY <1>1, <1>2

\* A theft: either the owner does not work, or the theft is on record, or it failed.
LEMMA LockInvSteal == ASSUME LockInv, NEW p \in Procs, Steal(p) PROVE LockInv'
<1> USE LockAssumption
<1>1. /\ pc' \in [Procs -> Pcs] /\ pc'[p] = "trying"
      /\ \A q \in Procs : q # p => pc'[q] = pc[q]
      /\ pc[p] = "stealing"
      /\ lock' = (IF Jammed THEN lock ELSE None) /\ UNCHANGED <<clock, jam, slow, crashes>>
      /\ robbed' = (robbed \/ (~Jammed /\ lock.by \in Procs /\ Working(lock.by)))
  BY DEF Steal, RemoveLock, LockInv, TypesOK, PlacesOK, Go, Pcs, Critical
<1>2. TypesOK'
  BY <1>1 DEF LockInv, TypesOK, ClockOK, OwnerOK, PlacesOK, CrashesOK, None
<1>3. \A q \in Procs : Working(q)' <=> Working(q)
  BY <1>1 DEF Working, Critical
<1>4. OwnerWorks'
  <2> SUFFICES ASSUME ~robbed', NEW q \in Procs, Working(q) PROVE lock'.by = q
    BY <1>3 DEF OwnerWorks
  <2>1. ~robbed
    BY <1>1, Zenon
  <2>2. lock.by = q
    BY <2>1 DEF LockInv, OwnerWorks
  <2>3. Jammed
    BY <1>1, <2>2, Zenon
  <2> QED
    BY <1>1, <2>2, <2>3
<1>5. ~NoTrouble
  BY <1>1 DEF LockInv, Attended
<1>6. Attended'
  BY <1>1, <1>5 DEF Attended, NoTrouble
<1> QED
  BY <1>2, <1>4, <1>6 DEF LockInv

\* The owner leaves; without thefts the lock it removes is its own.
LEMMA LockInvRelease == ASSUME LockInv, NEW p \in Procs, Release(p) PROVE LockInv'
<1> USE LockAssumption
<1>1. /\ pc' \in [Procs -> Pcs] /\ pc'[p] = "idle"
      /\ \A q \in Procs : q # p => pc'[q] = pc[q]
      /\ Working(p) /\ ~Working(p)'
      /\ lock' = (IF Jammed THEN lock ELSE None) /\ UNCHANGED <<clock, jam, robbed, slow, crashes>>
  BY DEF Release, RemoveLock, LockInv, TypesOK, PlacesOK, Go, Pcs, Critical, Working
<1>2. TypesOK'
  BY <1>1 DEF LockInv, TypesOK, ClockOK, OwnerOK, PlacesOK, CrashesOK, None
<1>3. OwnerWorks'
  <2> SUFFICES ASSUME ~robbed, NEW q \in Procs, Working(q)' PROVE FALSE
    BY <1>1 DEF OwnerWorks
  <2>1. q # p /\ Working(q)
    BY <1>1 DEF Working
  <2> QED
    BY <1>1, <2>1 DEF LockInv, OwnerWorks
<1>4. Attended'
  <2> SUFFICES ASSUME NoTrouble' PROVE Attended'
    BY DEF Attended
  <2>1. NoTrouble /\ lock' = None /\ None' = None
    BY <1>1 DEF NoTrouble, Jammed, None
  <2> QED
    BY <1>1, <2>1 DEF LockInv, Attended
<1> QED
  BY <1>2, <1>3, <1>4 DEF LockInv

\* A death, which is trouble.
LEMMA LockInvCrash == ASSUME LockInv, NEW p \in Procs, Crash(p) PROVE LockInv'
<1> USE LockAssumption
<1>1. /\ pc' \in [Procs -> Pcs] /\ pc'[p] = "dead"
      /\ \A q \in Procs : q # p => pc'[q] = pc[q]
      /\ crashes' = crashes + 1 /\ UNCHANGED <<clock, lock, jam, robbed, slow>>
  BY DEF Crash, LockInv, TypesOK, PlacesOK, Go, Pcs, Critical
<1>2. TypesOK' /\ crashes' # 0
  BY <1>1 DEF LockInv, TypesOK, ClockOK, OwnerOK, PlacesOK, CrashesOK
<1>3. OwnerWorks'
  BY <1>1 DEF LockInv, OwnerWorks, Working, Critical
<1>4. Attended'
  BY <1>2 DEF Attended, NoTrouble
<1> QED
  BY <1>2, <1>3, <1>4 DEF LockInv

\* Another program opens or closes the lock file, which is trouble from then on.
LEMMA LockInvJam == LockInv /\ Jam => LockInv'
<1> SUFFICES ASSUME LockInv, Jam PROVE LockInv'
  OBVIOUS
<1>1. jam' # "none" /\ UNCHANGED <<clock, lock, pc, robbed, crashes>>
  BY DEF Jam
<1> QED
  BY <1>1 DEF LockInv, TypesOK, ClockOK, OwnerOK, PlacesOK, CrashesOK, OwnerWorks, Working,
              Attended, NoTrouble

\* Every step keeps the invariant.
LEMMA LockInvStep == LockInv /\ [LockNext]_lockVars => LockInv'
<1> SUFFICES ASSUME LockInv, [LockNext]_lockVars PROVE LockInv'
  OBVIOUS
<1>1. CASE ClockTick
  BY <1>1, LockInvClock
<1>2. ASSUME NEW p \in Procs, Ask(p) \/ LockStep(p) \/ Crash(p) PROVE LockInv'
  BY <1>2, LockInvInside, LockInvCreate, LockInvLook, LockInvSteal, LockInvRelease,
     LockInvCrash DEF LockStep
<1>3. CASE UNCHANGED lockVars
  BY <1>3 DEF lockVars, LockInv, TypesOK, ClockOK, OwnerOK, PlacesOK, CrashesOK, OwnerWorks,
              Attended, NoTrouble, Working, None
<1>4. CASE Jam
  BY <1>4, LockInvJam
<1> QED
  BY <1>1, <1>2, <1>3, <1>4 DEF LockNext

\* The invariant holds always.
LEMMA LockInvAlways == LockSpec => []LockInv
BY LockInvInit, LockInvStep, PTL DEF LockSpec

-----------------------------------------------------------------------------
\* Mutual exclusion of lockfile.Acquire: as long as no working process was
\* robbed, two are never inside at once, whoever crashes, gives up or steals.
THEOREM ExclusiveAlways == LockSpec => []Exclusive
<1>1. LockInv => Exclusive
  BY DEF LockInv, OwnerWorks, Exclusive
<1> QED
  BY <1>1, LockInvAlways, PTL

\* Contention alone robs nobody: a theft from a working process needs one that
\* died with the lock, kept it longer than the stale age or could not remove it.
THEOREM RobbedOnlyAfterTroubleAlways == LockSpec => []RobbedOnlyAfterTrouble
<1>1. LockInv => RobbedOnlyAfterTrouble
  BY DEF LockInv, TypesOK, CrashesOK, Attended, NoTrouble, RobbedOnlyAfterTrouble
<1> QED
  BY <1>1, LockInvAlways, PTL

-----------------------------------------------------------------------------
(* The limiter under the lock.                                             *)

\* The stamps have their numbers, the instants are past, and no file holds a stamp nobody got.
StampsOK == /\ IsFiniteSet(admitted)
            /\ \A s \in admitted : s.no \in 1 .. Cardinality(admitted) /\ s.at \in Nat
InstantsOK == /\ \A p \in Procs : asked[p] \in Nat /\ asked[p] <= clock
              /\ lag \in Nat
              /\ DOMAIN asked = Procs /\ DOMAIN copy = Procs
FileOK == stamps \subseteq admitted /\ \A p \in Procs : copy[p] \subseteq admitted

\* No lock was stolen from a working process, and the window was always read.
Sound == ~robbed /\ ~forgot

\* Then who is between its load and its save knows the file as it is.
CopyIsCurrent == Sound => \A p \in Procs : pc[p] = "loaded" => copy[p] = stamps

\* Then the file lacks only stamps that are older than the limiter's span.
LostAreOld == Sound => \A s \in admitted \ stamps : s.at <= clock - Span

\* The dispatches admitted in the window that ends at t, shortened by the lag.
Window(t) == {s \in admitted : s.at <= t /\ s.at > t - (Span - lag)}
Limited == Sound => \A t \in Int : Cardinality(Window(t)) <= Limit

WindowInv == StampsOK /\ InstantsOK /\ FileOK /\ CopyIsCurrent /\ LostAreOld /\ Limited

LEMMA WindowInvInit == LockInit => WindowInv
<1> SUFFICES ASSUME LockInit PROVE WindowInv
  OBVIOUS
<1>1. StampsOK /\ InstantsOK /\ FileOK /\ CopyIsCurrent /\ LostAreOld
  BY FS_EmptySet DEF LockInit, NoStamps, StampsOK, InstantsOK, FileOK, CopyIsCurrent, LostAreOld
<1>2. \A t \in Int : Window(t) = {}
  BY DEF LockInit, NoStamps, Window
<1>3. Limited
  BY <1>2, FS_EmptySet, LockAssumption DEF Limited
<1> QED
  BY <1>1, <1>3 DEF WindowInv

\* Steps that stamp nothing, and load nothing that is not in the file.
LEMMA WindowInvQuiet ==
  ASSUME TypesOK, WindowInv, UNCHANGED <<stamps, admitted, lag>>, Sound' => Sound,
         clock' \in Nat, clock' >= clock,
         \A p \in Procs : asked'[p] \in Nat /\ asked'[p] <= clock',
         DOMAIN asked' = Procs, DOMAIN copy' = Procs,
         \A p \in Procs : copy'[p] \in {{}, stamps, copy[p]},
         \A p \in Procs : pc'[p] = "loaded" => copy'[p] = stamps \/ (pc[p] = "loaded" /\ copy'[p] = copy[p])
  PROVE  WindowInv'
<1> USE LockAssumption
<1>1. StampsOK' /\ InstantsOK' /\ FileOK'
  BY DEF WindowInv, StampsOK, InstantsOK, FileOK
<1>2. CopyIsCurrent'
  BY DEF WindowInv, CopyIsCurrent
<1>3. LostAreOld'
  <2> SUFFICES ASSUME Sound', NEW s \in admitted \ stamps PROVE s.at <= clock' - Span
    BY DEF LostAreOld
  <2>1. s.at <= clock - Span /\ s.at \in Nat
    BY DEF WindowInv, LostAreOld, StampsOK
  <2> QED
    BY <2>1 DEF TypesOK, ClockOK
<1>4. \A t : Window(t)' = Window(t)
  BY DEF Window
<1>5. Limited'
  BY <1>4 DEF WindowInv, Limited
<1> QED
  BY <1>1, <1>2, <1>3, <1>5 DEF WindowInv

\* An admission: the window the dispatch falls in holds fewer than the limit
\* already, since what its copy of the file lacks is too old for that window.
LEMMA WindowInvAdmit ==
  ASSUME LockInv, WindowInv, NEW p \in Procs, Admit(p)
  PROVE  WindowInv'
<1> USE LockAssumption
<1> DEFINE n == Cardinality(admitted)
           new == Stamp(p)
           a == asked[p]
<1>1. /\ pc[p] = "loaded" /\ Fits(copy[p], a) /\ Go(p, "done")
      /\ stamps' = Kept(copy[p], a) \cup {new}
      /\ admitted' = admitted \cup {new}
      /\ lag' = (IF clock - a > lag THEN clock - a ELSE lag)
      /\ Forget(p)
      /\ UNCHANGED <<asks, clock, lock, asked, robbed, forgot, slow, crashes>>
  BY DEF Admit
<1>2. n \in Nat /\ IsFiniteSet(admitted) /\ a \in Nat /\ clock \in Nat /\ a <= clock /\ lag \in Nat
  BY FS_CardinalityType DEF WindowInv, StampsOK, InstantsOK, LockInv, TypesOK, ClockOK
<1>3. new.no = n + 1 /\ new.at = a
  BY DEF Stamp
<1>4. new \notin admitted
  BY <1>2, <1>3 DEF WindowInv, StampsOK
<1>5. IsFiniteSet(admitted') /\ Cardinality(admitted') = n + 1
  BY <1>1, <1>2, <1>4, FS_AddElement
<1>6. lag' \in Nat /\ lag' >= lag /\ lag' >= clock - a
  BY <1>1, <1>2
<1> HIDE DEF new, n, a
<1>7. StampsOK'
  <2> SUFFICES ASSUME NEW s \in admitted' PROVE s.no \in 1 .. (n + 1) /\ s.at \in Nat
    BY <1>5 DEF StampsOK
  <2>1. CASE s \in admitted
    BY <1>2, <2>1 DEF WindowInv, StampsOK, n
  <2>2. CASE s = new
    BY <1>2, <1>3, <2>2
  <2> QED
    BY <1>1, <2>1, <2>2
<1>8. InstantsOK'
  BY <1>1, <1>6 DEF WindowInv, InstantsOK, Forget
<1>9. Sound => copy[p] = stamps
  BY <1>1 DEF WindowInv, CopyIsCurrent
<1>10. FileOK'
  <2>1. stamps' \subseteq admitted'
    BY <1>1 DEF Kept, WindowInv, FileOK
  <2>2. \A q \in Procs : copy'[q] \subseteq admitted'
    BY <1>1 DEF WindowInv, FileOK, InstantsOK, Forget, NoStamps
  <2> QED
    BY <2>1, <2>2 DEF FileOK
<1>11. CopyIsCurrent'
  <2> SUFFICES ASSUME Sound, NEW q \in Procs, pc'[q] = "loaded" PROVE FALSE
    BY <1>1 DEF CopyIsCurrent, Sound
  <2>1. pc'[p] = "done" /\ (q # p => pc'[q] = pc[q])
    BY <1>1 DEF LockInv, TypesOK, PlacesOK, Go
  <2>2. q # p /\ Working(q) /\ Working(p)
    BY <1>1, <2>1 DEF Working, Critical
  <2> QED
    BY <2>2 DEF LockInv, OwnerWorks, Sound
<1>12. LostAreOld'
  <2> SUFFICES ASSUME Sound, NEW s \in admitted' \ stamps' PROVE s.at <= clock - Span
    BY <1>1 DEF LostAreOld, Sound
  <2>1. s \in admitted /\ s.at \in Nat
    BY <1>1 DEF WindowInv, StampsOK
  <2>2. CASE s \notin stamps
    BY <2>1, <2>2 DEF WindowInv, LostAreOld
  <2>3. CASE s \in stamps
    <3>1. ~ (s.at > a - Span)
      BY <1>1, <1>9, <2>3 DEF Kept
    <3> QED
      BY <1>2, <2>1, <3>1
  <2> QED
    BY <2>2, <2>3
<1>13. Limited'
  <2> SUFFICES ASSUME Sound, NEW t \in Int PROVE Cardinality(Window(t)') <= Limit
    BY <1>1 DEF Limited, Sound
  <2>1. IsFiniteSet(Window(t)) /\ Cardinality(Window(t)) <= Limit
    BY <1>2, FS_Subset DEF Window, WindowInv, Limited
  <2>2. \A s \in admitted : s \in Window(t)' => s \in Window(t)
    <3> SUFFICES ASSUME NEW s \in admitted, s.at <= t, s.at > t - (Span - lag')
                 PROVE  s.at > t - (Span - lag)
      BY DEF Window
    <3>1. s.at \in Nat
      BY DEF WindowInv, StampsOK
    <3> QED
      BY <1>2, <1>6, <3>1
  <2>3. CASE new \notin Window(t)'
    <3>1. Window(t)' \subseteq Window(t)
      BY <1>1, <2>2, <2>3 DEF Window
    <3>2. Cardinality(Window(t)') <= Cardinality(Window(t)) /\ IsFiniteSet(Window(t)')
      BY <2>1, <3>1, FS_Subset
    <3> QED
      BY <2>1, <3>2, FS_CardinalityType
  <2>4. CASE new \in Window(t)'
    <3> DEFINE K == Kept(copy[p], a)
    <3>1. K \subseteq admitted /\ IsFiniteSet(K)
      BY <1>2, FS_Subset DEF Kept, WindowInv, FileOK
    <3>2. new \notin K /\ Cardinality(K \cup {new}) = Cardinality(K) + 1 /\ IsFiniteSet(K \cup {new})
      BY <1>4, <3>1, FS_AddElement
    <3>3. Cardinality(K) < Limit /\ Cardinality(K) \in Nat
      BY <1>1, <3>1, FS_CardinalityType DEF Fits
    <3>4. a <= t /\ a > t - (Span - lag')
      BY <1>3, <2>4 DEF Window
    <3>5. ASSUME NEW s \in Window(t)', s # new PROVE s \in K
      <4>1. s \in admitted /\ s.at > t - (Span - lag') /\ s.at \in Nat
        BY <1>1, <3>5 DEF Window, WindowInv, StampsOK
      <4>2. s.at > clock - Span /\ s.at > a - Span
        BY <1>2, <1>6, <3>4, <4>1
      <4>3. s \in stamps
        BY <1>2, <4>1, <4>2 DEF WindowInv, LostAreOld
      <4> QED
        BY <1>9, <4>2, <4>3 DEF Kept
    <3> HIDE DEF K
    <3>6. Window(t)' \subseteq K \cup {new}
      BY <3>5
    <3>7. Cardinality(Window(t)') <= Cardinality(K \cup {new}) /\ IsFiniteSet(Window(t)')
      BY <3>2, <3>6, FS_Subset
    <3> QED
      BY <3>2, <3>3, <3>7, FS_CardinalityType
  <2> QED
    BY <2>3, <2>4
<1> QED
  BY <1>7, <1>8, <1>10, <1>11, <1>12, <1>13 DEF WindowInv

\* Every step keeps the invariant.
LEMMA WindowInvStep == LockInv /\ WindowInv /\ [LockNext]_lockVars => WindowInv'
<1> SUFFICES ASSUME LockInv, WindowInv, [LockNext]_lockVars PROVE WindowInv'
  OBVIOUS
<1> USE LockAssumption
<1>0. TypesOK /\ InstantsOK /\ clock \in Nat /\ PlacesOK
  BY DEF LockInv, WindowInv, TypesOK, ClockOK
<1>1. CASE ClockTick
  BY <1>0, <1>1, WindowInvQuiet DEF ClockTick, InstantsOK, Sound
<1>2. ASSUME NEW p \in Procs, Ask(p) PROVE WindowInv'
  BY <1>0, <1>2, WindowInvQuiet DEF Ask, InstantsOK, Go, PlacesOK, Sound
<1>3. ASSUME NEW p \in Procs, Create(p) \/ Look(p) PROVE WindowInv'
  BY <1>0, <1>3, WindowInvQuiet DEF Create, Look, InstantsOK, Go, PlacesOK, Sound
<1>4. ASSUME NEW p \in Procs, Steal(p) PROVE WindowInv'
  <2>1. Sound' => Sound
    BY <1>4, Zenon DEF Steal, Sound
  <2>2. UNCHANGED <<clock, stamps, admitted, lag, asked, copy>>
    BY <1>4 DEF Steal
  <2>3. \A q \in Procs : pc'[q] = "loaded" => pc[q] = "loaded"
    BY <1>0, <1>4 DEF Steal, Go, PlacesOK
  <2> QED
    BY <1>0, <2>1, <2>2, <2>3, WindowInvQuiet DEF InstantsOK
<1>5. ASSUME NEW p \in Procs, Load(p) PROVE WindowInv'
  BY <1>0, <1>5, WindowInvQuiet DEF Load, InstantsOK, Go, PlacesOK, Sound
<1>6. ASSUME NEW p \in Procs, Deny(p) \/ SaveFails(p) PROVE WindowInv'
  BY <1>0, <1>6, WindowInvQuiet DEF Deny, SaveFails, InstantsOK, Go, PlacesOK, Sound, Forget, NoStamps
<1>7. ASSUME NEW p \in Procs, Release(p) \/ Crash(p) PROVE WindowInv'
  BY <1>0, <1>7, WindowInvQuiet DEF Release, Crash, InstantsOK, Go, PlacesOK, Sound
<1>8. ASSUME NEW p \in Procs, Admit(p) PROVE WindowInv'
  BY <1>8, WindowInvAdmit
<1>10. ASSUME NEW p \in Procs, LoadFails(p) PROVE WindowInv'
  <2>1. ~Sound'
    BY <1>10 DEF LoadFails, Sound
  <2>2. UNCHANGED <<stamps, admitted, lag, clock, asked>>
    BY <1>10 DEF LoadFails
  <2>3. DOMAIN copy' = Procs /\ \A q \in Procs : copy'[q] \in {{}, copy[q]}
    BY <1>0, <1>10 DEF LoadFails, Forget, NoStamps, InstantsOK
  <2>4. StampsOK' /\ InstantsOK' /\ FileOK'
    BY <2>2, <2>3 DEF WindowInv, StampsOK, InstantsOK, FileOK
  <2> QED
    BY <2>1, <2>4 DEF WindowInv, CopyIsCurrent, LostAreOld, Limited
<1>11. CASE Jam
  BY <1>0, <1>11, WindowInvQuiet DEF Jam, InstantsOK, Sound
<1>9. CASE UNCHANGED lockVars
  BY <1>0, <1>9, WindowInvQuiet DEF lockVars, InstantsOK, Sound
<1> QED
  BY <1>1, <1>2, <1>3, <1>4, <1>5, <1>6, <1>7, <1>8, <1>9, <1>10, <1>11 DEF LockNext, LockStep

\* The limit for stamped dispatches, whatever the span, the limit, the waits and
\* the number of dispatches: two never both pass at limit - 1 (slidewin.Decide),
\* in any window shortened by the longest time between a dispatch's clock and its
\* stamp, unless a lock was stolen from a working process or the window was
\* unreadable once.  Dispatches let through unstamped are not counted.
THEOREM LimitHoldsAlways == LockSpec => []LimitHolds
<1>1. WindowInv => LimitHolds
  BY LockAssumption DEF WindowInv, Limited, Sound, Window, LimitHolds, Times
<1> QED
  BY <1>1, WindowInvInit, WindowInvStep, LockInvAlways, PTL DEF LockSpec
=============================================================================
