------------------------ MODULE UpgradeConfigProofs ------------------------
(***************************************************************************)
(* The UpgradeConfig reconciler: types, the recorded slot, the jobs that   *)
(* are created and the jobs that are deleted, for any schedule, any delay  *)
(* and any history limit.                                                  *)
(***************************************************************************)
EXTENDS UpgradeConfig, OrderTheorems, FiniteSetTheorems

(* What some of the theorems suppose of the surroundings.                  *)

\* A slot can no longer be scheduled when the window of the next one opens.
Separated == \A s, t \in Slots : s < t => s + MaxSchedulingDelay < t
\* The latest available update does not change while the window of a slot is
\* open; between the windows it may.
Opened == \E s \in Slots : Window(s) <= now /\ ~Past(s)
OfferHolds == Opened => offer' = offer
Steady == [][OfferHolds]_vars
\* No suspension ends while the window of a slot is open, neither one of the
\* config nor one of a suspension window; it may begin there.
Lasting == \A t \in SuspendedAt, s \in Slots :
             Window(s) <= t /\ t < Window(s) + MaxSchedulingDelay => t + 1 \in SuspendedAt
SuspensionHolds == Opened /\ uc.suspend => uc'.suspend
Unbroken == [][SuspensionHolds]_vars
\* Nobody suspends the config.
NoSuspension == SuspendedAt = {} /\ ~Switchable
\* A slot is at hand only when the one before it is due.
Spaced == \A s, t \in Slots : s < t => s + PinVersionWindow <= t
\* The search for a slot never gives up.
Patient == [][~GiveUp]_vars

-----------------------------------------------------------------------------
(* The invariants.                                                         *)

\* Timers are instants, and the reconcile has one to set when it ends; nothing
\* is left of a reconcile that is over.
TimerInv ==
  /\ wake \subseteq Nat /\ wait \subseteq Nat
  /\ pc = "cleanup" => wait # {}
  /\ pc = "idle" => luc = NewConfig /\ base = NewConfig /\ ~err
  /\ pc # "record" => slot = 0

\* No slot is recorded and no job is created before its window opens.
Lasts == {uc.last, ucSeen.last, luc.last, base.last, slot}
HorizonInv ==
  /\ \A x \in Lasts : x <= now + PinVersionWindow
  /\ \A n \in Existing(jobs) \cup Existing(jobsSeen) :
       n[1] \in Offers /\ StartAfter(n) <= now + PinVersionWindow

\* The copy is ahead of the version it was read from, never behind it.
CopyInv == base.last <= luc.last /\ (pc = "record" => luc.last <= slot)

\* No copy of the config says that it is suspended.
AwakeInv == ~uc.suspend /\ ~ucSeen.suspend /\ ~luc.suspend /\ ~base.suspend

\* The cache knows of a job what is true or was: jobs finish and are deleted,
\* and a job that is known is not created again.
KnownInv == \A n \in Existing(jobsSeen) :
              \/ jobs[n] \in {"none", jobsSeen[n]}
              \/ jobsSeen[n] = "open" /\ jobs[n] \in {"succeeded", "failed"}

\* A job the cache does not know was created in this instant.
UnseenInv == \A n \in Existing(jobs) \ Existing(jobsSeen) : ~Past(StartAfter(n))

\* The latest job the cache knows is not deleted.
LatestInv == \A n \in Existing(jobsSeen) : IsLatest(n) => jobs[n] # "none"

\* A slot has one job; as long as its window lasts, that for the present offer.
SlotInv ==
  /\ \A m, n \in Existing(jobs) \cup Existing(jobsSeen) : StartAfter(m) = StartAfter(n) => m = n
  /\ \A n \in Existing(jobs) \cup Existing(jobsSeen) : ~Past(StartAfter(n)) => n[1] = offer

\* The job that is open is the latest one.
OpenInv == \A n \in Names : jobs[n] = "open" =>
             \A m \in Existing(jobs) : StartAfter(m) <= StartAfter(n)

\* In a window every copy of the config that says that it is suspended is right.
SuspendInv ==
  /\ base.suspend = luc.suspend
  /\ Opened => (ucSeen.suspend => uc.suspend) /\ (luc.suspend => ucSeen.suspend)

\* This reconcile and the next find the config suspended.
Halted == now \in SuspendedAt \/ (ucSeen.suspend /\ (pc # "idle" => luc.suspend))

\* A slot that is recorded or known has its job as long as its window lasts, or
\* is still suspended.
DecidedInv ==
  /\ \A x \in Lasts \cap Slots : ~Past(x) => jobs[<<offer, x>>] # "none" \/ Halted
  /\ \A n \in Existing(jobsSeen) : ~Past(StartAfter(n)) => jobs[n] # "none"

\* The jobs to keep are there, whenever they were counted.
KeptInv ==
  /\ IsFiniteSet(Existing(jobs)) /\ IsFiniteSet(Existing(jobsSeen))
  /\ \A keep \in SUBSET Succeeded(jobsSeen) :
       Kept(Succeeded(jobsSeen), keep) => keep \subseteq Succeeded(jobs)

\* A worker that rests with nothing to be delivered has trimmed the jobs.
TrimInv ==
  pc = "idle" /\ ~queued /\ jobsSeen = jobs /\ HistoryLimit > 0 =>
    Cardinality(Succeeded(jobs)) <= HistoryLimit

\* The cache is not ahead of the recorded slot.
SeenInv == ucSeen.last <= uc.last

\* The worker will look at the schedule again without a timer.
Pending == queued \/ err \/ ucSeen.last # uc.last \/ jobsSeen # jobs

\* No slot can be scheduled, or a timer is set for each that has to be.
Blocked == \/ \E n \in Names : jobs[n] = "open"
           \/ \E n \in Existing(jobs) : StartAfter(n) > now
Chance(W) == Blocked \/ \A s \in Slots : s > uc.last /\ ~Past(s) =>
                          \E w \in W : w <= Window(s) + MaxSchedulingDelay

\* Whatever the reconcile has found, its timers give every slot a chance; the
\* timer for the next slot of the schedule is for a job that is done before its
\* start, after which nothing else happens.
ChanceInv ==
  ~Pending =>
    /\ pc # "record"
    /\ pc = "schedule" => luc.last = uc.last
    /\ pc = "status" => Chance(wait \cup {Upcoming(now)})
    /\ pc = "cleanup" => Chance(wait) /\ \E w \in wait : w <= Upcoming(now)
    /\ pc = "idle" /\ (\A w \in wake : w > now) =>
         Chance(wake) /\ \E w \in wake : w <= Upcoming(now)

\* What holds whatever the schedule, the offers and the suspensions are.
BasicInv == TypeOK /\ TimerInv /\ HorizonInv /\ KnownInv /\ UnseenInv

-----------------------------------------------------------------------------
(* The operators.                                                          *)

\* First is the first.
LEMMA FirstFacts ==
  ASSUME NEW S \in SUBSET Nat, S # {}
  PROVE  First(S) \in S /\ \A t \in S : First(S) <= t
<1>1. \E s \in S : \A t \in S : s <= t
  BY FirstInstant
<1> QED BY <1>1 DEF First

\* Slots are instants, and the clock is one.
LEMMA Instants == ASSUME TypeOK
  PROVE  /\ Slots \subseteq Nat /\ now \in Nat /\ now <= MaxTime
         /\ PinVersionWindow \in Nat /\ MaxSchedulingDelay \in Nat /\ MaxTime \in Nat
         /\ \A x \in Lasts : x \in Nat /\ x \in Slots \cup {0}
         /\ \A n \in Names : StartAfter(n) \in Slots /\ StartAfter(n) \in Nat
<1>1. /\ Slots \subseteq Nat /\ now \in Nat /\ now <= MaxTime
      /\ PinVersionWindow \in Nat /\ MaxSchedulingDelay \in Nat /\ MaxTime \in Nat
  BY ConfigAssumption DEF TypeOK
<1>2. \A c \in UC : c.last \in Slots \cup {0}
  BY DEF UC
<1>3. \A x \in Lasts : x \in Slots \cup {0}
  BY <1>2 DEF TypeOK, Lasts
<1>4. \A n \in Names : StartAfter(n) \in Slots
  BY DEF Names, StartAfter
<1>5. ASSUME NEW x \in Lasts PROVE x \in Nat
  <2>1. x \in Slots \/ x = 0
    BY <1>3
  <2>2. CASE x \in Slots
    BY <1>1, <2>2
  <2>3. CASE x = 0
    BY <2>3
  <2> QED BY <2>1, <2>2, <2>3
<1>6. \A n \in Names : StartAfter(n) \in Nat
  BY <1>1, <1>4
<1> QED BY <1>1, <1>3, <1>4, <1>5, <1>6

\* The next run is a slot that comes after e and is not past.
LEMMA NextRunFacts ==
  ASSUME TypeOK, NEW e \in Nat, e <= now + PinVersionWindow
  PROVE  /\ NextRun(e) \in Slots /\ NextRun(e) \in Nat
         /\ NextRun(e) > e /\ ~Past(NextRun(e))
<1> DEFINE S == {s \in Slots : s > e /\ ~Past(s)}
<1>0. /\ Slots \subseteq Nat /\ now \in Nat /\ now <= MaxTime
      /\ PinVersionWindow \in Nat /\ MaxSchedulingDelay \in Nat /\ MaxTime \in Nat
  BY Instants
<1>1. PICK s \in Slots : s > MaxTime + PinVersionWindow
  BY ConfigAssumption
<1>2. s \in S
  BY <1>0, <1>1 DEF Past, Window
<1>3. S \in SUBSET Nat /\ S # {}
  BY <1>0, <1>2
<1>4. First(S) \in S
  BY <1>3, FirstFacts
<1> QED BY <1>0, <1>4 DEF NextRun

\* There is always an upcoming slot.
LEMMA UpcomingFacts == ASSUME TypeOK PROVE Upcoming(now) \in Slots /\ Upcoming(now) \in Nat
<1> DEFINE S == {s \in Slots : s > now}
<1>0. /\ Slots \subseteq Nat /\ now \in Nat /\ now <= MaxTime
      /\ PinVersionWindow \in Nat /\ MaxTime \in Nat
  BY Instants
<1>1. PICK s \in Slots : s > MaxTime + PinVersionWindow
  BY ConfigAssumption
<1>2. s \in S
  BY <1>0, <1>1
<1>3. S \in SUBSET Nat /\ S # {}
  BY <1>0, <1>2
<1>4. First(S) \in S
  BY <1>3, FirstFacts
<1> QED BY <1>0, <1>4 DEF Upcoming

\* The instant after which a slot is looked for has been recorded or has a job.
LEMMA ReadyFacts ==
  ASSUME TypeOK, HorizonInv, NEW e, Ready(e)
  PROVE  /\ e \in Nat /\ e <= now + PinVersionWindow
         /\ \A n \in Existing(jobsSeen) : StartAfter(n) <= e
         /\ pc = "schedule"
<1>1. CASE Existing(jobsSeen) = {} /\ e = luc.last
  BY <1>1, Instants DEF HorizonInv, Lasts, Ready
<1>2. CASE \E n \in Names : IsLatest(n) /\ e = StartAfter(n)
  BY <1>2, Instants DEF HorizonInv, IsLatest, Ready
<1> QED BY <1>1, <1>2 DEF Ready

\* A slot that is chosen is in its window.
LEMMA InWindowFacts ==
  ASSUME TypeOK, HorizonInv, NEW e, InWindow(e)
  PROVE  /\ NextRun(e) \in Slots /\ NextRun(e) \in Nat /\ ~Past(NextRun(e)) /\ NextRun(e) > e
         /\ NextRun(e) <= now + PinVersionWindow
         /\ \A n \in Existing(jobsSeen) : StartAfter(n) < NextRun(e)
<1>1. Ready(e) /\ now >= Window(NextRun(e))
  BY DEF InWindow
<1>2. /\ e \in Nat /\ e <= now + PinVersionWindow
      /\ \A n \in Existing(jobsSeen) : StartAfter(n) <= e
  BY <1>1, ReadyFacts
<1>3. /\ NextRun(e) \in Slots /\ NextRun(e) \in Nat
      /\ NextRun(e) > e /\ ~Past(NextRun(e))
  BY <1>2, NextRunFacts
<1>4. now \in Nat /\ PinVersionWindow \in Nat /\ \A n \in Existing(jobsSeen) : StartAfter(n) \in Nat
  BY Instants DEF Existing
<1>5. NextRun(e) <= now + PinVersionWindow
  BY <1>1, <1>3, <1>4 DEF Window
<1> QED BY <1>2, <1>3, <1>4, <1>5

\* Status().Update changes the config, if at all, to the copy.
LEMMA UpdateFacts ==
  ASSUME TypeOK, NEW new, UpdateStatus(new)
  PROVE  /\ luc' = new /\ (uc' = uc \/ (base = uc /\ uc' = new)) /\ base' \in {base, new}
         /\ err' \in BOOLEAN /\ faults' \in 0..MaxFaults
<1>1. faults \in 0..MaxFaults /\ MaxFaults \in Nat /\ err \in BOOLEAN
  BY ConfigAssumption DEF TypeOK
<1>2. Charge(TRUE) => faults' \in 0..MaxFaults
  BY <1>1 DEF Charge
<1> QED BY <1>1, <1>2 DEF UpdateStatus

\* No or one instant.
LEMMA Timers == Cardinality({}) <= 1 /\ \A x : Cardinality({x}) <= 1
<1>1. Cardinality({}) = 0
  BY FS_EmptySet
<1>2. \A x : Cardinality({x}) = 1
  BY FS_Singleton
<1> QED BY <1>1, <1>2

-----------------------------------------------------------------------------
(* Types and timers.                                                       *)

ConfigOK == uc \in UC /\ ucSeen \in UC /\ luc \in UC /\ base \in UC
JobsOK == /\ jobs \in [Names -> JobStates] /\ jobsSeen \in [Names -> JobStates]
          /\ offer \in Offers /\ slot \in Slots \cup {0}
TimersOK ==
  /\ wake \in SUBSET Int /\ wait \in SUBSET Int
  /\ Cardinality(wake) <= 1 /\ Cardinality(wait) <= 1
  /\ wake \subseteq Nat /\ wait \subseteq Nat
  /\ pc = "cleanup" => wait # {}
OthersOK ==
  /\ queued \in BOOLEAN /\ err \in BOOLEAN
  /\ pc \in {"idle", "schedule", "record", "status", "cleanup"}
  /\ now \in 0..MaxTime /\ faults \in 0..MaxFaults
IdleOK == /\ pc = "idle" => luc = NewConfig /\ base = NewConfig /\ ~err
          /\ pc # "record" => slot = 0

\* The parts of the types and timers.
LEMMA TypeParts == TypeOK /\ TimerInv <=> ConfigOK /\ JobsOK /\ TimersOK /\ OthersOK /\ IdleOK
  BY DEF TypeOK, TimerInv, ConfigOK, JobsOK, TimersOK, OthersOK, IdleOK

\* A new config has a type.
LEMMA NewConfigOK == NewConfig \in UC /\ NewConfig.last = 0
  BY DEF NewConfig, UC

\* The scheduling of a job.
LEMMA ScheduleOK ==
  ASSUME TypeOK, TimerInv, HorizonInv, ScheduleJob PROVE (TypeOK /\ TimerInv)'
<1> SUFFICES ConfigOK' /\ JobsOK' /\ TimersOK' /\ OthersOK' /\ IdleOK'
  BY TypeParts, PTL
<1>0. ConfigOK /\ JobsOK /\ TimersOK /\ OthersOK /\ IdleOK
  BY TypeParts
<1>a. \A x \in Slots : [luc EXCEPT !.last = x] \in UC
  BY <1>0 DEF ConfigOK, UC
<1> USE DEF caches, queue
<1>1. ASSUME NEW x \in Slots, UpdateStatus([luc EXCEPT !.last = x]), pc' = "status",
             UNCHANGED <<jobs, jobsSeen, ucSeen, offer, queued, wake, wait, now>>, slot' = 0
      PROVE  ConfigOK' /\ JobsOK' /\ TimersOK' /\ OthersOK' /\ IdleOK'
  <2>1. ConfigOK' /\ err' \in BOOLEAN /\ faults' \in 0..MaxFaults
    BY <1>0, <1>1, <1>a, UpdateFacts DEF ConfigOK
  <2> QED BY <1>0, <1>1, <2>1 DEF JobsOK, TimersOK, OthersOK, IdleOK
<1>2. CASE Repair
  <2>1. PICK n \in Names : UpdateStatus([luc EXCEPT !.last = StartAfter(n)])
    BY <1>2 DEF Repair
  <2>2. StartAfter(n) \in Slots /\ slot' = 0
    BY <1>0, <1>2, Instants DEF Repair, IdleOK
  <2> QED BY <1>1, <1>2, <2>1, <2>2 DEF Repair
<1>3. CASE SkipSlot
  <2>1. PICK e \in Slots \cup {0} : InWindow(e) /\ UpdateStatus([luc EXCEPT !.last = NextRun(e)])
    BY <1>3 DEF SkipSlot
  <2>2. NextRun(e) \in Slots
    BY <2>1, InWindowFacts
  <2>3. pc = "schedule"
    BY <2>1 DEF InWindow, Ready
  <2> QED BY <1>0, <1>1, <1>3, <2>1, <2>2, <2>3 DEF SkipSlot, IdleOK
<1>4. CASE Record
  <2>1. CASE slot \in Slots
    BY <1>1, <1>4, <2>1 DEF Record
  <2>2. CASE slot = 0
    <3>1. [luc EXCEPT !.last = slot] \in UC
      BY <1>0, <2>2 DEF ConfigOK, UC
    <3>2. ConfigOK' /\ err' \in BOOLEAN /\ faults' \in 0..MaxFaults
      BY <1>0, <1>4, <3>1, UpdateFacts DEF ConfigOK, Record
    <3> QED BY <1>0, <1>4, <3>2 DEF Record, JobsOK, TimersOK, OthersOK, IdleOK
  <2> QED BY <1>0, <2>1, <2>2 DEF JobsOK
<1>5. CASE Busy
  BY <1>0, <1>5 DEF Busy, ConfigOK, JobsOK, TimersOK, OthersOK, IdleOK
<1>6. CASE GiveUp \/ NotYet
  <2>1. PICK t \in Nat : wait' = {t}
    <3>1. CASE GiveUp
      BY <3>1, Instants DEF GiveUp
    <3>2. CASE NotYet
      <4>1. PICK e : Ready(e) /\ now < Window(NextRun(e)) /\ wait' = {Window(NextRun(e))}
        BY <3>2 DEF NotYet
      <4>2. NextRun(e) \in Nat
        BY <4>1, ReadyFacts, NextRunFacts
      <4> QED BY <4>1, <4>2, Instants DEF Window
    <3> QED BY <1>6, <3>1, <3>2
  <2>2. pc = "schedule" /\ pc' = "status" /\ UNCHANGED <<uc, jobs, caches, offer, queue, luc, base, slot, err, now, faults>>
    BY <1>6 DEF GiveUp, NotYet, Ready
  <2>3. TimersOK'
    <3>1. Cardinality(wait') <= 1 /\ wait' \subseteq Nat
      BY <2>1, Timers
    <3>2. wake' = wake /\ pc' = "status"
      BY <2>2
    <3> QED BY <1>0, <3>1, <3>2 DEF TimersOK
  <2> QED BY <1>0, <2>2, <2>3 DEF ConfigOK, JobsOK, OthersOK, IdleOK
<1>7. CASE CreateJob
  <2>1. PICK e \in Slots \cup {0} : InWindow(e)
          /\ \/ /\ jobs' = [jobs EXCEPT ![<<offer, NextRun(e)>>] = "open"]
                /\ pc' = "record" /\ slot' = NextRun(e) /\ UNCHANGED <<err, faults>>
             \/ /\ UNCHANGED <<jobs, slot, faults>> /\ pc' = "status" /\ err' = TRUE
             \/ /\ jobs' = [jobs EXCEPT ![<<offer, NextRun(e)>>] = "open"]
                /\ pc' = "status" /\ err' = TRUE /\ Charge(TRUE) /\ UNCHANGED slot
    BY <1>7 DEF CreateJob
  <2>2. NextRun(e) \in Slots /\ pc = "schedule"
    BY <2>1, InWindowFacts DEF InWindow, Ready
  <2>3. jobs' \in [Names -> JobStates]
    BY <1>0, <2>1 DEF JobsOK, JobStates
  <2>4. faults' \in 0..MaxFaults
    BY <1>0, <2>1, ConfigAssumption DEF OthersOK, Charge
  <2> QED BY <1>0, <1>7, <2>1, <2>2, <2>3, <2>4
          DEF CreateJob, ConfigOK, JobsOK, TimersOK, OthersOK, IdleOK
<1>8. CASE ScheduleFails
  <2>1. faults' \in 0..MaxFaults
    BY <1>0, <1>8, ConfigAssumption DEF ScheduleFails, OthersOK, Charge
  <2> QED BY <1>0, <1>8, <2>1 DEF ScheduleFails, ConfigOK, JobsOK, TimersOK, OthersOK, IdleOK
<1> QED BY <1>2, <1>3, <1>4, <1>5, <1>6, <1>7, <1>8 DEF ScheduleJob

\* Every step keeps types and timers.
LEMMA TypeStep ==
  ASSUME TypeOK, TimerInv, HorizonInv, [Next]_vars PROVE (TypeOK /\ TimerInv)'
<1> SUFFICES ASSUME ~ScheduleJob PROVE ConfigOK' /\ JobsOK' /\ TimersOK' /\ OthersOK' /\ IdleOK'
  BY ScheduleOK, TypeParts, PTL
<1>0. ConfigOK /\ JobsOK /\ TimersOK /\ OthersOK /\ IdleOK
  BY TypeParts
<1> USE DEF caches, queue, worker
<1>1. CASE Begin
  BY <1>0, <1>1 DEF Begin, ConfigOK, JobsOK, TimersOK, OthersOK, IdleOK
<1>2. CASE UpdateNext
  <2>1. [luc EXCEPT !.next = Upcoming(now)] \in UC
    BY <1>0, UpcomingFacts DEF ConfigOK, UC
  <2>2. ConfigOK' /\ err' \in BOOLEAN /\ faults' \in 0..MaxFaults
    BY <1>0, <1>2, <2>1, UpdateFacts DEF ConfigOK, UpdateNext
  <2>3. PICK t \in Nat : wait' = {t}
    <3>1. wait \cup {Upcoming(now)} \in SUBSET Nat
      BY <1>0, UpcomingFacts DEF TimersOK
    <3>2. First(wait \cup {Upcoming(now)}) \in wait \cup {Upcoming(now)}
      BY <3>1, FirstFacts
    <3> QED BY <1>2, <3>1, <3>2 DEF UpdateNext
  <2>4. TimersOK'
    <3>1. Cardinality(wait') <= 1 /\ wait' \subseteq Nat /\ wait' # {}
      BY <2>3, Timers
    <3>2. wake' = wake
      BY <1>2 DEF UpdateNext
    <3> QED BY <1>0, <3>1, <3>2 DEF TimersOK
  <2> QED BY <1>0, <1>2, <2>2, <2>4 DEF UpdateNext, JobsOK, OthersOK, IdleOK
<1>3. CASE CleanupJobs
  <2>1. /\ pc' = "idle" /\ luc' = NewConfig /\ base' = NewConfig /\ slot' = 0 /\ wait' = {}
        /\ err' = FALSE /\ UNCHANGED <<uc, ucSeen, jobsSeen, offer, now>>
    BY <1>3 DEF CleanupJobs
  <2>2. PICK old \in Surplus(Succeeded(jobsSeen)) : \E done \in SUBSET old :
           /\ Charge(done # old)
           /\ jobs' = [n \in Names |-> IF n \in done THEN "none" ELSE jobs[n]]
    BY <1>3 DEF CleanupJobs
  <2>3. jobs' \in [Names -> JobStates]
    BY <1>0, <2>2 DEF JobsOK, JobStates
  <2>4. faults' \in 0..MaxFaults
    BY <1>0, <2>2, ConfigAssumption DEF OthersOK, Charge
  <2>5. queued' \in BOOLEAN /\ (UNCHANGED wake \/ wake' = {First(wake \cup wait)})
    BY <1>0, <1>3 DEF CleanupJobs, OthersOK
  <2>6. First(wake \cup wait) \in Nat
    <3>1. wake \cup wait \in SUBSET Nat /\ wake \cup wait # {}
      BY <1>0, <1>3 DEF CleanupJobs, TimersOK
    <3> QED BY <3>1, FirstFacts
  <2>7. wake' \in SUBSET Nat /\ Cardinality(wake') <= 1
    <3>1. CASE UNCHANGED wake
      BY <1>0, <3>1 DEF TimersOK
    <3>2. CASE wake' = {First(wake \cup wait)}
      BY <2>6, <3>2, Timers
    <3> QED BY <2>5, <3>1, <3>2
  <2>8. TimersOK'
    BY <2>1, <2>7, Timers DEF TimersOK
  <2> QED BY <1>0, <2>1, <2>3, <2>4, <2>5, <2>8, NewConfigOK DEF ConfigOK, JobsOK, OthersOK, IdleOK
<1>4. CASE Restart
  <2>1. faults' \in 0..MaxFaults
    BY <1>0, <1>4, ConfigAssumption DEF Restart, OthersOK, Charge
  <2>2. TimersOK'
    BY <1>4, Timers DEF Restart, TimersOK
  <2> QED BY <1>0, <1>4, <2>1, <2>2, NewConfigOK DEF Restart, ConfigOK, JobsOK, OthersOK, IdleOK
<1>5. CASE Deliver
  BY <1>0, <1>5 DEF Deliver, ConfigOK, JobsOK, TimersOK, OthersOK, IdleOK
<1>6. CASE Wake
  <2>1. TimersOK'
    BY <1>0, <1>6, Timers DEF Wake, TimersOK
  <2> QED BY <1>0, <1>6, <2>1 DEF Wake, ConfigOK, JobsOK, OthersOK, IdleOK
<1>7. CASE Tick
  BY <1>0, <1>7, ConfigAssumption DEF Tick, ConfigOK, JobsOK, TimersOK, OthersOK, IdleOK
<1>8. CASE OfferChanges
  BY <1>0, <1>8 DEF OfferChanges, ConfigOK, JobsOK, TimersOK, OthersOK, IdleOK
<1>9. CASE SwitchSuspend
  <2>1. uc' \in UC
    BY <1>0, <1>9 DEF SwitchSuspend, ConfigOK, UC
  <2> QED BY <1>0, <1>9, <2>1 DEF SwitchSuspend, ConfigOK, JobsOK, TimersOK, OthersOK, IdleOK
<1>10. ASSUME NEW n \in Names, JobFinishes(n)
       PROVE  ConfigOK' /\ JobsOK' /\ TimersOK' /\ OthersOK' /\ IdleOK'
  <2>1. jobs' \in [Names -> JobStates]
    BY <1>0, <1>10 DEF JobFinishes, JobsOK, JobStates
  <2> QED BY <1>0, <1>10, <2>1 DEF JobFinishes, ConfigOK, JobsOK, TimersOK, OthersOK, IdleOK
<1>11. CASE UNCHANGED vars
  BY <1>0, <1>11 DEF vars, ConfigOK, JobsOK, TimersOK, OthersOK, IdleOK
<1> QED BY <1>1, <1>2, <1>3, <1>4, <1>5, <1>6, <1>7, <1>8, <1>9, <1>10, <1>11
        DEF Next, Environment

-----------------------------------------------------------------------------
(* What a step does to the jobs.                                           *)

\* The jobs stay; the cache may catch up, and the clock moves only after that.
Stays == /\ UNCHANGED jobs /\ jobsSeen' \in {jobsSeen, jobs} /\ offer' \in Offers
         /\ now' = now \/ (now' = now + 1 /\ jobsSeen = jobs /\ jobsSeen' = jobs)
Creates(e) == /\ InWindow(e) /\ ~Suspended
              /\ jobs[<<offer, NextRun(e)>>] = "none"
              /\ jobs' = [jobs EXCEPT ![<<offer, NextRun(e)>>] = "open"]
              /\ UNCHANGED <<jobsSeen, offer, now>>
Deletes(old, done) ==
  /\ old \in Surplus(Succeeded(jobsSeen)) /\ done \in SUBSET old
  /\ jobs' = [n \in Names |-> IF n \in done THEN "none" ELSE jobs[n]]
  /\ UNCHANGED <<jobsSeen, offer, now>>
Finishes(n) ==
  /\ jobs[n] = "open" /\ \E st \in {"succeeded", "failed"} : jobs' = [jobs EXCEPT ![n] = st]
  /\ UNCHANGED <<jobsSeen, offer, now>>
JobsStep == \/ Stays
            \/ \E e : Creates(e)
            \/ \E old, done : Deletes(old, done)
            \/ \E n \in Names : Finishes(n)

\* There is nothing else a step can do.
LEMMA JobsSteps == ASSUME TypeOK, [Next]_vars PROVE JobsStep
<1>0. offer \in Offers
  BY DEF TypeOK
<1> USE DEF caches, queue, worker
<1>1. CASE CreateJob
  BY <1>0, <1>1 DEF CreateJob, JobsStep, Creates, Stays
<1>2. CASE CleanupJobs
  <2>1. PICK old \in Surplus(Succeeded(jobsSeen)) : \E done \in SUBSET old :
           jobs' = [n \in Names |-> IF n \in done THEN "none" ELSE jobs[n]]
    BY <1>2 DEF CleanupJobs
  <2>2. PICK done \in SUBSET old :
           jobs' = [n \in Names |-> IF n \in done THEN "none" ELSE jobs[n]]
    BY <2>1
  <2>3. Deletes(old, done)
    BY <1>2, <2>1, <2>2 DEF CleanupJobs, Deletes
  <2> QED BY <2>3 DEF JobsStep
<1>3. ASSUME NEW n \in Names, JobFinishes(n) PROVE JobsStep
  BY <1>3 DEF JobFinishes, JobsStep, Finishes
<1>4. CASE Begin \/ UpdateNext \/ Repair \/ Busy \/ GiveUp \/ NotYet \/ SkipSlot \/ Record \/ ScheduleFails
  <2>1. UNCHANGED <<jobs, jobsSeen, offer, now>>
    BY <1>4 DEF Begin, UpdateNext, Repair, Busy, GiveUp, NotYet, SkipSlot, Record, ScheduleFails
  <2> QED BY <1>0, <2>1 DEF JobsStep, Stays
<1>5. CASE Restart \/ Deliver \/ Wake \/ Tick \/ OfferChanges \/ SwitchSuspend
  <2>1. Stays
    BY <1>0, <1>5 DEF Restart, Deliver, Wake, Tick, OfferChanges, SwitchSuspend, Stays
  <2> QED BY <2>1 DEF JobsStep
<1>6. CASE UNCHANGED vars
  BY <1>0, <1>6 DEF vars, JobsStep, Stays
<1> QED BY <1>1, <1>2, <1>3, <1>4, <1>5, <1>6 DEF Next, ScheduleJob, Environment

-----------------------------------------------------------------------------
(* What a step does to the config and its copies.                          *)

\* Why the copy is given x as the recorded slot.
Reason(x) == \/ x = luc.last
             \/ \E n \in Names : IsLatest(n) /\ x = StartAfter(n) /\ x > luc.last
             \/ \E e : InWindow(e) /\ Suspended /\ x = NextRun(e)
             \/ pc = "record" /\ x = slot
Writes(new) == /\ Reason(new.last) /\ new.suspend = luc.suspend
               /\ luc' = new /\ (uc' = uc \/ (base = uc /\ uc' = new)) /\ base' \in {base, new}
               /\ ucSeen' = ucSeen /\ slot' = 0 /\ pc' # "record" /\ pc # "idle"
Plans(e) == /\ Creates(e)
            /\ UNCHANGED <<uc, ucSeen, luc, base>>
            /\ \/ slot' = NextRun(e)
               \/ slot' = slot /\ pc' # "record"
Copies == /\ \/ uc' = uc
             \/ Switchable /\ uc' = [uc EXCEPT !.suspend = ~@]
          /\ ucSeen' \in {ucSeen, uc}
          /\ \/ /\ luc' = luc /\ base' = base /\ slot' = slot
                /\ (pc' = "record" => pc = "record") /\ (pc = "idle" => pc' = "idle")
             \/ /\ luc' = base' /\ (luc' = ucSeen \/ (luc' = NewConfig /\ pc' = "idle"))
                /\ slot' \in {slot, 0} /\ pc' # "record"
ConfigStep == Copies \/ (\E new : Writes(new)) \/ (\E e : Plans(e))

\* There is nothing else a step can do.
LEMMA ConfigSteps == ASSUME TypeOK, TimerInv, [Next]_vars PROVE ConfigStep
<1>0. luc \in UC /\ (pc # "record" => slot = 0)
  BY DEF TypeOK, TimerInv
<1>u. \A x : [luc EXCEPT !.last = x].last = x /\ [luc EXCEPT !.last = x].suspend = luc.suspend
  BY <1>0 DEF UC
<1>v. \A x : [luc EXCEPT !.next = x].last = luc.last /\ [luc EXCEPT !.next = x].suspend = luc.suspend
  BY <1>0 DEF UC
<1> USE DEF caches, queue, worker
<1>1. ASSUME NEW new, UpdateStatus(new), Reason(new.last), new.suspend = luc.suspend,
             ucSeen' = ucSeen, slot' = 0, pc' # "record", pc # "idle"
      PROVE  ConfigStep
  <2>1. Writes(new)
    BY <1>1, UpdateFacts DEF Writes
  <2> QED BY <2>1 DEF ConfigStep
<1>2. CASE Repair
  <2>1. PICK n \in Names : /\ IsLatest(n) /\ StartAfter(n) > luc.last
                           /\ UpdateStatus([luc EXCEPT !.last = StartAfter(n)])
    BY <1>2 DEF Repair
  <2>2. Reason([luc EXCEPT !.last = StartAfter(n)].last)
    BY <1>u, <2>1 DEF Reason
  <2>3. ucSeen' = ucSeen /\ slot' = 0 /\ pc' # "record" /\ pc # "idle"
    BY <1>0, <1>2 DEF Repair
  <2> QED BY <1>1, <1>u, <2>1, <2>2, <2>3
<1>3. CASE SkipSlot
  <2>1. PICK e \in Slots \cup {0} : /\ InWindow(e) /\ Suspended
                                    /\ UpdateStatus([luc EXCEPT !.last = NextRun(e)])
    BY <1>3 DEF SkipSlot
  <2>2. Reason([luc EXCEPT !.last = NextRun(e)].last)
    BY <1>u, <2>1 DEF Reason
  <2>3. ucSeen' = ucSeen /\ slot' = 0 /\ pc' # "record" /\ pc # "idle"
    BY <1>0, <1>3, <2>1 DEF SkipSlot, InWindow, Ready
  <2> QED BY <1>1, <1>u, <2>1, <2>2, <2>3
<1>4. CASE Record
  <2>1. Reason([luc EXCEPT !.last = slot].last)
    BY <1>4, <1>u DEF Reason, Record
  <2>2. ucSeen' = ucSeen /\ slot' = 0 /\ pc' # "record" /\ pc # "idle" /\ UpdateStatus([luc EXCEPT !.last = slot])
    BY <1>4 DEF Record
  <2> QED BY <1>1, <1>u, <2>1, <2>2
<1>5. CASE UpdateNext
  <2>1. Reason([luc EXCEPT !.next = Upcoming(now)].last)
    BY <1>v DEF Reason
  <2>2. ucSeen' = ucSeen /\ slot' = 0 /\ pc' # "record" /\ pc # "idle" /\ UpdateStatus([luc EXCEPT !.next = Upcoming(now)])
    BY <1>0, <1>5 DEF UpdateNext
  <2> QED BY <1>1, <1>v, <2>1, <2>2
<1>6. CASE CreateJob
  <2>1. PICK e \in Slots \cup {0} :
           /\ InWindow(e) /\ ~Suspended
           /\ \/ /\ jobs[<<offer, NextRun(e)>>] = "none"
                 /\ jobs' = [jobs EXCEPT ![<<offer, NextRun(e)>>] = "open"]
                 /\ \/ slot' = NextRun(e)
                    \/ slot' = slot /\ pc' # "record"
              \/ UNCHANGED slot /\ pc' = "status"
    BY <1>6 DEF CreateJob
  <2>2. CASE UNCHANGED slot /\ pc' = "status"
    BY <1>6, <2>1, <2>2 DEF CreateJob, InWindow, Ready, ConfigStep, Copies
  <2>3. CASE ~(UNCHANGED slot /\ pc' = "status")
    <3>1. Plans(e)
      BY <1>6, <2>1, <2>3 DEF CreateJob, Plans, Creates
    <3> QED BY <3>1 DEF ConfigStep
  <2> QED BY <2>2, <2>3
<1>7. CASE Busy \/ GiveUp \/ NotYet \/ ScheduleFails
  BY <1>7 DEF Busy, GiveUp, NotYet, ScheduleFails, Ready, ConfigStep, Copies
<1>8. CASE Begin \/ CleanupJobs
  BY <1>0, <1>8 DEF Begin, CleanupJobs, ConfigStep, Copies
<1>9. CASE Restart \/ Deliver \/ Wake \/ Tick \/ OfferChanges \/ SwitchSuspend
  BY <1>9 DEF Restart, Deliver, Wake, Tick, OfferChanges, SwitchSuspend, ConfigStep, Copies
<1>10. ASSUME NEW n \in Names, JobFinishes(n) PROVE ConfigStep
  BY <1>10 DEF JobFinishes, ConfigStep, Copies
<1>11. CASE UNCHANGED vars
  BY <1>11 DEF vars, ConfigStep, Copies
<1> QED BY <1>2, <1>3, <1>4, <1>5, <1>6, <1>7, <1>8, <1>9, <1>10, <1>11
        DEF Next, ScheduleJob, Environment

\* Where a recorded slot, or the one that is about to be, comes from.
From(x) == \/ x \in Lasts \cup {0}
           \/ \E n \in Names : IsLatest(n) /\ x = StartAfter(n)
           \/ \E e : InWindow(e) /\ x = NextRun(e) /\ (Suspended \/ Creates(e))

\* Every recorded slot comes from there.
LEMMA LastsSteps == ASSUME TypeOK, TimerInv, [Next]_vars PROVE \A x \in Lasts' : From(x)
<1>1. CASE Copies
  <2>1. [uc EXCEPT !.suspend = ~@].last = uc.last
    BY DEF TypeOK, UC
  <2>2. \A x \in Lasts' : x \in Lasts \cup {0}
    BY <1>1, <2>1, NewConfigOK DEF Copies, Lasts
  <2> QED BY <2>2 DEF From
<1>2. ASSUME NEW new, Writes(new) PROVE \A x \in Lasts' : From(x)
  <2>1. \A x \in Lasts' : x \in Lasts \cup {0} \/ x = new.last
    BY <1>2 DEF Writes, Lasts
  <2>2. From(new.last)
    BY <1>2 DEF Writes, Reason, From, Lasts
  <2> QED BY <2>1, <2>2 DEF From
<1>3. ASSUME NEW e, Plans(e) PROVE \A x \in Lasts' : From(x)
  <2>1. \A x \in Lasts' : x \in Lasts \/ x = NextRun(e)
    BY <1>3 DEF Plans, Lasts
  <2>2. From(NextRun(e))
    BY <1>3 DEF Plans, Creates, From
  <2> QED BY <2>1, <2>2 DEF From
<1> QED BY <1>1, <1>2, <1>3, ConfigSteps DEF ConfigStep

-----------------------------------------------------------------------------
(* What holds of any schedule.                                             *)

\* The jobs after a step were there before or are created in their window, and
\* so were the ones the cache knows.
LEMMA ExistingSteps ==
  ASSUME TypeOK, HorizonInv, JobsStep
  PROVE  /\ \A n \in Existing(jobs)' : n \in Existing(jobs)
              \/ \E e : Creates(e) /\ n = <<offer, NextRun(e)>>
         /\ \A n \in Existing(jobsSeen)' : n \in Existing(jobs) \cup Existing(jobsSeen)
<1>1. CASE Stays
  BY <1>1 DEF Stays, Existing
<1>2. ASSUME NEW e, Creates(e)
      PROVE  /\ \A n \in Existing(jobs)' : n \in Existing(jobs) \/ n = <<offer, NextRun(e)>>
             /\ Existing(jobsSeen)' = Existing(jobsSeen)
  BY <1>2 DEF Creates, Existing, TypeOK
<1>3. ASSUME NEW old, NEW done, Deletes(old, done)
      PROVE  /\ \A n \in Existing(jobs)' : n \in Existing(jobs)
             /\ Existing(jobsSeen)' = Existing(jobsSeen)
  BY <1>3 DEF Deletes, Existing
<1>4. ASSUME NEW k \in Names, Finishes(k)
      PROVE  /\ \A n \in Existing(jobs)' : n \in Existing(jobs)
             /\ Existing(jobsSeen)' = Existing(jobsSeen)
  BY <1>4 DEF Finishes, Existing, TypeOK
<1> QED BY <1>1, <1>2, <1>3, <1>4 DEF JobsStep

\* The clock does not go back.
LEMMA ClockSteps ==
  ASSUME TypeOK, JobsStep
  PROVE  /\ now' \in Nat /\ now' >= now
         /\ \A s \in Nat : Past(s) => Past(s)'
         /\ now' # now => jobs' = jobs /\ jobsSeen' = jobs
<1>1. now \in Nat /\ PinVersionWindow \in Nat /\ MaxSchedulingDelay \in Nat
  BY Instants
<1>2. now' = now \/ (now' = now + 1 /\ jobs' = jobs /\ jobsSeen' = jobs)
  BY DEF JobsStep, Stays, Creates, Deletes, Finishes
<1> QED BY <1>1, <1>2 DEF Past, Window

\* No step records a slot ahead of its window.
LEMMA LastsAhead ==
  ASSUME TypeOK, TimerInv, HorizonInv, [Next]_vars
  PROVE  \A x \in Lasts' : x \in Nat /\ x <= now + PinVersionWindow
<1> SUFFICES ASSUME NEW x \in Lasts' PROVE x \in Nat /\ x <= now + PinVersionWindow
  OBVIOUS
<1>0. now \in Nat /\ PinVersionWindow \in Nat
  BY Instants
<1>1. From(x)
  BY LastsSteps
<1>2. CASE x \in Lasts \cup {0}
  BY <1>0, <1>2, Instants DEF HorizonInv
<1>3. CASE \E n \in Names : IsLatest(n) /\ x = StartAfter(n)
  BY <1>3, Instants DEF HorizonInv, IsLatest
<1>4. CASE \E e : InWindow(e) /\ x = NextRun(e)
  BY <1>4, InWindowFacts
<1> QED BY <1>1, <1>2, <1>3, <1>4 DEF From

\* No step records a slot or creates a job ahead of its window.
LEMMA HorizonStep ==
  ASSUME TypeOK, TimerInv, HorizonInv, [Next]_vars PROVE HorizonInv'
<1> DEFINE Ahead(x) == x <= now + PinVersionWindow
<1>0. now \in Nat /\ PinVersionWindow \in Nat
  BY Instants
<1>1. JobsStep /\ now' \in Nat /\ now' >= now
  BY JobsSteps, ClockSteps
<1>2. \A x \in Lasts' : x \in Nat /\ Ahead(x)
  BY LastsAhead
<1>3. ASSUME NEW n \in Existing(jobs)' \cup Existing(jobsSeen)'
      PROVE  n[1] \in Offers /\ StartAfter(n) \in Nat /\ Ahead(StartAfter(n))
  <2>1. CASE n \in Existing(jobs) \cup Existing(jobsSeen)
    BY <2>1, Instants DEF HorizonInv, Existing
  <2>2. CASE \E e : Creates(e) /\ n = <<offer, NextRun(e)>>
    <3>1. PICK e : InWindow(e) /\ n = <<offer, NextRun(e)>>
      BY <2>2 DEF Creates
    <3>2. NextRun(e) \in Nat /\ Ahead(NextRun(e))
      BY <3>1, InWindowFacts
    <3> QED BY <3>1, <3>2 DEF StartAfter, TypeOK
  <2> QED BY <1>1, <2>1, <2>2, ExistingSteps
<1> QED BY <1>0, <1>1, <1>2, <1>3 DEF HorizonInv

\* What the cache knows of a job stays true or becomes the past.
LEMMA KnownStep ==
  ASSUME TypeOK, HorizonInv, KnownInv, JobsStep PROVE KnownInv'
<1>1. CASE Stays
  BY <1>1 DEF Stays, KnownInv, Existing
<1>2. ASSUME NEW e, Creates(e) PROVE KnownInv'
  <2>1. \A n \in Existing(jobsSeen) : n # <<offer, NextRun(e)>>
    BY <1>2, InWindowFacts, Instants DEF Creates, StartAfter, Existing
  <2>2. \A n \in Existing(jobsSeen) : jobs'[n] = jobs[n]
    BY <1>2, <2>1 DEF Creates, Existing, TypeOK
  <2> QED BY <1>2, <2>2 DEF KnownInv, Creates, Existing
<1>3. ASSUME NEW old, NEW done, Deletes(old, done) PROVE KnownInv'
  BY <1>3 DEF Deletes, KnownInv, Existing
<1>4. ASSUME NEW k \in Names, Finishes(k) PROVE KnownInv'
  <2>1. \A n \in Names : jobs'[n] = jobs[n] \/ (jobs[n] = "open" /\ jobs'[n] \in {"succeeded", "failed"})
    BY <1>4 DEF Finishes, TypeOK
  <2> QED BY <1>4, <2>1 DEF Finishes, KnownInv, Existing
<1> QED BY <1>1, <1>2, <1>3, <1>4 DEF JobsStep

\* A job that is new to the cache is in its window.
LEMMA UnseenStep ==
  ASSUME TypeOK, HorizonInv, UnseenInv, JobsStep PROVE UnseenInv'
<1>1. CASE now' # now
  BY <1>1, ClockSteps DEF UnseenInv
<1>2. CASE now' = now
  <2>1. \A s : Past(s)' <=> Past(s)
    BY <1>2 DEF Past
  <2>2. Existing(jobsSeen)' \in {Existing(jobsSeen), Existing(jobs)'}
    BY DEF JobsStep, Stays, Creates, Deletes, Finishes, Existing
  <2>3. ASSUME NEW n \in Existing(jobs)' \ Existing(jobsSeen)' PROVE ~Past(StartAfter(n))
    <3>1. CASE n \in Existing(jobs)
      BY <2>2, <2>3, <3>1 DEF UnseenInv
    <3>2. CASE \E e : Creates(e) /\ n = <<offer, NextRun(e)>>
      BY <3>2, InWindowFacts DEF Creates, StartAfter
    <3> QED BY <3>1, <3>2, ExistingSteps
  <2> QED BY <2>1, <2>3 DEF UnseenInv
<1> QED BY <1>1, <1>2

-----------------------------------------------------------------------------
(* Slots that are apart, and one offer.                                    *)

\* A slot on this side of the horizon has its window open.
LEMMA WindowOpen ==
  ASSUME TypeOK, NEW s \in Slots, s <= now + PinVersionWindow PROVE Window(s) <= now
<1>1. s \in Nat /\ now \in Nat /\ PinVersionWindow \in Nat
  BY Instants
<1> QED BY <1>1 DEF Window

\* When the window of a slot has opened the earlier ones are closed.
LEMMA Closed ==
  ASSUME TypeOK, Separated, NEW s \in Slots, NEW t \in Slots, s < t,
         t <= now + PinVersionWindow
  PROVE  Past(s)
<1>1. s \in Nat /\ t \in Nat /\ now \in Nat /\ PinVersionWindow \in Nat /\ MaxSchedulingDelay \in Nat
  BY Instants
<1>2. s + MaxSchedulingDelay < t
  BY DEF Separated
<1> QED BY <1>1, <1>2 DEF Past, Window

\* The next run is not before a slot that is already recorded.
LEMMA NotBefore ==
  ASSUME TypeOK, HorizonInv, Separated, NEW e, InWindow(e), NEW x \in Lasts
  PROVE  x <= NextRun(e)
<1>1. x \in Slots \cup {0} /\ x \in Nat /\ x <= now + PinVersionWindow
  BY Instants DEF HorizonInv
<1>2. NextRun(e) \in Slots /\ NextRun(e) \in Nat /\ ~Past(NextRun(e))
  BY InWindowFacts
<1>3. CASE x = 0
  BY <1>2, <1>3
<1>4. CASE x \in Slots
  BY <1>1, <1>2, <1>4, Closed
<1> QED BY <1>1, <1>3, <1>4

\* Jobs with the same name are the same job.
LEMMA SameName ==
  ASSUME NEW m \in Names, NEW n \in Names, m[1] = n[1], StartAfter(m) = StartAfter(n)
  PROVE  m = n
  BY DEF Names, StartAfter

\* While the offer holds a slot gets one job.
LEMMA SlotStep ==
  ASSUME TypeOK, HorizonInv, SlotInv, OfferHolds, JobsStep PROVE SlotInv'
<1> DEFINE E == Existing(jobs) \cup Existing(jobsSeen)
           E1 == Existing(jobs)' \cup Existing(jobsSeen)'
<1>1. ASSUME NEW n \in E1, n \notin E
      PROVE  \E e : Creates(e) /\ n = <<offer, NextRun(e)>>
  BY <1>1, ExistingSteps
<1>2. ASSUME NEW n \in E, ~Past(StartAfter(n)) PROVE n[1] = offer /\ offer' = offer
  <2>1. StartAfter(n) \in Slots /\ StartAfter(n) <= now + PinVersionWindow
    BY <1>2, Instants DEF Existing, HorizonInv
  <2>2. offer' = offer
    BY <1>2, <2>1, WindowOpen DEF OfferHolds, Opened
  <2> QED BY <1>2, <2>2 DEF SlotInv
<1>3. ASSUME NEW e, Creates(e)
      PROVE  /\ <<offer, NextRun(e)>> \in Names /\ StartAfter(<<offer, NextRun(e)>>) = NextRun(e)
             /\ ~Past(NextRun(e)) /\ offer' = offer
             /\ \A m \in E : StartAfter(m) = NextRun(e) => m = <<offer, NextRun(e)>>
             /\ \A m \in E1 : m \in E \/ m = <<offer, NextRun(e)>>
  <2>1. NextRun(e) \in Slots /\ ~Past(NextRun(e))
    BY <1>3, InWindowFacts DEF Creates
  <2>2. <<offer, NextRun(e)>> \in Names /\ StartAfter(<<offer, NextRun(e)>>) = NextRun(e)
    BY <2>1, ConfigAssumption DEF Names, StartAfter, TypeOK
  <2>3. \A m \in E : m \in Names
    BY DEF Existing
  <2>4. \A m \in E : StartAfter(m) = NextRun(e) => m = <<offer, NextRun(e)>>
    BY <1>2, <2>1, <2>2, <2>3, SameName
  <2>5. \A m \in E1 : m \in E \/ m = <<offer, NextRun(e)>>
    BY <1>3 DEF Creates, Existing, TypeOK
  <2> QED BY <1>3, <2>1, <2>2, <2>4, <2>5 DEF Creates
<1>4. ASSUME NEW m \in E1, NEW n \in E1, StartAfter(m) = StartAfter(n) PROVE m = n
  <2>1. CASE m \in E /\ n \in E
    BY <1>4, <2>1 DEF SlotInv
  <2>2. CASE ~(m \in E /\ n \in E)
    <3>1. PICK e : Creates(e) /\ (m = <<offer, NextRun(e)>> \/ n = <<offer, NextRun(e)>>)
      BY <1>1, <1>4, <2>2
    <3> QED BY <1>3, <1>4, <3>1
  <2> QED BY <2>1, <2>2
<1>5. ASSUME NEW n \in E1, ~Past(StartAfter(n)) PROVE n[1] = offer'
  BY <1>1, <1>2, <1>3, <1>5
<1>6. \A n \in E1 : Past(StartAfter(n)) => Past(StartAfter(n))'
  <2>1. \A n \in E1 : StartAfter(n) \in Nat
    BY Instants DEF Existing
  <2> QED BY <2>1, ClockSteps DEF StartAfter
<1> QED BY <1>4, <1>5, <1>6 DEF SlotInv, StartAfter

\* A job that is deleted is not among those to keep, of which there is one.
LEMMA SurplusFacts ==
  ASSUME NEW S, NEW old \in Surplus(S), NEW n \in old
  PROVE  \E keep \in SUBSET S : /\ Kept(S, keep) /\ old = S \ keep
                                /\ HistoryLimit # 0 /\ keep # {}
<1>1. HistoryLimit # 0
  BY DEF Surplus
<1>2. PICK keep \in SUBSET S : Kept(S, keep) /\ old = S \ keep
  BY DEF Surplus
<1>3. keep # {}
  BY <1>1, <1>2, FS_EmptySet DEF Kept
<1> QED BY <1>1, <1>2, <1>3

-----------------------------------------------------------------------------
(* The recorded slot.                                                      *)

\* What is written is not before what the copy says.
LEMMA ReasonGrows ==
  ASSUME TypeOK, HorizonInv, CopyInv, Separated, NEW x, Reason(x)
  PROVE  x \in Nat /\ luc.last <= x
<1>0. luc.last \in Lasts /\ luc.last \in Nat /\ slot \in Nat
  BY Instants DEF Lasts
<1>1. CASE x = luc.last
  BY <1>0, <1>1
<1>2. CASE \E n \in Names : IsLatest(n) /\ x = StartAfter(n) /\ x > luc.last
  BY <1>0, <1>2, Instants
<1>3. CASE \E e : InWindow(e) /\ x = NextRun(e)
  BY <1>0, <1>3, InWindowFacts, NotBefore
<1>4. CASE pc = "record" /\ x = slot
  BY <1>0, <1>4 DEF CopyInv
<1> QED BY <1>1, <1>2, <1>3, <1>4 DEF Reason

\* The copy stays ahead of the version it was read from.
LEMMA CopyStep ==
  ASSUME TypeOK, TimerInv, HorizonInv, CopyInv, Separated, [Next]_vars PROVE CopyInv'
<1>0. luc.last \in Nat /\ base.last \in Nat /\ slot \in Nat /\ ucSeen.last \in Nat /\ luc.last \in Lasts
  BY Instants DEF Lasts
<1>1. CASE Copies
  BY <1>0, <1>1, NewConfigOK DEF Copies, CopyInv
<1>2. ASSUME NEW new, Writes(new) PROVE CopyInv'
  <2>1. new.last \in Nat /\ luc.last <= new.last
    BY <1>2, ReasonGrows DEF Writes
  <2> QED BY <1>0, <1>2, <2>1 DEF Writes, CopyInv
<1>3. ASSUME NEW e, Plans(e) PROVE CopyInv'
  <2>1. luc.last <= NextRun(e)
    BY <1>0, <1>3, NotBefore DEF Plans, Creates
  <2> QED BY <1>3, <2>1 DEF Plans, CopyInv
<1> QED BY <1>1, <1>2, <1>3, ConfigSteps DEF ConfigStep

\* No step takes the recorded slot back.
LEMMA LastStep ==
  ASSUME TypeOK, TimerInv, HorizonInv, CopyInv, Separated, [Next]_vars PROVE uc'.last >= uc.last
<1>0. luc.last \in Nat /\ base.last \in Nat /\ uc.last \in Nat
  BY Instants DEF Lasts
<1>1. CASE Copies
  BY <1>0, <1>1 DEF Copies, TypeOK, UC
<1>2. ASSUME NEW new, Writes(new) PROVE uc'.last >= uc.last
  <2>1. new.last \in Nat /\ luc.last <= new.last
    BY <1>2, ReasonGrows DEF Writes
  <2> QED BY <1>0, <1>2, <2>1 DEF Writes, CopyInv
<1>3. ASSUME NEW e, Plans(e) PROVE uc'.last >= uc.last
  BY <1>0, <1>3 DEF Plans
<1> QED BY <1>1, <1>2, <1>3, ConfigSteps DEF ConfigStep

\* Nobody suspends the config.
LEMMA AwakeStep ==
  ASSUME TypeOK, TimerInv, AwakeInv, NoSuspension, [Next]_vars PROVE AwakeInv'
<1>1. CASE Copies
  BY <1>1 DEF Copies, AwakeInv, NoSuspension, NewConfig
<1>2. ASSUME NEW new, Writes(new) PROVE AwakeInv'
  BY <1>2 DEF Writes, AwakeInv
<1>3. ASSUME NEW e, Plans(e) PROVE AwakeInv'
  BY <1>3 DEF Plans, AwakeInv
<1> QED BY <1>1, <1>2, <1>3, ConfigSteps DEF ConfigStep

-----------------------------------------------------------------------------
(* The jobs.                                                               *)

\* The latest job is kept: no other one starts as late.
LEMMA LatestStep ==
  ASSUME TypeOK, SlotInv, LatestInv, JobsStep PROVE LatestInv'
<1>1. CASE Stays
  BY <1>1 DEF Stays, LatestInv, IsLatest, Existing
<1>2. ASSUME NEW e, Creates(e) PROVE LatestInv'
  <2>1. \A n \in Names : jobs[n] # "none" => jobs'[n] # "none"
    BY <1>2 DEF Creates, TypeOK
  <2> QED BY <1>2, <2>1 DEF Creates, LatestInv, IsLatest, Existing
<1>3. ASSUME NEW old, NEW done, Deletes(old, done) PROVE LatestInv'
  <2>1. ASSUME NEW n \in Existing(jobsSeen), IsLatest(n) PROVE n \notin done
    <3> SUFFICES ASSUME n \in old PROVE FALSE
      BY <1>3 DEF Deletes
    <3>1. PICK keep \in SUBSET Succeeded(jobsSeen) :
             /\ Kept(Succeeded(jobsSeen), keep) /\ old = Succeeded(jobsSeen) \ keep
             /\ HistoryLimit # 0 /\ keep # {}
      BY <1>3, SurplusFacts DEF Deletes
    <3>2. PICK m : m \in keep
      BY <3>1
    <3>3. StartAfter(m) >= StartAfter(n)
      BY <3>1, <3>2 DEF Kept
    <3>4. m \in Existing(jobsSeen) /\ m \in Names /\ n \in Names
      BY <3>1, <3>2 DEF Succeeded, Existing
    <3>5. StartAfter(m) <= StartAfter(n) /\ StartAfter(m) \in Nat /\ StartAfter(n) \in Nat
      BY <2>1, <3>4, Instants DEF IsLatest
    <3>6. m = n
      BY <2>1, <3>3, <3>4, <3>5 DEF SlotInv
    <3> QED BY <3>1, <3>2, <3>6
  <2>2. \A n \in Existing(jobsSeen) : IsLatest(n) => jobs'[n] # "none"
    BY <1>3, <2>1 DEF Deletes, LatestInv, Existing
  <2> QED BY <1>3, <2>2 DEF Deletes, LatestInv, IsLatest, Existing
<1>4. ASSUME NEW k \in Names, Finishes(k) PROVE LatestInv'
  <2>1. \A n \in Names : jobs[n] # "none" => jobs'[n] # "none"
    BY <1>4 DEF Finishes, TypeOK
  <2> QED BY <1>4, <2>1 DEF Finishes, LatestInv, IsLatest, Existing
<1> QED BY <1>1, <1>2, <1>3, <1>4 DEF JobsStep

\* A job is created only when the cache knows every other one.
LEMMA CreatesKnown ==
  ASSUME TypeOK, HorizonInv, UnseenInv, SlotInv, Separated, NEW e, Creates(e),
         NEW m \in Existing(jobs)
  PROVE  m \in Existing(jobsSeen) /\ StartAfter(m) < NextRun(e)
<1> DEFINE n == <<offer, NextRun(e)>>
<1>1. /\ NextRun(e) \in Slots /\ ~Past(NextRun(e)) /\ NextRun(e) <= now + PinVersionWindow
      /\ \A k \in Existing(jobsSeen) : StartAfter(k) < NextRun(e)
      /\ NextRun(e) \in Nat
  BY InWindowFacts DEF Creates
<1>2. n \in Names /\ StartAfter(n) = NextRun(e) /\ n[1] = offer /\ jobs[n] = "none"
  BY <1>1, ConfigAssumption DEF Creates, Names, StartAfter, TypeOK
<1>3. /\ m \in Names /\ StartAfter(m) \in Slots /\ StartAfter(m) \in Nat /\ m # n
      /\ StartAfter(m) <= now + PinVersionWindow
  BY <1>2, Instants DEF Existing, HorizonInv
<1> HIDE DEF n
<1>4. CASE m \notin Existing(jobsSeen)
  <2>1. ~Past(StartAfter(m))
    BY <1>4 DEF UnseenInv
  <2>2. StartAfter(m) = NextRun(e) /\ m[1] = offer
    BY <1>1, <1>3, <2>1, Closed DEF SlotInv
  <2> QED BY <1>2, <1>3, <2>2, SameName
<1> QED BY <1>1, <1>4

\* The open job is the latest one.
LEMMA OpenStep ==
  ASSUME TypeOK, HorizonInv, KnownInv, UnseenInv, SlotInv, LatestInv, OpenInv, Separated,
         JobsStep
  PROVE  OpenInv'
<1>1. CASE Stays
  BY <1>1 DEF Stays, OpenInv, Existing
<1>2. ASSUME NEW e, Creates(e) PROVE OpenInv'
  <2> DEFINE n == <<offer, NextRun(e)>>
  <2>1. \A m \in Existing(jobs) : m \in Existing(jobsSeen) /\ StartAfter(m) < NextRun(e)
    BY <1>2, CreatesKnown
  <2>2. ASSUME NEW m \in Names PROVE jobs[m] # "open"
    <3> SUFFICES ASSUME jobs[m] = "open" PROVE FALSE
      OBVIOUS
    <3>1. m \in Existing(jobs) /\ m \in Existing(jobsSeen)
      BY <2>1 DEF Existing
    <3>2. jobsSeen[m] = "open"
      BY <3>1 DEF KnownInv, Existing
    <3>3. PICK k \in Names : IsLatest(k) /\ ~WaitsFor(k)
      BY <1>2, <3>1 DEF Creates, InWindow, Ready
    <3>4. k \in Existing(jobsSeen) /\ k \in Existing(jobs)
      BY <3>3 DEF IsLatest, LatestInv, Existing
    <3>5. StartAfter(k) <= StartAfter(m) /\ StartAfter(m) <= StartAfter(k)
      BY <3>1, <3>3, <3>4 DEF OpenInv, IsLatest
    <3>6. StartAfter(k) = StartAfter(m)
      BY <3>5, Instants
    <3>7. k = m
      BY <3>1, <3>4, <3>6 DEF SlotInv
    <3> QED BY <3>2, <3>3, <3>7 DEF WaitsFor
  <2>3. \A m \in Names : jobs'[m] = IF m = n THEN "open" ELSE jobs[m]
    BY <1>2 DEF Creates, TypeOK
  <2>4. \A m \in Names : jobs'[m] = "open" => m = n
    BY <2>2, <2>3
  <2>5. \A m \in Existing(jobs)' : m \in Existing(jobs) \/ m = n
    BY <2>3 DEF Existing
  <2>6. StartAfter(n) = NextRun(e) /\ NextRun(e) \in Nat
    BY <1>2, InWindowFacts DEF StartAfter, Creates
  <2> HIDE DEF n
  <2>7. \A m \in Existing(jobs)' : StartAfter(m) <= StartAfter(n)
    BY <2>1, <2>5, <2>6, Instants DEF Existing
  <2> QED BY <2>4, <2>7 DEF OpenInv
<1>3. ASSUME NEW old, NEW done, Deletes(old, done) PROVE OpenInv'
  <2>1. \A n \in Names : jobs'[n] \in {"none", jobs[n]}
    BY <1>3 DEF Deletes
  <2> QED BY <2>1 DEF OpenInv, Existing
<1>4. ASSUME NEW k \in Names, Finishes(k) PROVE OpenInv'
  <2>1. \A n \in Names : jobs'[n] = jobs[n] \/ (jobs[n] = "open" /\ jobs'[n] \in {"succeeded", "failed"})
    BY <1>4 DEF Finishes, TypeOK
  <2> QED BY <2>1 DEF OpenInv, Existing
<1> QED BY <1>1, <1>2, <1>3, <1>4 DEF JobsStep

\* There is one open job.
LEMMA OneOpen == ASSUME TypeOK, SlotInv, OpenInv PROVE OneOpenJob
<1> SUFFICES ASSUME NEW m \in Names, NEW n \in Names, jobs[m] = "open", jobs[n] = "open" PROVE m = n
  BY DEF OneOpenJob
<1>1. m \in Existing(jobs) /\ n \in Existing(jobs)
  BY DEF Existing
<1>2. StartAfter(m) <= StartAfter(n) /\ StartAfter(n) <= StartAfter(m)
  BY <1>1 DEF OpenInv
<1>3. StartAfter(m) = StartAfter(n)
  BY <1>2, Instants
<1> QED BY <1>1, <1>3 DEF SlotInv

\* A job is deleted only when its window is over: a later one is kept.
LEMMA DeletedPast ==
  ASSUME TypeOK, HorizonInv, SlotInv, Separated, NEW old, NEW done, Deletes(old, done),
         NEW n \in done
  PROVE  n \in Existing(jobsSeen) /\ Past(StartAfter(n))
<1>1. PICK keep \in SUBSET Succeeded(jobsSeen) :
         /\ Kept(Succeeded(jobsSeen), keep) /\ old = Succeeded(jobsSeen) \ keep /\ keep # {}
  <2>1. n \in old /\ old \in Surplus(Succeeded(jobsSeen))
    BY DEF Deletes
  <2> QED BY <2>1, SurplusFacts
<1>2. PICK m : m \in keep
  BY <1>1
<1>3. n \in Succeeded(jobsSeen) \ keep
  BY <1>1 DEF Deletes
<1>4. StartAfter(m) >= StartAfter(n) /\ m # n
  BY <1>1, <1>2, <1>3 DEF Kept
<1>5. m \in Existing(jobsSeen) /\ m \in Names /\ n \in Existing(jobsSeen) /\ n \in Names
  BY <1>1, <1>2, <1>3 DEF Succeeded, Existing
<1>6. /\ StartAfter(m) \in Slots /\ StartAfter(n) \in Slots
      /\ StartAfter(m) \in Nat /\ StartAfter(n) \in Nat
  BY <1>5, Instants
<1>7. StartAfter(m) # StartAfter(n)
  BY <1>4, <1>5 DEF SlotInv
<1>8. StartAfter(n) < StartAfter(m) /\ StartAfter(m) <= now + PinVersionWindow
  BY <1>4, <1>5, <1>6, <1>7 DEF HorizonInv
<1> QED BY <1>5, <1>6, <1>8, Closed

\* No step clears a suspension that a window has met.
LEMMA SuspendStep ==
  ASSUME TypeOK, TimerInv, SuspendInv, SuspensionHolds, [Next]_vars PROVE SuspendInv'
<1>0. uc.suspend \in BOOLEAN /\ ucSeen.suspend \in BOOLEAN /\ luc.suspend \in BOOLEAN
  BY DEF TypeOK, UC
<1>1. base'.suspend = luc'.suspend
  BY ConfigSteps DEF ConfigStep, Copies, Writes, Plans, SuspendInv
<1>2. CASE Tick
  <2>1. ucSeen' = uc' /\ luc' = NewConfig
    BY <1>2 DEF Tick, TimerInv, caches, worker
  <2> QED BY <1>1, <2>1 DEF SuspendInv, NewConfig
<1>3. CASE ~Tick
  <2>1. UNCHANGED now
    BY <1>3 DEF Next, ScheduleJob, Environment, Begin, UpdateNext, CleanupJobs, Repair, Busy, GiveUp,
           NotYet, SkipSlot, CreateJob, Record, ScheduleFails, Restart, Deliver, Wake,
           OfferChanges, SwitchSuspend, JobFinishes, vars
  <2>2. Opened' => Opened
    BY <2>1 DEF Opened, Past
  <2>3. ASSUME Opened PROVE (ucSeen'.suspend => uc'.suspend) /\ (luc'.suspend => ucSeen'.suspend)
    <3>0. /\ ucSeen.suspend => uc.suspend
          /\ luc.suspend => ucSeen.suspend
          /\ uc.suspend => uc'.suspend
          /\ ~NewConfig.suspend
      BY <2>3 DEF SuspendInv, SuspensionHolds, NewConfig
    <3>1. CASE Copies
      BY <3>0, <3>1 DEF Copies
    <3>2. ASSUME NEW new, Writes(new)
          PROVE (ucSeen'.suspend => uc'.suspend) /\ (luc'.suspend => ucSeen'.suspend)
      BY <3>0, <3>2 DEF Writes
    <3>3. ASSUME NEW e, Plans(e)
          PROVE (ucSeen'.suspend => uc'.suspend) /\ (luc'.suspend => ucSeen'.suspend)
      BY <3>0, <3>3 DEF Plans
    <3> QED BY <3>1, <3>2, <3>3, ConfigSteps DEF ConfigStep
  <2> QED BY <1>1, <2>2, <2>3 DEF SuspendInv
<1> QED BY <1>2, <1>3

\* A suspension outlasts the window it has met.
LEMMA HaltedStep ==
  ASSUME TypeOK, TimerInv, SuspendInv, Lasting, [Next]_vars,
         NEW x \in Slots, Window(x) <= now, ~Past(x)', Halted
  PROVE  Halted'
<1>0. x \in Nat /\ now \in Nat /\ PinVersionWindow \in Nat /\ MaxSchedulingDelay \in Nat
  BY Instants
<1>1. (now' = now \/ now' = now + 1) /\ ~Past(x)
  <2>1. JobsStep
    BY JobsSteps
  <2>2. now' = now \/ now' = now + 1
    BY <2>1 DEF JobsStep, Stays, Creates, Deletes, Finishes
  <2> QED BY <1>0, <2>1, <2>2, ClockSteps
<1>2. CASE now \in SuspendedAt
  <2>1. CASE now' = now
    BY <1>2, <2>1 DEF Halted
  <2>2. CASE now' = now + 1
    <3>1. now < Window(x) + MaxSchedulingDelay
      BY <1>0, <2>2 DEF Past, Window
    <3> QED BY <1>2, <2>2, <3>1 DEF Halted, Lasting
  <2> QED BY <1>1, <2>1, <2>2
<1>3. CASE ucSeen.suspend /\ (pc # "idle" => luc.suspend)
  <2>1. uc.suspend
    BY <1>1, <1>3 DEF SuspendInv, Opened
  <2>2. CASE Copies
    BY <1>3, <2>1, <2>2 DEF Copies, Halted
  <2>3. ASSUME NEW new, Writes(new) PROVE Halted'
    BY <1>3, <2>3 DEF Writes, Halted
  <2>4. ASSUME NEW e, Plans(e) PROVE Halted'
    BY <1>3, <2>4 DEF Plans, Creates, InWindow, Ready, Halted
  <2> QED BY <2>2, <2>3, <2>4, ConfigSteps DEF ConfigStep
<1> QED BY <1>2, <1>3 DEF Halted

\* A slot that is recorded or known keeps its job while its window lasts.
LEMMA DecidedStep ==
  ASSUME TypeOK, TimerInv, HorizonInv, SlotInv, SuspendInv, DecidedInv,
         Separated, Lasting, OfferHolds, [Next]_vars
  PROVE  DecidedInv'
<1>0. JobsStep
  BY JobsSteps
<1>1. \A s \in Nat : Past(s) => Past(s)'
  BY <1>0, ClockSteps
<1>2. ASSUME NEW x \in Lasts', x \in Slots, ~Past(x) PROVE offer' = offer
  BY <1>2, LastsAhead, WindowOpen DEF OfferHolds, Opened
<1>3. ASSUME NEW n \in Names, ~Past(StartAfter(n)), jobs[n] # "none" PROVE jobs'[n] # "none"
  <2>1. CASE Stays
    BY <1>3, <2>1 DEF Stays
  <2>2. ASSUME NEW e, Creates(e) PROVE jobs'[n] # "none"
    BY <1>3, <2>2 DEF Creates, TypeOK
  <2>3. ASSUME NEW old, NEW done, Deletes(old, done) PROVE jobs'[n] # "none"
    BY <1>3, <2>3, DeletedPast DEF Deletes
  <2>4. ASSUME NEW k \in Names, Finishes(k) PROVE jobs'[n] # "none"
    BY <1>3, <2>4 DEF Finishes, TypeOK
  <2> QED BY <1>0, <2>1, <2>2, <2>3, <2>4 DEF JobsStep
<1>4. ASSUME NEW x \in Lasts', x \in Slots, ~Past(x)'
      PROVE  jobs'[<<offer, x>>] # "none" \/ Halted'
  <2>p. ~Past(x)
    BY <1>1, <1>4, ConfigAssumption
  <2>w. Window(x) <= now
    BY <1>4, LastsAhead, WindowOpen
  <2>0. <<offer, x>> \in Names /\ StartAfter(<<offer, x>>) = x /\ x \in Nat /\ x # 0
    BY <1>4, ConfigAssumption DEF Names, StartAfter, TypeOK
  <2>1. From(x)
    BY LastsSteps
  <2>2. CASE x \in Lasts \cup {0}
    <3>1. jobs[<<offer, x>>] # "none" \/ Halted
      BY <1>4, <2>0, <2>2, <2>p DEF DecidedInv
    <3> QED BY <1>3, <1>4, <2>0, <2>p, <2>w, <3>1, HaltedStep
  <2>3. CASE \E n \in Names : IsLatest(n) /\ x = StartAfter(n)
    <3>1. PICK n \in Existing(jobsSeen) : x = StartAfter(n)
      BY <2>3 DEF IsLatest
    <3>2. n \in Names /\ jobs[n] # "none" /\ n[1] = offer
      BY <2>p, <3>1 DEF DecidedInv, Existing, SlotInv
    <3>3. n = <<offer, x>>
      BY <2>0, <3>1, <3>2, SameName
    <3> QED BY <1>3, <2>p, <3>1, <3>2, <3>3
  <2>4. CASE \E e : InWindow(e) /\ x = NextRun(e) /\ (Suspended \/ Creates(e))
    <3>1. CASE Suspended
      <4>1. Halted
        BY <1>4, <2>p, <2>w, <3>1 DEF Suspended, Halted, SuspendInv, Opened
      <4> QED BY <1>4, <2>w, <4>1, HaltedStep
    <3>2. ASSUME NEW e, x = NextRun(e), Creates(e) PROVE jobs'[<<offer, x>>] # "none"
      BY <2>0, <3>2 DEF Creates, TypeOK
    <3> QED BY <2>4, <3>1, <3>2
  <2> QED BY <2>1, <2>2, <2>3, <2>4 DEF From
<1>5. ASSUME NEW n \in Existing(jobsSeen)', ~Past(StartAfter(n)) PROVE jobs'[n] # "none"
  <2>1. CASE n \in Existing(jobs) \cup Existing(jobsSeen)
    <3>1. n \in Names /\ jobs[n] # "none"
      BY <1>5, <2>1 DEF Existing, DecidedInv
    <3> QED BY <1>3, <1>5, <3>1
  <2> QED BY <1>0, <2>1, ExistingSteps
<1>6. \A x \in Lasts' \cap Slots : ~Past(x)' => jobs'[<<offer', x>>] # "none" \/ Halted'
  BY <1>1, <1>2, <1>4, Instants
<1>7. \A n \in Existing(jobsSeen)' : ~Past(StartAfter(n))' => jobs'[n] # "none"
  BY <1>1, <1>5, Instants DEF Existing
<1> QED BY <1>6, <1>7 DEF DecidedInv

\* No job is created for a slot that is recorded.
LEMMA DecidedOnceStep ==
  ASSUME TypeOK, HorizonInv, DecidedInv, Separated, JobsStep,
         NEW n \in Names, jobs[n] = "none", jobs'[n] # "none"
  PROVE  uc.last < StartAfter(n)
<1>1. PICK e : Creates(e)
  BY DEF JobsStep, Stays, Deletes, Finishes, TypeOK
<1>2. n = <<offer, NextRun(e)>> /\ StartAfter(n) = NextRun(e)
  BY <1>1 DEF Creates, TypeOK, StartAfter
<1>3. uc.last \in Lasts /\ uc.last \in Nat
  BY Instants DEF Lasts
<1>4. NextRun(e) \in Slots /\ NextRun(e) \in Nat /\ ~Past(NextRun(e)) /\ uc.last <= NextRun(e)
  BY <1>1, <1>3, InWindowFacts, NotBefore DEF Creates
<1>5. uc.last # NextRun(e)
  <2>1. ~Halted
    BY <1>1 DEF Creates, InWindow, Ready, Suspended, Halted
  <2> QED BY <1>2, <1>3, <1>4, <2>1 DEF DecidedInv
<1> QED BY <1>2, <1>3, <1>4, <1>5

\* There is one way to keep the newest jobs.
LEMMA OneKept ==
  ASSUME NEW S \in SUBSET Names, IsFiniteSet(S),
         \A m, n \in S : StartAfter(m) = StartAfter(n) => m = n,
         NEW k \in SUBSET S, Kept(S, k), NEW l \in SUBSET S, Kept(S, l)
  PROVE  k = l
<1>0. IsFiniteSet(k) /\ IsFiniteSet(l) /\ Cardinality(k) = Cardinality(l)
  BY FS_Subset DEF Kept
<1>1. CASE k \subseteq l
  BY <1>0, <1>1, FS_Subset
<1>2. CASE l \subseteq k
  BY <1>0, <1>2, FS_Subset
<1>3. CASE ~(k \subseteq l) /\ ~(l \subseteq k)
  <2>1. PICK m \in k : m \notin l
    BY <1>3
  <2>2. PICK n \in l : n \notin k
    BY <1>3
  <2>3. StartAfter(m) >= StartAfter(n) /\ StartAfter(n) >= StartAfter(m)
    BY <2>1, <2>2 DEF Kept
  <2>4. StartAfter(m) \in Nat /\ StartAfter(n) \in Nat
    BY ConfigAssumption DEF Names, StartAfter
  <2>5. StartAfter(m) = StartAfter(n)
    BY <2>3, <2>4
  <2> QED BY <2>1, <2>2, <2>5
<1> QED BY <1>1, <1>2, <1>3

\* The clean-up leaves the jobs it counted as newest.
LEMMA DeletesOthers ==
  ASSUME TypeOK, SlotInv, KeptInv, NEW old, NEW done, Deletes(old, done),
         NEW keep \in SUBSET Succeeded(jobsSeen), Kept(Succeeded(jobsSeen), keep)
  PROVE  keep \cap done = {} /\ keep \subseteq Succeeded(jobs)'
<1> DEFINE S == Succeeded(jobsSeen)
<1>1. S \in SUBSET Names /\ S \subseteq Existing(jobsSeen)
  BY DEF Succeeded, Existing
<1>2. IsFiniteSet(S) /\ \A m, n \in S : StartAfter(m) = StartAfter(n) => m = n
  BY <1>1, FS_Subset DEF KeptInv, SlotInv
<1>3. keep \cap done = {}
  <2> SUFFICES ASSUME NEW n \in keep \cap done PROVE FALSE
    OBVIOUS
  <2>1. n \in old /\ old \in Surplus(S)
    BY DEF Deletes
  <2>2. PICK k \in SUBSET S : Kept(S, k) /\ old = S \ k
    BY <2>1, SurplusFacts
  <2>3. k = keep
    BY <1>1, <1>2, <2>2, OneKept
  <2> QED BY <2>1, <2>2, <2>3
<1>4. keep \subseteq Succeeded(jobs)
  BY DEF KeptInv
<1> QED BY <1>3, <1>4 DEF Deletes, Succeeded

\* The jobs to keep stay.
LEMMA KeptStep ==
  ASSUME TypeOK, HorizonInv, SlotInv, KeptInv, JobsStep PROVE KeptInv'
<1>1. IsFiniteSet(Existing(jobs)') /\ IsFiniteSet(Existing(jobsSeen)')
  <2>1. IsFiniteSet(Existing(jobs)')
    <3>1. CASE \E e : Creates(e)
      <4>1. PICK e : Creates(e)
        BY <3>1
      <4>2. Existing(jobs)' \in SUBSET (Existing(jobs) \cup {<<offer, NextRun(e)>>})
        BY <4>1 DEF Creates, Existing, TypeOK
      <4>3. IsFiniteSet(Existing(jobs) \cup {<<offer, NextRun(e)>>})
        BY FS_AddElement DEF KeptInv
      <4> QED BY <4>2, <4>3, FS_Subset
    <3>2. CASE ~ \E e : Creates(e)
      <4>1. Existing(jobs)' \in SUBSET Existing(jobs)
        BY <3>2, ExistingSteps
      <4> QED BY <4>1, FS_Subset DEF KeptInv
    <3> QED BY <3>1, <3>2
  <2>2. Existing(jobsSeen)' \in {Existing(jobsSeen), Existing(jobs)'}
    BY DEF JobsStep, Stays, Creates, Deletes, Finishes, Existing
  <2> QED BY <2>1, <2>2 DEF KeptInv
<1>2. ASSUME NEW keep \in SUBSET Succeeded(jobsSeen)', Kept(Succeeded(jobsSeen)', keep)
      PROVE  keep \subseteq Succeeded(jobs)'
  <2>1. CASE jobsSeen' = jobs'
    BY <1>2, <2>1 DEF Succeeded
  <2>2. CASE jobsSeen' = jobsSeen
    <3>1. /\ keep \in SUBSET Succeeded(jobsSeen) /\ Kept(Succeeded(jobsSeen), keep)
          /\ keep \subseteq Succeeded(jobs)
      BY <1>2, <2>2 DEF Succeeded, KeptInv
    <3>2. ASSUME NEW old, NEW done, Deletes(old, done) PROVE keep \subseteq Succeeded(jobs)'
      BY <3>1, <3>2, DeletesOthers
    <3>3. ASSUME \A old, done : ~Deletes(old, done), NEW n \in Succeeded(jobs) PROVE n \in Succeeded(jobs)'
      BY <3>3 DEF JobsStep, Stays, Creates, Finishes, Succeeded, TypeOK
    <3> QED BY <3>1, <3>2, <3>3
  <2> QED BY <2>1, <2>2 DEF JobsStep, Stays, Creates, Deletes, Finishes
<1> QED BY <1>1, <1>2 DEF KeptInv, Succeeded, Existing, Kept

\* What is deleted has succeeded and leaves as many newer ones as the limit.
LEMMA NewestStep ==
  ASSUME TypeOK, HorizonInv, KnownInv, SlotInv, KeptInv, JobsStep,
         NEW n \in Names, jobs[n] # "none", jobs'[n] = "none"
  PROVE  /\ jobs[n] = "succeeded"
         /\ HistoryLimit <= Cardinality({m \in Succeeded(jobs') \ {n} :
                                           StartAfter(m) >= StartAfter(n)})
<1> DEFINE S == Succeeded(jobsSeen)
           newer == {m \in Succeeded(jobs') \ {n} : StartAfter(m) >= StartAfter(n)}
<1>1. PICK old, done : Deletes(old, done)
  BY DEF JobsStep, Stays, Creates, Finishes, TypeOK
<1>2. n \in done /\ n \in old /\ old \in Surplus(S)
  BY <1>1 DEF Deletes
<1>3. PICK keep \in SUBSET S : Kept(S, keep) /\ old = S \ keep
  BY <1>2, SurplusFacts
<1>4. jobs[n] = "succeeded"
  <2>1. n \in Existing(jobsSeen) /\ jobsSeen[n] = "succeeded"
    BY <1>2, <1>3 DEF Succeeded, Existing
  <2> QED BY <2>1 DEF KnownInv
<1>5. keep \cap done = {} /\ keep \subseteq Succeeded(jobs')
  BY <1>1, <1>3, DeletesOthers DEF Succeeded
<1>6. \A m \in keep : StartAfter(m) >= StartAfter(n)
  BY <1>2, <1>3 DEF Kept
<1>7. keep \in SUBSET newer
  BY <1>2, <1>5, <1>6
<1>8. IsFiniteSet(newer)
  <2>1. newer \in SUBSET Existing(jobs)
    BY <1>1 DEF Deletes, Succeeded, Existing
  <2> QED BY <2>1, FS_Subset DEF KeptInv
<1>9. Cardinality(keep) <= Cardinality(newer) /\ Cardinality(keep) = HistoryLimit
  BY <1>3, <1>7, <1>8, FS_Subset DEF Kept
<1> QED BY <1>4, <1>9

\* A clean-up that is not repeated and of which nothing is left to be delivered
\* has found nothing to delete; a job that ends always has an event.
LEMMA TrimStep ==
  ASSUME TypeOK, KnownInv, TrimInv, [Next]_vars PROVE TrimInv'
<1> SUFFICES ASSUME pc' = "idle", ~queued', jobsSeen' = jobs', HistoryLimit > 0
             PROVE  Cardinality(Succeeded(jobs')) <= HistoryLimit
  BY DEF TrimInv, Succeeded
<1>1. CASE UNCHANGED <<pc, queued, jobs, jobsSeen>>
  BY <1>1 DEF TrimInv
<1>2. CASE CleanupJobs
  <2>1. PICK old \in Surplus(Succeeded(jobsSeen)) : \E done \in SUBSET old :
           /\ jobs' = [n \in Names |-> IF n \in done THEN "none" ELSE jobs[n]]
           /\ ~(err \/ done # old \/ \E n \in old : jobs[n] = "none")
    BY <1>2 DEF CleanupJobs
  <2>2. jobs' = [n \in Names |-> IF n \in old THEN "none" ELSE jobs[n]]
    BY <2>1
  <2>3. old \subseteq Succeeded(jobsSeen) /\ jobsSeen' = jobsSeen
    BY <1>2, <2>1 DEF CleanupJobs, Surplus, caches
  <2>4. old = {}
    BY <2>2, <2>3 DEF Succeeded
  <2>5. CASE Cardinality(Succeeded(jobsSeen)) <= HistoryLimit
    BY <2>3, <2>5
  <2>6. CASE ~(Cardinality(Succeeded(jobsSeen)) <= HistoryLimit)
    <3>1. PICK keep \in SUBSET Succeeded(jobsSeen) :
            Kept(Succeeded(jobsSeen), keep) /\ old = Succeeded(jobsSeen) \ keep
      BY <2>1, <2>6, ConfigAssumption DEF Surplus
    <3>2. keep = Succeeded(jobsSeen)
      BY <2>4, <3>1
    <3> QED BY <2>6, <3>1, <3>2, ConfigAssumption DEF Kept
  <2> QED BY <2>5, <2>6
<1>3. ASSUME NEW n \in Names, JobFinishes(n) PROVE FALSE
  <2>1. jobs[n] = "open" /\ jobs'[n] \in {"succeeded", "failed"} /\ UNCHANGED jobsSeen
    BY <1>3 DEF JobFinishes, TypeOK, caches
  <2> QED BY <2>1 DEF KnownInv, Existing
<1>4. ~Restart /\ ~Deliver /\ ~Wake
  BY DEF Restart, Deliver, Wake
<1>5. CASE Tick \/ OfferChanges \/ SwitchSuspend \/ UNCHANGED vars
  BY <1>1, <1>5 DEF Tick, OfferChanges, SwitchSuspend, caches, queue, worker, vars
<1>6. ~Begin /\ ~UpdateNext /\ ~ScheduleJob
  BY DEF Begin, UpdateNext, ScheduleJob, Repair, Busy, GiveUp, NotYet, SkipSlot, CreateJob,
         Record, ScheduleFails
<1> QED BY <1>2, <1>3, <1>4, <1>5, <1>6 DEF Next, Environment

-----------------------------------------------------------------------------
(* The timers.                                                             *)

\* The search finds the first slot that is not past.
LEMMA NextRunFirst ==
  ASSUME TypeOK, NEW e \in Nat, NEW s \in Slots, s > e, ~Past(s) PROVE NextRun(e) <= s
<1> DEFINE S == {t \in Slots : t > e /\ ~Past(t)}
<1>1. S \in SUBSET Nat /\ s \in S
  BY ConfigAssumption
<1>2. First(S) <= s
  BY <1>1, FirstFacts
<1> QED BY <1>2 DEF NextRun

\* The upcoming slot is the first of those ahead.
LEMMA UpcomingFirst ==
  ASSUME NEW t \in 0..MaxTime
  PROVE  /\ Upcoming(t) \in Slots /\ Upcoming(t) \in Nat /\ Upcoming(t) > t
         /\ \A s \in Slots : s > t => Upcoming(t) <= s
<1> DEFINE S == {s \in Slots : s > t}
<1>0. /\ Slots \subseteq Nat /\ t \in Nat /\ t <= MaxTime
      /\ PinVersionWindow \in Nat /\ MaxTime \in Nat
  BY ConfigAssumption
<1>1. PICK s \in Slots : s > MaxTime + PinVersionWindow
  BY ConfigAssumption
<1>2. s \in S
  BY <1>0, <1>1
<1>3. S \in SUBSET Nat /\ S # {}
  BY <1>0, <1>2
<1>4. First(S) \in S /\ \A u \in S : First(S) <= u
  BY <1>3, FirstFacts
<1> QED BY <1>0, <1>4 DEF Upcoming

\* An earlier timer is as good.
LEMMA ChanceEarlier ==
  ASSUME TypeOK, NEW W \in SUBSET Nat, NEW w \in Nat, \A v \in W : w <= v, Chance(W)
  PROVE  Chance({w})
<1>1. CASE Blocked
  BY <1>1 DEF Chance
<1>2. ASSUME NEW s \in Slots, NEW v \in W, v <= Window(s) + MaxSchedulingDelay
      PROVE  w <= Window(s) + MaxSchedulingDelay
  <2>1. Window(s) + MaxSchedulingDelay \in Int
    BY ConfigAssumption DEF Window
  <2>2. v \in Nat /\ w <= v
    OBVIOUS
  <2> QED BY <1>2, <2>1, <2>2
<1> QED BY <1>1, <1>2 DEF Chance

\* The cache stays behind the recorded slot.
LEMMA SeenStep ==
  ASSUME TypeOK, TimerInv, HorizonInv, CopyInv, SeenInv, Separated, [Next]_vars PROVE SeenInv'
<1>1. ucSeen' \in {ucSeen, uc}
  BY ConfigSteps DEF ConfigStep, Copies, Writes, Plans
<1>2. uc'.last >= uc.last
  BY LastStep
<1>3. uc.last \in Nat /\ ucSeen.last \in Nat
  BY Instants DEF Lasts
<1>4. (TypeOK /\ TimerInv)'
  BY TypeStep
<1>5. uc'.last \in Slots \cup {0}
  BY <1>4 DEF TypeOK, UC
<1>6. uc'.last \in Nat
  <2>1. CASE uc'.last \in Slots
    BY <2>1, ConfigAssumption
  <2> QED BY <1>5, <2>1
<1> QED BY <1>1, <1>2, <1>3, <1>6 DEF SeenInv

\* Jobs that are created, end or are deleted have an event.
LEMMA EventStep ==
  ASSUME TypeOK, HorizonInv, KnownInv, JobsStep, jobsSeen' = jobs', jobsSeen' = jobsSeen
  PROVE  jobs' = jobs
<1>1. CASE Stays
  BY <1>1 DEF Stays
<1>2. ASSUME NEW e, Creates(e) PROVE FALSE
  <2>1. NextRun(e) \in Slots /\ \A n \in Existing(jobsSeen) : StartAfter(n) < NextRun(e)
        /\ NextRun(e) \in Nat
    BY <1>2, InWindowFacts DEF Creates
  <2>2. <<offer, NextRun(e)>> \in Names /\ StartAfter(<<offer, NextRun(e)>>) = NextRun(e)
    BY <2>1, ConfigAssumption DEF Names, StartAfter, TypeOK
  <2>3. jobs'[<<offer, NextRun(e)>>] = "open"
    BY <1>2, <2>2 DEF Creates, TypeOK
  <2>4. <<offer, NextRun(e)>> \in Existing(jobsSeen)
    BY <2>2, <2>3 DEF Existing
  <2> QED BY <2>1, <2>2, <2>4
<1>3. ASSUME NEW old, NEW done, Deletes(old, done) PROVE jobs' = jobs
  <2>1. old \subseteq Succeeded(jobsSeen)
    BY <1>3 DEF Deletes, Surplus
  <2>2. done = {}
    BY <1>3, <2>1 DEF Deletes, Succeeded
  <2> QED BY <1>3, <2>2 DEF Deletes, TypeOK
<1>4. ASSUME NEW n \in Names, Finishes(n) PROVE FALSE
  <2>1. jobs[n] = "open" /\ jobs'[n] \in {"succeeded", "failed"}
    BY <1>4 DEF Finishes, TypeOK
  <2> QED BY <2>1 DEF KnownInv, Existing
<1> QED BY <1>1, <1>2, <1>3, <1>4 DEF JobsStep

\* A step after which nothing is pending has changed nothing that matters.
LEMMA PendingStep ==
  ASSUME BasicInv, CopyInv, SeenInv, Separated, [Next]_vars, ~Begin, ~Pending'
  PROVE  /\ ~Pending /\ UNCHANGED <<jobs, jobsSeen, ucSeen>> /\ uc'.last = uc.last
         /\ ~err' /\ ~ScheduleFails /\ ~Restart /\ ~Deliver /\ ~Wake
<1>0. TypeOK /\ TimerInv /\ HorizonInv /\ KnownInv
  BY DEF BasicInv
<1>1. ~queued' /\ ~err' /\ ucSeen'.last = uc'.last /\ jobsSeen' = jobs'
  BY DEF Pending
<1>2. ~ScheduleFails /\ ~Restart /\ ~Deliver /\ ~Wake
  BY <1>1 DEF ScheduleFails, Restart, Deliver, Wake
<1>3. UNCHANGED <<ucSeen, jobsSeen>>
  BY <1>2 DEF Next, ScheduleJob, Environment, UpdateNext, CleanupJobs, Repair, Busy, GiveUp,
              NotYet, SkipSlot, CreateJob, Record, Tick, OfferChanges, SwitchSuspend,
              JobFinishes, caches, vars
<1>4. jobs' = jobs /\ jobsSeen = jobs
  BY <1>0, <1>1, <1>3, JobsSteps, EventStep
<1>5. ~queued
  BY <1>1, <1>2 DEF Next, ScheduleJob, Environment, Begin, UpdateNext, CleanupJobs, Repair, Busy,
              GiveUp, NotYet, SkipSlot, CreateJob, Record, Tick, OfferChanges, SwitchSuspend,
              JobFinishes, queue, vars
<1>6. ~err
  <2>1. ASSUME NEW new, UpdateStatus(new), err PROVE err'
    BY <2>1 DEF UpdateStatus
  <2>2. CASE CleanupJobs
    BY <1>1, <2>2 DEF CleanupJobs
  <2> QED BY <1>1, <1>2, <2>1, <2>2
       DEF Next, ScheduleJob, Environment, Begin, UpdateNext, Repair, Busy,
              GiveUp, NotYet, SkipSlot, CreateJob, Record, Tick, OfferChanges, SwitchSuspend,
              JobFinishes, worker, vars
<1>7. uc'.last = uc.last /\ ucSeen.last = uc.last
  <2>1. uc'.last >= uc.last /\ ucSeen.last <= uc.last /\ ucSeen.last = uc'.last
    BY <1>0, <1>1, <1>3, LastStep DEF SeenInv
  <2>2. uc.last \in Nat /\ ucSeen.last \in Nat
    BY <1>0, Instants DEF Lasts
  <2> QED BY <2>1, <2>2
<1> QED BY <1>1, <1>2, <1>3, <1>4, <1>5, <1>6, <1>7 DEF Pending

\* What scheduleJob has found leaves every slot its chance.
LEMMA ScheduleChance ==
  ASSUME BasicInv, CopyInv, SeenInv, ChanceInv, Separated, Spaced \/ (NoSuspension /\ AwakeInv),
         [Next]_vars, ~GiveUp, pc = "schedule", pc' = "status", ~Pending'
  PROVE  Chance(wait \cup {Upcoming(now)})'
<1>0. /\ TypeOK /\ HorizonInv /\ ~Begin
      /\ now \in Nat /\ PinVersionWindow \in Nat /\ MaxSchedulingDelay \in Nat /\ Slots \subseteq Nat
      /\ uc.last \in Nat /\ luc.last \in Nat /\ luc.last \in Lasts
  BY Instants DEF BasicInv, Begin, Lasts
<1>1. /\ ~Pending /\ UNCHANGED <<jobs, jobsSeen>> /\ uc'.last = uc.last /\ ~err'
      /\ ~ScheduleFails /\ ~Restart /\ ~Deliver /\ ~Wake
  BY <1>0, PendingStep
<1>2. luc.last = uc.last /\ jobsSeen = jobs
  BY <1>1 DEF ChanceInv, Pending
<1>3. ASSUME NEW new, UpdateStatus(new) PROVE new.last = luc.last
  BY <1>1, <1>2, <1>3 DEF UpdateStatus
<1>4. UNCHANGED now /\ (Busy \/ NotYet \/ SkipSlot)
  <2>1. ~Repair
    <3> SUFFICES ASSUME Repair PROVE FALSE
      OBVIOUS
    <3>1. PICK n \in Names : StartAfter(n) > luc.last /\ UpdateStatus([luc EXCEPT !.last = StartAfter(n)])
      BY DEF Repair
    <3>2. [luc EXCEPT !.last = StartAfter(n)].last = StartAfter(n)
      BY <1>0 DEF TypeOK, UC
    <3>3. StartAfter(n) = luc.last /\ StartAfter(n) \in Nat
      BY <1>0, <1>3, <3>1, <3>2, Instants
    <3> QED BY <3>1, <3>3
  <2>2. ~CreateJob
    <3> SUFFICES ASSUME CreateJob PROVE FALSE
      OBVIOUS
    <3>1. PICK e \in Slots \cup {0} :
            /\ InWindow(e) /\ jobs[<<offer, NextRun(e)>>] = "none"
            /\ jobs' = [jobs EXCEPT ![<<offer, NextRun(e)>>] = "open"]
      BY <1>1 DEF CreateJob
    <3>2. <<offer, NextRun(e)>> \in Names
      BY <1>0, <3>1, InWindowFacts, ConfigAssumption DEF Names, TypeOK
    <3> QED BY <1>0, <1>1, <3>1, <3>2 DEF TypeOK
  <2> QED BY <1>0, <1>1, <2>1, <2>2
       DEF Next, ScheduleJob, Environment, UpdateNext, CleanupJobs, Busy, NotYet, SkipSlot, Record,
           Tick, OfferChanges, SwitchSuspend, JobFinishes, worker, vars
<1>5. \A s : Past(s)' <=> Past(s)
  BY <1>4 DEF Past
<1>6. CASE Busy
  <2>1. PICK n \in Names : IsLatest(n) /\ WaitsFor(n)
    BY <1>6 DEF Busy
  <2>2. Blocked'
    BY <1>1, <1>2, <1>4, <2>1 DEF Blocked, IsLatest, WaitsFor, Existing
  <2> QED BY <2>2 DEF Chance
<1>7. CASE NotYet
  <2>1. PICK e \in Slots \cup {0} : Ready(e) /\ wait' = {Window(NextRun(e))}
    BY <1>7 DEF NotYet
  <2>2. e \in Nat /\ e <= now + PinVersionWindow
    BY <1>0, <2>1, ReadyFacts
  <2>3. e <= luc.last
    BY <1>0, <2>1 DEF Ready
  <2>4. ASSUME NEW s \in Slots, s > uc'.last, ~Past(s)'
        PROVE  Window(NextRun(e)) <= Window(s) + MaxSchedulingDelay
    <3>1. s > e /\ ~Past(s) /\ s \in Nat
      BY <1>0, <1>1, <1>2, <1>5, <2>2, <2>3, <2>4
    <3>2. NextRun(e) <= s /\ NextRun(e) \in Nat
      BY <1>0, <2>2, <3>1, NextRunFirst, NextRunFacts
    <3> QED BY <1>0, <3>1, <3>2 DEF Window
  <2> QED BY <2>1, <2>4 DEF Chance
<1>8. CASE SkipSlot
  <2>1. PICK e \in Slots \cup {0} :
          InWindow(e) /\ Suspended /\ UpdateStatus([luc EXCEPT !.last = NextRun(e)])
    BY <1>8 DEF SkipSlot
  <2>2. Spaced
    BY <2>1 DEF Suspended, AwakeInv, NoSuspension
  <2>3. [luc EXCEPT !.last = NextRun(e)].last = NextRun(e)
    BY <1>0 DEF TypeOK, UC
  <2>4. NextRun(e) = uc.last
    BY <1>2, <1>3, <2>1, <2>3
  <2>5. uc.last \in Slots /\ ~Past(uc.last)
    BY <1>0, <2>1, <2>4, InWindowFacts
  <2>6. ASSUME NEW s \in Slots, s > uc'.last, ~Past(s)'
        PROVE  Upcoming(now) <= Window(s) + MaxSchedulingDelay
    <3>0. s \in Nat /\ uc.last < s /\ Upcoming(now) \in Nat
      BY <1>0, <1>1, <2>6, UpcomingFacts
    <3>1. CASE uc.last > now
      <4>1. Upcoming(now) <= uc.last /\ uc.last + PinVersionWindow <= s
        BY <1>0, <2>2, <2>5, <3>0, <3>1, UpcomingFirst DEF Spaced, TypeOK
      <4> QED BY <1>0, <3>0, <4>1 DEF Window
    <3>2. CASE uc.last <= now
      <4>1. now <= uc.last - PinVersionWindow + MaxSchedulingDelay
        BY <1>0, <2>5 DEF Past, Window
      <4>2. PinVersionWindow <= MaxSchedulingDelay
        BY <1>0, <3>2, <4>1
      <4>3. s > now
        <5>1. uc.last + MaxSchedulingDelay < s
          BY <2>5, <3>0 DEF Separated
        <5> QED BY <1>0, <3>0, <4>1, <5>1
      <4>4. Upcoming(now) <= s
        BY <1>0, <4>3, UpcomingFirst DEF TypeOK
      <4> QED BY <1>0, <3>0, <4>2, <4>4 DEF Window
    <3> QED BY <1>0, <3>1, <3>2
  <2> QED BY <1>4, <2>6 DEF Chance, Upcoming
<1> QED BY <1>4, <1>6, <1>7, <1>8

\* The timers of the reconcile and of the queue keep the earliest instant.
LEMMA ChanceStep ==
  ASSUME BasicInv, CopyInv, SeenInv, ChanceInv, Separated, Spaced \/ (NoSuspension /\ AwakeInv),
         [Next]_vars, ~GiveUp \/ UNCHANGED vars
  PROVE  ChanceInv'
<1> SUFFICES ASSUME ~Pending'
             PROVE  /\ pc' # "record"
                    /\ pc' = "schedule" => luc'.last = uc'.last
                    /\ pc' = "status" => Chance(wait \cup {Upcoming(now)})'
                    /\ pc' = "cleanup" => Chance(wait)' /\ \E w \in wait' : w <= Upcoming(now)'
                    /\ pc' = "idle" /\ (\A w \in wake' : w > now') =>
                         Chance(wake)' /\ \E w \in wake' : w <= Upcoming(now)'
  BY DEF ChanceInv
<1>0. /\ TypeOK /\ TimerInv /\ HorizonInv
      /\ now \in Nat /\ PinVersionWindow \in Nat /\ MaxSchedulingDelay \in Nat /\ Slots \subseteq Nat
      /\ uc.last \in Nat /\ wake \subseteq Nat /\ wait \subseteq Nat
  BY Instants DEF BasicInv, Lasts, TimerInv
<1>1. CASE Begin
  BY <1>1 DEF Begin, Pending, caches
<1>2. CASE ~Begin
  <2>1. /\ ~Pending /\ UNCHANGED <<jobs, jobsSeen>> /\ uc'.last = uc.last /\ ~err'
        /\ ~ScheduleFails /\ ~Restart /\ ~Deliver /\ ~Wake
    BY <1>2, PendingStep
  <2>2. pc # "record" /\ (pc = "schedule" => luc.last = uc.last)
    BY <2>1 DEF ChanceInv
  <2>3. CASE UNCHANGED <<pc, luc, wait, wake, now>>
    BY <2>1, <2>3 DEF ChanceInv, Chance, Blocked, Existing, Past, Upcoming
  <2>4. CASE ScheduleJob /\ ~UNCHANGED vars
    <3>1. pc = "schedule" /\ ~Record
      BY <2>1, <2>2, <2>4
      DEF ScheduleJob, Repair, Busy, GiveUp, NotYet, SkipSlot, CreateJob, Record, Ready, InWindow
    <3>2. pc' = "status"
      <4>1. ASSUME CreateJob, pc' # "status" PROVE FALSE
        <5>1. PICK e \in Slots \cup {0} :
                /\ InWindow(e) /\ jobs[<<offer, NextRun(e)>>] = "none"
                /\ jobs' = [jobs EXCEPT ![<<offer, NextRun(e)>>] = "open"]
          BY <4>1 DEF CreateJob
        <5>2. <<offer, NextRun(e)>> \in Names
          BY <1>0, <5>1, InWindowFacts, ConfigAssumption DEF Names, TypeOK
        <5> QED BY <1>0, <2>1, <5>1, <5>2 DEF TypeOK
      <4> QED BY <2>1, <2>4, <3>1, <4>1 DEF ScheduleJob, Repair, Busy, GiveUp, NotYet, SkipSlot
    <3>3. ~GiveUp
      BY <2>4
    <3>4. Chance(wait \cup {Upcoming(now)})'
      BY <3>1, <3>2, <3>3, ScheduleChance
    <3> QED BY <3>2, <3>4
  <2>5. CASE UpdateNext
    <3>1. /\ pc = "status" /\ pc' = "cleanup" /\ UNCHANGED now
          /\ wait' = {First(wait \cup {Upcoming(now)})}
      BY <2>5 DEF UpdateNext
    <3>2. wait \cup {Upcoming(now)} \in SUBSET Nat
      BY <1>0, UpcomingFacts
    <3> DEFINE f == First(wait \cup {Upcoming(now)})
    <3>3. f \in Nat /\ \A v \in wait \cup {Upcoming(now)} : f <= v
      BY <3>2, FirstFacts
    <3> HIDE DEF f
    <3>4. Chance({f})
      BY <1>0, <2>1, <3>1, <3>2, <3>3, ChanceEarlier DEF ChanceInv
    <3>5. wait' = {f}
      BY <3>1 DEF f
    <3>6. Chance(wait)'
      BY <2>1, <3>1, <3>4, <3>5 DEF Chance, Blocked, Existing, Past
    <3> QED BY <3>1, <3>3, <3>5, <3>6 DEF Upcoming
  <2>6. CASE CleanupJobs
    <3>1. /\ pc = "cleanup" /\ pc' = "idle" /\ UNCHANGED now
          /\ wake' = {First(wake \cup wait)}
      <4>1. ~queued'
        BY DEF Pending
      <4> QED BY <2>6, <4>1 DEF CleanupJobs
    <3>2. Chance(wait) /\ \E w \in wait : w <= Upcoming(now)
      BY <2>1, <3>1 DEF ChanceInv
    <3>3. wake \cup wait \in SUBSET Nat /\ wake \cup wait # {}
      BY <1>0, <3>2
    <3> DEFINE f == First(wake \cup wait)
    <3>4. f \in Nat /\ \A v \in wake \cup wait : f <= v
      BY <3>3, FirstFacts
    <3> HIDE DEF f
    <3>5. Chance({f})
      BY <1>0, <3>2, <3>4, ChanceEarlier
    <3>6. wake' = {f}
      BY <3>1 DEF f
    <3>7. Chance(wake)'
      BY <2>1, <3>1, <3>5, <3>6 DEF Chance, Blocked, Existing, Past
    <3>8. f <= Upcoming(now)
      <4>1. PICK w \in wait : w <= Upcoming(now)
        BY <3>2
      <4> QED BY <1>0, <3>4, <4>1, UpcomingFacts
    <3> QED BY <3>1, <3>6, <3>7, <3>8 DEF Upcoming
  <2>7. CASE Tick
    <3> SUFFICES ASSUME \A w \in wake' : w > now'
                 PROVE  Chance(wake)' /\ \E w \in wake' : w <= Upcoming(now)'
      BY <2>7 DEF Tick, worker
    <3>1. /\ pc = "idle" /\ (\A w \in wake : w > now) /\ now' = now + 1 /\ now' \in 0..MaxTime
          /\ wake' = wake /\ \A w \in wake : w > now + 1
      BY <1>0, <2>7, ConfigAssumption DEF Tick, queue, TypeOK
    <3>2. Chance(wake) /\ \E w \in wake : w <= Upcoming(now)
      BY <2>1, <3>1 DEF ChanceInv
    <3>3. PICK w \in wake : w <= Upcoming(now)
      BY <3>2
    <3>4. /\ Upcoming(now) \in Nat /\ \A s \in Slots : s > now => Upcoming(now) <= s
          /\ w \in Nat
      BY <1>0, UpcomingFirst DEF TypeOK
    <3>5. \A s \in Slots : s > now => s > now + 1
      <4> SUFFICES ASSUME NEW s \in Slots, s > now PROVE s > now + 1
        OBVIOUS
      <4>1. s \in Nat /\ w > now + 1 /\ w <= Upcoming(now) /\ Upcoming(now) <= s
        BY <1>0, <3>1, <3>3, <3>4
      <4> QED BY <1>0, <3>4, <4>1
    <3>6. w <= Upcoming(now + 1)
      <4>1. Upcoming(now + 1) \in Slots /\ Upcoming(now + 1) \in Nat /\ Upcoming(now + 1) > now + 1
        BY <3>1, UpcomingFirst
      <4>2. Upcoming(now) <= Upcoming(now + 1)
        BY <1>0, <3>4, <4>1
      <4> QED BY <3>3, <3>4, <4>1, <4>2
    <3>7. Upcoming(now)' = Upcoming(now + 1)
      BY <3>1 DEF Upcoming
    <3>8. Blocked => Blocked'
      <4>1. ASSUME NEW n \in Existing(jobs), StartAfter(n) > now PROVE StartAfter(n) > now'
        BY <1>0, <3>1, <3>5, <4>1, Instants DEF Existing
      <4> QED BY <2>1, <4>1 DEF Blocked, Existing
    <3>9. \A s \in Slots : ~Past(s)' => ~Past(s)
      <4> SUFFICES ASSUME NEW s \in Slots, ~Past(s)' PROVE ~Past(s)
        OBVIOUS
      <4>1. s \in Nat
        BY <1>0
      <4> QED BY <1>0, <3>1, <4>1 DEF Past, Window
    <3>10. Chance(wake)'
      BY <2>1, <3>1, <3>2, <3>8, <3>9 DEF Chance
    <3> QED BY <3>1, <3>3, <3>6, <3>7, <3>10
  <2>8. CASE OfferChanges \/ SwitchSuspend \/ UNCHANGED vars
    BY <2>3, <2>8 DEF OfferChanges, SwitchSuspend, queue, worker, vars
  <2>9. ASSUME NEW n \in Names, JobFinishes(n)
        PROVE  UNCHANGED <<pc, luc, wait, wake, now>>
    BY <2>9 DEF JobFinishes, queue, worker
  <2> QED BY <1>2, <2>1, <2>3, <2>4, <2>5, <2>6, <2>7, <2>8, <2>9 DEF Next, Environment
<1> QED BY <1>1, <1>2

-----------------------------------------------------------------------------
(* The theorems.                                                           *)

\* It holds at first, as all the rest does: there are no jobs.
LEMMA Initially ==
  ASSUME Init
  PROVE  BasicInv /\ CopyInv /\ AwakeInv /\ SlotInv /\ LatestInv /\ OpenInv /\ DecidedInv /\ KeptInv
<1>1. TypeOK /\ TimerInv
  <2>1. ConfigOK /\ IdleOK
    BY NewConfigOK DEF Init, ConfigOK, IdleOK
  <2>2. JobsOK
    BY DEF Init, JobsOK, JobStates
  <2>3. TimersOK
    BY Timers DEF Init, TimersOK
  <2>4. OthersOK
    <3>1. queued \in BOOLEAN /\ err \in BOOLEAN /\ pc \in {"idle", "schedule", "record", "status", "cleanup"}
      BY DEF Init
    <3>2. now \in 0..MaxTime /\ faults \in 0..MaxFaults
      BY ConfigAssumption DEF Init
    <3> QED BY <3>1, <3>2 DEF OthersOK
  <2> QED BY <2>1, <2>2, <2>3, <2>4, TypeParts
<1>2. /\ Existing(jobs) = {} /\ Existing(jobsSeen) = {} /\ Lasts = {0}
      /\ Succeeded(jobsSeen) = {} /\ \A n \in Names : jobs[n] = "none"
  BY NewConfigOK DEF Init, Existing, Succeeded, Lasts
<1>3. HorizonInv
  BY <1>1, <1>2, Instants DEF HorizonInv
<1>4. KnownInv /\ UnseenInv /\ SlotInv /\ LatestInv /\ OpenInv
  BY <1>2 DEF KnownInv, UnseenInv, SlotInv, LatestInv, OpenInv
<1>5. CopyInv /\ AwakeInv
  BY NewConfigOK DEF Init, CopyInv, AwakeInv, NewConfig
<1>6. DecidedInv
  BY <1>2, ConfigAssumption DEF DecidedInv
<1>7. KeptInv
  BY <1>2, FS_EmptySet DEF KeptInv
<1> QED BY <1>1, <1>3, <1>4, <1>5, <1>6, <1>7 DEF BasicInv

\* It is kept by every step.
LEMMA BasicStep == ASSUME BasicInv, [Next]_vars PROVE BasicInv'
  BY TypeStep, HorizonStep, JobsSteps, KnownStep, UnseenStep DEF BasicInv

\* It is an invariant: no slot is recorded and no job is created ahead of its
\* window, and the cache is never wrong about a job but for its end.
THEOREM BasicInvariant == Spec => []BasicInv
<1>1. Init => BasicInv
  BY Initially
<1>2. BasicInv /\ [Next]_vars => BasicInv'
  BY BasicStep
<1> QED BY <1>1, <1>2, PTL DEF Spec

\* Every variable has its type; in particular there is always a slot to wait
\* for, and a reconcile that ends has one timer to set.
THEOREM TimersAreSet == Spec => []TypeOK
  BY BasicInvariant, PTL DEF BasicInv

\* lastScheduledUpgrade does not go back, whatever copy it is written from,
\* when the slots are apart.  It may when they are not: the slot after the
\* latest job is then not always the slot after the recorded one.
THEOREM RecordGrows == ASSUME Separated PROVE Spec => LastGrows
<1>1. Init => CopyInv
  BY Initially
<1>2. BasicInv /\ CopyInv /\ [Next]_vars => CopyInv' /\ uc'.last >= uc.last
  BY CopyStep, LastStep DEF BasicInv
<1> QED BY <1>1, <1>2, BasicInvariant, PTL DEF Spec, LastGrows

\* A slot has one job while the offer holds.
LEMMA OneJobPerSlot == Spec /\ Steady => []SlotInv
<1>1. Init => SlotInv
  BY Initially
<1>2. BasicInv /\ SlotInv /\ [Next]_vars /\ [OfferHolds]_vars => SlotInv'
  <2>1. CASE OfferHolds
    BY <2>1, JobsSteps, SlotStep DEF BasicInv
  <2>2. CASE UNCHANGED vars
    BY <2>2 DEF vars, SlotInv, Existing, Past
  <2> QED BY <2>1, <2>2
<1> QED BY <1>1, <1>2, BasicInvariant, PTL DEF Spec, Steady

\* A config has one unfinished job at a time, whatever the cache has missed and
\* whichever calls fail, when the slots are apart and the offer holds in their
\* windows: then a job the cache does not know bears the name the reconcile
\* would create.
THEOREM JobsAreSerial == ASSUME Separated PROVE Spec /\ Steady => []OneOpenJob
<1>1. Init => LatestInv /\ OpenInv
  BY Initially
<1>2. BasicInv /\ SlotInv /\ LatestInv /\ OpenInv /\ [Next]_vars => LatestInv' /\ OpenInv'
  BY JobsSteps, LatestStep, OpenStep DEF BasicInv
<1>3. BasicInv /\ SlotInv /\ OpenInv => OneOpenJob
  BY OneOpen DEF BasicInv
<1> QED BY <1>1, <1>2, <1>3, BasicInvariant, OneJobPerSlot, PTL DEF Spec

\* No job is created for a slot that is recorded, although the clean-up frees
\* the names of old jobs and a slot that a suspension has skipped is found again,
\* when the slots are apart and neither the offer changes nor a suspension ends
\* in their windows.
THEOREM SlotsAreDecidedOnce ==
  ASSUME Separated, Lasting PROVE Spec /\ Steady /\ Unbroken => DecidedOnce
<1>1. Init => SuspendInv /\ DecidedInv
  BY Initially DEF Init, SuspendInv
<1>2. BasicInv /\ SlotInv /\ SuspendInv /\ DecidedInv /\ [Next]_vars /\ [OfferHolds]_vars
        /\ [SuspensionHolds]_vars => SuspendInv' /\ DecidedInv'
  <2>1. CASE OfferHolds /\ SuspensionHolds
    BY <2>1, SuspendStep, DecidedStep DEF BasicInv
  <2>2. CASE UNCHANGED vars
    BY <2>2 DEF vars, SuspendInv, DecidedInv, Halted, Lasts, Existing, Past, Opened
  <2> QED BY <2>1, <2>2
<1>3. BasicInv /\ DecidedInv /\ [Next]_vars =>
        \A n \in Names : jobs[n] = "none" /\ jobs'[n] # "none" => uc.last < StartAfter(n)
  BY JobsSteps, DecidedOnceStep DEF BasicInv
<1> QED BY <1>1, <1>2, <1>3, BasicInvariant, OneJobPerSlot, PTL DEF Spec, Steady, Unbroken, DecidedOnce

\* The clean-up deletes successful jobs only and leaves as many newer ones as
\* the limit, although it counts them in the cache, when the offer holds in the
\* windows: no two jobs have the same start then.
THEOREM CleanupKeepsNewest == Spec /\ Steady => KeepsNewest
<1>1. Init => KeptInv
  BY Initially
<1>2. BasicInv /\ SlotInv /\ KeptInv /\ [Next]_vars => KeptInv'
  BY JobsSteps, KeptStep DEF BasicInv
<1>3. BasicInv /\ SlotInv /\ KeptInv /\ [Next]_vars =>
        \A n \in Names : jobs[n] # "none" /\ jobs'[n] = "none" =>
           /\ jobs[n] = "succeeded"
           /\ HistoryLimit <= Cardinality({m \in Succeeded(jobs') \ {n} :
                                             StartAfter(m) >= StartAfter(n)})
  BY JobsSteps, NewestStep DEF BasicInv
<1> QED BY <1>1, <1>2, <1>3, BasicInvariant, OneJobPerSlot, PTL DEF Spec, KeepsNewest

\* Before the clock moves the clean-up has caught up with the history limit, for
\* any schedule, offers and suspensions, whichever deletions fail and however
\* late the list of jobs is.
THEOREM HistoryIsTrimmed == Spec => HistoryTrimmed
<1> DEFINE Trimmed == now' # now /\ HistoryLimit > 0 => Cardinality(Succeeded(jobs)) <= HistoryLimit
<1>1. Init => TrimInv
  BY DEF Init, TrimInv
<1>2. BasicInv /\ TrimInv /\ [Next]_vars => TrimInv'
  BY TrimStep DEF BasicInv
<1>3. BasicInv /\ TrimInv /\ [Next]_vars => Trimmed
  <2> SUFFICES ASSUME BasicInv, TrimInv, [Next]_vars, now' # now PROVE Trimmed
    OBVIOUS
  <2>1. Tick
    BY DEF Next, ScheduleJob, Environment, Begin, UpdateNext, CleanupJobs, Repair, Busy, GiveUp,
           NotYet, SkipSlot, CreateJob, Record, ScheduleFails, Restart, Deliver, Wake,
           OfferChanges, SwitchSuspend, JobFinishes, vars
  <2> QED BY <2>1 DEF Tick, TrimInv
<1>4. Trimmed => [Trimmed]_vars
  OBVIOUS
<1> QED BY <1>1, <1>2, <1>3, <1>4, BasicInvariant, PTL DEF Spec, HistoryTrimmed

\* No slot is missed: when its window closes it is recorded, or a job is open or
\* still ahead, for any schedule whose slots are apart, although the reconcile
\* sets one timer only, is repeated after every failure and rests on stale
\* copies.  The search must not give up, which it does after a long suspension;
\* and with suspensions a slot must be due before the next is at hand, because a
\* suspended slot that is found again sets no timer for the one after it.
THEOREM SlotsAreNotMissed ==
  ASSUME Separated, Spaced \/ NoSuspension PROVE Spec /\ Patient => NoSlotMissed
<1> DEFINE Met == now' # now =>
             \A s \in Slots : now = Window(s) + MaxSchedulingDelay =>
               \/ uc.last >= s
               \/ \E n \in Names : jobs[n] = "open"
               \/ \E n \in Existing(jobs) : StartAfter(n) > now
           ChancesInv == CopyInv /\ SeenInv /\ ChanceInv /\ (NoSuspension => AwakeInv)
<1>1. Init => ChancesInv
  <2>1. Init => SeenInv /\ ChanceInv
    BY NewConfigOK DEF Init, SeenInv, ChanceInv, Pending
  <2> QED BY <2>1, Initially
<1>2. BasicInv /\ ChancesInv /\ [Next]_vars /\ [~GiveUp]_vars => ChancesInv'
  BY CopyStep, SeenStep, ChanceStep, AwakeStep DEF BasicInv
<1>3. BasicInv /\ ChancesInv /\ [Next]_vars => Met
  <2> SUFFICES ASSUME BasicInv, ChancesInv, [Next]_vars, now' # now,
                      NEW s \in Slots, now = Window(s) + MaxSchedulingDelay, ~(uc.last >= s)
               PROVE  Blocked
    BY DEF Blocked
  <2>1. Tick
    BY DEF Next, ScheduleJob, Environment, Begin, UpdateNext, CleanupJobs, Repair, Busy, GiveUp,
           NotYet, SkipSlot, CreateJob, Record, ScheduleFails, Restart, Deliver, Wake,
           OfferChanges, SwitchSuspend, JobFinishes, vars
  <2>2. TypeOK /\ TimerInv /\ now \in Nat /\ s \in Nat /\ uc.last \in Nat /\ wake \subseteq Nat
    BY Instants DEF BasicInv, Lasts, TimerInv
  <2>3. ~Past(s) /\ s > uc.last
    BY <2>2 DEF Past
  <2>4. Chance(wake) /\ \A w \in wake : w > now
    BY <2>1, <2>2 DEF ChanceInv, Tick, Pending, TimerInv
  <2>5. \A w \in wake : ~(w <= now)
    BY <2>2, <2>4
  <2> QED BY <2>3, <2>4, <2>5 DEF Chance
<1>4. Met => [Met]_vars
  OBVIOUS
<1> QED BY <1>1, <1>2, <1>3, <1>4, BasicInvariant, PTL DEF Spec, NoSlotMissed, Patient
==============================================================================
