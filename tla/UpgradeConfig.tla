---------------------------- MODULE UpgradeConfig ----------------------------
(***************************************************************************)
(* The UpgradeConfig reconciler (controllers/upgradeconfig_controller.go): *)
(* it creates an UpgradeJob for every slot of its schedule, records the    *)
(* slot in its status, and deletes old successful jobs.                    *)
(*                                                                         *)
(* The clock counts in units that are long compared with a reconcile and   *)
(* with the delay of a watch: it moves only when the work queue is empty   *)
(* and the caches are up to date.  Within one instant the calls of a       *)
(* reconcile, deliveries to the caches and the writes of others interleave *)
(* freely, and any call may fail.                                          *)
(***************************************************************************)
EXTENDS Integers, FiniteSets

CONSTANTS
  Slots,               \* the instants that cron expression and ISO week name
  Versions,            \* the versions on offer
  None,                \* no update available
  PinVersionWindow,    \* Nat
  MaxSchedulingDelay,  \* Nat
  MaxAttempts,         \* Nat, 100 in the code
  HistoryLimit,        \* Nat, 0 for no limit
  Offers,              \* what the latest available update may change to
  SuspendedAt,         \* SUBSET Nat, inside a suspension window
  Switchable,          \* BOOLEAN, somebody may set and clear suspend
  MaxTime,             \* bound on the clock
  MaxFaults            \* bound on failed calls and restarts

\* The schedule does not end within the horizon of the model.
ASSUME ConfigAssumption ==
  /\ Slots \subseteq Nat \ {0} /\ None \notin Versions
  /\ PinVersionWindow \in Nat /\ MaxSchedulingDelay \in Nat
  /\ MaxAttempts \in Nat /\ HistoryLimit \in Nat
  /\ Offers \subseteq Versions \cup {None} /\ Offers # {}
  /\ SuspendedAt \subseteq Nat /\ Switchable \in BOOLEAN
  /\ MaxTime \in Nat /\ MaxFaults \in Nat
  /\ \E s \in Slots : s > MaxTime + PinVersionWindow

VARIABLES
  uc,        \* the UpgradeConfig at the API server
  jobs,      \* its UpgradeJobs at the API server
  ucSeen,    \* the informer caches
  jobsSeen,
  offer,     \* LatestAvailableUpdate of the ClusterVersion
  queued,    \* the config is in the work queue
  wake,      \* its timer, a set of at most one instant
  pc,        \* the call the worker makes next
  luc,       \* its copy of the config, `uc' in the code
  base,      \* the version of the config that copy was read from
  slot,      \* nextRun
  wait,      \* the requeue times of this reconcile
  err,       \* one of its parts has failed
  now, faults

caches == <<ucSeen, jobsSeen>>
queue == <<queued, wake>>
worker == <<pc, luc, base, slot, wait, err>>
vars == <<uc, jobs, ucSeen, jobsSeen, offer, queued, wake,
          pc, luc, base, slot, wait, err, now, faults>>

(***************************************************************************)
(* The config is created at instant 0.  A status without                   *)
(* lastScheduledUpgrade is one with last = 0: the creation time takes its  *)
(* place and every job starts later.  next is the head of                  *)
(* nextPossibleSchedules.                                                  *)
(***************************************************************************)
UC == [last: Slots \cup {0}, next: Slots \cup {0}, suspend: BOOLEAN]
NewConfig == [last |-> 0, next |-> 0, suspend |-> FALSE]

\* The name of a job is made of its version and its start.
Names == (Versions \cup {None}) \X Slots
StartAfter(n) == n[2]
JobStates == {"none", "open", "succeeded", "failed"}
Existing(js) == {n \in Names : js[n] # "none"}
Succeeded(js) == {n \in Names : js[n] = "succeeded"}

First(S) == CHOOSE s \in S : \A t \in S : s <= t

Charge(fault) == /\ fault => faults > 0
                 /\ faults' = IF fault THEN faults - 1 ELSE faults

\* Mutant: an old copy overwrites the status.
UpdateStatusUnversioned(new) ==
  /\ luc' = new
  /\ uc' = [new EXCEPT !.suspend = uc.suspend] /\ base' = uc'
  /\ UNCHANGED <<err, faults>>

\* Status().Update: done, refused because the copy is old, failed, or done
\* without an answer.
UpdateStatus(new) ==
  /\ luc' = new
  /\ \/ /\ base = uc
        /\ uc' = new /\ base' = new
        /\ UNCHANGED <<err, faults>>
     \/ /\ base # uc
        /\ err' = TRUE
        /\ UNCHANGED <<uc, base, faults>>
     \/ /\ uc' \in IF base = uc THEN {uc, new} ELSE {uc}
        /\ err' = TRUE /\ Charge(TRUE)
        /\ UNCHANGED base

(***************************************************************************)
(* The schedule.                                                           *)
(***************************************************************************)
\* Mutant: the ISO week is not looked at.
UpcomingInAnyWeek(t) == t + 1

Upcoming(t) == First({s \in Slots : s > t})
Window(s) == s - PinVersionWindow

\* Mutant: the end of the window does not belong to it.
PastEarly(s) == now >= Window(s) + MaxSchedulingDelay

Past(s) == now > Window(s) + MaxSchedulingDelay
Missed(e) == {s \in Slots : s > e /\ Past(s)}
NextRun(e) == First({s \in Slots : s > e /\ ~Past(s)})

IsLatest(n) == /\ n \in Existing(jobsSeen)
               /\ \A m \in Existing(jobsSeen) : StartAfter(m) <= StartAfter(n)

(***************************************************************************)
(* Reconcile.                                                              *)
(***************************************************************************)
Begin ==
  /\ pc = "idle" /\ queued
  /\ queued' = FALSE
  /\ pc' = "schedule" /\ luc' = ucSeen /\ base' = ucSeen
  /\ UNCHANGED <<uc, jobs, caches, offer, wake, slot, wait, err, now, faults>>

\* scheduleJob: the status has missed the latest job.
Repair ==
  /\ pc = "schedule"
  /\ \E n \in Names : /\ IsLatest(n) /\ StartAfter(n) > luc.last
                      /\ UpdateStatus([luc EXCEPT !.last = StartAfter(n)])
  /\ pc' = "status"
  /\ UNCHANGED <<jobs, caches, offer, queue, slot, wait, now>>

\* Mutant: only a job in the future is waited for.
WaitsForFuture(n) == StartAfter(n) > now

\* The latest job lies ahead or is not completed.
WaitsFor(n) == StartAfter(n) > now \/ jobsSeen[n] = "open"

Busy ==
  /\ pc = "schedule"
  /\ \E n \in Names : IsLatest(n) /\ StartAfter(n) <= luc.last /\ WaitsFor(n)
  /\ pc' = "status"
  /\ UNCHANGED <<uc, jobs, caches, offer, queue, luc, base, slot, wait, err, now, faults>>

\* A new slot is looked for, after the instant e.
Ready(e) ==
  /\ pc = "schedule"
  /\ \/ Existing(jobsSeen) = {} /\ e = luc.last
     \/ \E n \in Names : /\ IsLatest(n) /\ e = StartAfter(n)
                         /\ StartAfter(n) <= luc.last /\ ~WaitsFor(n)

InWindow(e) == /\ Ready(e)
               /\ Cardinality(Missed(e)) <= MaxAttempts
               /\ now >= Window(NextRun(e))

\* The error comes back until somebody acts; its back-off grows to an
\* instant of the clock.
GiveUp ==
  /\ \E e \in Slots \cup {0} :
       Ready(e) /\ Cardinality(Missed(e)) > MaxAttempts
  /\ pc' = "status" /\ wait' = {now + 1}
  /\ UNCHANGED <<uc, jobs, caches, offer, queue, luc, base, slot, err, now, faults>>

NotYet ==
  /\ \E e \in Slots \cup {0} :
       /\ Ready(e) /\ Cardinality(Missed(e)) <= MaxAttempts
       /\ now < Window(NextRun(e))
       /\ wait' = {Window(NextRun(e))}
  /\ pc' = "status"
  /\ UNCHANGED <<uc, jobs, caches, offer, queue, luc, base, slot, err, now, faults>>

Suspended == luc.suspend \/ now \in SuspendedAt

\* The slot is recorded and no job is created.
SkipSlot ==
  /\ \E e \in Slots \cup {0} :
       /\ InWindow(e) /\ Suspended
       /\ UpdateStatus([luc EXCEPT !.last = NextRun(e)])
  /\ pc' = "status"
  /\ UNCHANGED <<jobs, caches, offer, queue, slot, wait, now>>

\* createJob: done, refused because the name is taken, or done without an
\* answer.
CreateJob ==
  /\ \E e \in Slots \cup {0} :
       LET n == <<offer, NextRun(e)>> IN
       /\ InWindow(e) /\ ~Suspended
       /\ \/ /\ jobs[n] = "none"
             /\ jobs' = [jobs EXCEPT ![n] = "open"]
             /\ pc' = "record" /\ slot' = NextRun(e)
             /\ UNCHANGED <<err, faults>>
          \/ /\ jobs[n] # "none"
             /\ pc' = "status" /\ err' = TRUE
             /\ UNCHANGED <<jobs, slot, faults>>
          \/ /\ jobs[n] = "none"
             /\ jobs' = [jobs EXCEPT ![n] = "open"]
             /\ pc' = "status" /\ err' = TRUE /\ Charge(TRUE)
             /\ UNCHANGED slot
  /\ UNCHANGED <<uc, caches, offer, queue, luc, base, wait, now>>

Record ==
  /\ pc = "record"
  /\ UpdateStatus([luc EXCEPT !.last = slot])
  /\ pc' = "status" /\ slot' = 0
  /\ UNCHANGED <<jobs, caches, offer, queue, wait, now>>

\* A call of scheduleJob fails; the other parts of Reconcile still run.
ScheduleFails ==
  /\ pc = "schedule"
  /\ Charge(TRUE)
  /\ pc' = "status" /\ err' = TRUE
  /\ UNCHANGED <<uc, jobs, caches, offer, queue, luc, base, slot, wait, now>>

\* updateNextPossibleSchedulesStatus
UpdateNext ==
  /\ pc = "status"
  /\ UpdateStatus([luc EXCEPT !.next = Upcoming(now)])
  /\ pc' = "cleanup" /\ wait' = {First(wait \cup {Upcoming(now)})}
  /\ UNCHANGED <<jobs, caches, offer, queue, slot, now>>

\* Mutant: the oldest successful jobs are kept.
KeptOldest(S, keep) == /\ Cardinality(keep) = HistoryLimit
                       /\ \A m \in keep, n \in S \ keep : StartAfter(m) <= StartAfter(n)
\* Mutant: one job too many is kept.
KeptOneMore(S, keep) == /\ Cardinality(keep) = HistoryLimit + 1
                        /\ \A m \in keep, n \in S \ keep : StartAfter(m) >= StartAfter(n)

\* The newest jobs, as many as the limit, are kept.
Kept(S, keep) == /\ Cardinality(keep) = HistoryLimit
                 /\ \A m \in keep, n \in S \ keep : StartAfter(m) >= StartAfter(n)

\* The jobs to delete; of jobs with the same start any may be kept.
Surplus(S) == IF HistoryLimit = 0 \/ Cardinality(S) <= HistoryLimit
              THEN {{}} ELSE {S \ keep : keep \in {k \in SUBSET S : Kept(S, k)}}

\* cleanupSuccessfulJobs; a Delete may fail, also because the job is gone.
\* Then the reconcile ends: it is retried or its timer is set.
CleanupJobs ==
  /\ pc = "cleanup"
  /\ \E old \in Surplus(Succeeded(jobsSeen)) :
     \E done \in SUBSET old :
       /\ Charge(done # old)
       /\ jobs' = [n \in Names |-> IF n \in done THEN "none" ELSE jobs[n]]
       /\ IF err \/ done # old \/ \E n \in old : jobs[n] = "none"
          THEN queued' = TRUE /\ UNCHANGED wake
          ELSE wake' = {First(wake \cup wait)} /\ UNCHANGED queued
  /\ pc' = "idle" /\ luc' = NewConfig /\ base' = NewConfig
  /\ slot' = 0 /\ wait' = {} /\ err' = FALSE
  /\ UNCHANGED <<uc, caches, offer, now>>

(***************************************************************************)
(* The surroundings.                                                       *)
(***************************************************************************)
\* The controller restarts; it fills its caches and reconciles every config.
Restart ==
  /\ Charge(TRUE)
  /\ ucSeen' = uc /\ jobsSeen' = jobs
  /\ queued' = TRUE /\ wake' = {}
  /\ pc' = "idle" /\ luc' = NewConfig /\ base' = NewConfig
  /\ slot' = 0 /\ wait' = {} /\ err' = FALSE
  /\ UNCHANGED <<uc, jobs, offer, now>>

\* A change of the config or of a job it owns reaches the cache.
Deliver ==
  /\ \/ ucSeen # uc /\ ucSeen' = uc /\ UNCHANGED jobsSeen
     \/ jobsSeen # jobs /\ jobsSeen' = jobs /\ UNCHANGED ucSeen
  /\ queued' = TRUE
  /\ UNCHANGED <<uc, jobs, offer, wake, worker, now, faults>>

Wake ==
  /\ \E t \in wake : t <= now
  /\ queued' = TRUE /\ wake' = {}
  /\ UNCHANGED <<uc, jobs, caches, offer, worker, now, faults>>

Tick ==
  /\ now < MaxTime
  /\ pc = "idle" /\ ~queued /\ ucSeen = uc /\ jobsSeen = jobs
  /\ \A t \in wake : t > now
  /\ now' = now + 1
  /\ UNCHANGED <<uc, jobs, caches, offer, queue, worker, faults>>

\* A create hook can fail or skip a job before its start.
JobFinishes(n) ==
  /\ jobs[n] = "open"
  /\ \E st \in {"succeeded", "failed"} : jobs' = [jobs EXCEPT ![n] = st]
  /\ UNCHANGED <<uc, caches, offer, queue, worker, now, faults>>

OfferChanges ==
  /\ offer' \in Offers \ {offer}
  /\ UNCHANGED <<uc, jobs, caches, queue, worker, now, faults>>

SwitchSuspend ==
  /\ Switchable
  /\ uc' = [uc EXCEPT !.suspend = ~@]
  /\ UNCHANGED <<jobs, caches, offer, queue, worker, now, faults>>

-----------------------------------------------------------------------------
Init ==
  /\ uc = NewConfig /\ ucSeen = uc
  /\ jobs = [n \in Names |-> "none"] /\ jobsSeen = jobs
  /\ offer \in Offers
  /\ queued = TRUE /\ wake = {}
  /\ pc = "idle" /\ luc = NewConfig /\ base = NewConfig
  /\ slot = 0 /\ wait = {} /\ err = FALSE
  /\ now = 0 /\ faults = MaxFaults

ScheduleJob == \/ Repair \/ Busy \/ GiveUp \/ NotYet \/ SkipSlot \/ CreateJob
               \/ Record \/ ScheduleFails
Environment == \/ Restart \/ Deliver \/ Wake \/ Tick \/ OfferChanges
               \/ SwitchSuspend \/ \E n \in Names : JobFinishes(n)

Next == Begin \/ ScheduleJob \/ UpdateNext \/ CleanupJobs \/ Environment

Spec == Init /\ [][Next]_vars

-----------------------------------------------------------------------------
(***************************************************************************)
(* Properties.                                                             *)
(***************************************************************************)
\* Every variable has its type; a timer is a single instant.
TypeOK ==
  /\ uc \in UC /\ ucSeen \in UC /\ luc \in UC /\ base \in UC
  /\ jobs \in [Names -> JobStates] /\ jobsSeen \in [Names -> JobStates]
  /\ offer \in Offers /\ queued \in BOOLEAN /\ err \in BOOLEAN
  /\ wake \in SUBSET Int /\ wait \in SUBSET Int
  /\ Cardinality(wake) <= 1 /\ Cardinality(wait) <= 1
  /\ pc \in {"idle", "schedule", "record", "status", "cleanup"}
  /\ slot \in Slots \cup {0}
  /\ now \in 0..MaxTime /\ faults \in 0..MaxFaults

\* A config has one unfinished job at a time: "job still running, don't
\* schedule new one".  Stale lists of jobs, lost answers and restarts between
\* the creation of a job and its recording must not lead to a second one.
OneOpenJob == \A m, n \in Names : jobs[m] = "open" /\ jobs[n] = "open" => m = n

\* No slot is missed: when the window of a slot closes the slot is recorded,
\* or a job is unfinished or still ahead.  This is what the requeue times of
\* scheduleJob and of the status, and the watches, have to add up to.
NoSlotMissed ==
  [][now' # now =>
       \A s \in Slots : now = Window(s) + MaxSchedulingDelay =>
         \/ uc.last >= s
         \/ \E n \in Names : jobs[n] = "open"
         \/ \E n \in Existing(jobs) : StartAfter(n) > now]_vars

\* lastScheduledUpgrade never goes back, whatever copy it is written from.
LastGrows == [][uc'.last >= uc.last]_vars

\* A slot is decided once: no job is created for a slot that the status
\* already records, also not when its job is old enough to be deleted, which
\* makes its name free again.
DecidedOnce ==
  [][\A n \in Names : jobs[n] = "none" /\ jobs'[n] # "none" =>
       uc.last < StartAfter(n)]_vars

\* The clean-up deletes only successful jobs, and never one of the newest:
\* "It is not possible to remove the most recent job."
KeepsNewest ==
  [][\A n \in Names : jobs[n] # "none" /\ jobs'[n] = "none" =>
       /\ jobs[n] = "succeeded"
       /\ HistoryLimit <= Cardinality({m \in Succeeded(jobs') \ {n} :
                                         StartAfter(m) >= StartAfter(n)})]_vars

\* Before the clock moves the clean-up has caught up with the limit.
HistoryTrimmed ==
  [][now' # now /\ HistoryLimit > 0 =>
       Cardinality(Succeeded(jobs)) <= HistoryLimit]_vars
=============================================================================
