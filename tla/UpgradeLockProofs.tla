------------------------- MODULE UpgradeLockProofs -------------------------
(***************************************************************************)
(* The UpgradeJob reconciler implements the abstract lock of UpgradeLock,  *)
(* for any number of jobs, pools and versions and any bounds.              *)
(***************************************************************************)
EXTENDS UpgradeJobProofs

\* A reconcile that reads the job as it is in the cache will not come as far as
\* the lock: the job has not started there, is out of time, or a create or
\* start hook has ended it.
Decided(j) ==
  \/ ~ujSeen[j].started
  \/ now > StartAfter[j] + UpgradeTimeout
  \/ \E r \in HookRuns : r[1] \in {"Create", "Start"} /\ hook[j][r] \in {"failed", "skip"}

\* A job that is finished at the server and not yet so in the cache still holds
\* its lock, or will not come to ask for it again.
StaleInv ==
  /\ \A j \in Jobs : Finished(uj[j]) /\ ~Finished(ujSeen[j]) => cv.lock = j \/ Decided(j)
  /\ pc \in {"pending", "lock"} => luj = ujSeen[job]
  /\ pc = "lock" /\ Finished(uj[job]) => cv.lock = job

\* A step of the reconciler is a step of the abstract lock or leaves it alone.
Refines == [Locking!Next]_(Locking!vars)

-----------------------------------------------------------------------------
(* What ends a job stays as it is: hooks do not run again, and time goes on. *)

\* The hook runs that have ended are as they were.
HooksKeep == \A j \in Jobs, r \in HookRuns :
               hook[j][r] \in {"complete", "failed", "skip"} => hook'[j][r] = hook[j][r]

\* So it is when no hook changes.
LEMMA SameHooksKeep == ASSUME UNCHANGED hook PROVE HooksKeep
  BY DEF HooksKeep

\* createHookJob runs for hooks that have no Job.
LEMMA CreateHooksKeep ==
  ASSUME TypeOK, pc # "idle", NEW e, NEW k, StatusOfHook(e, k) = "none",
         CreateHookJob(e, k)
  PROVE  HooksKeep
<1> DEFINE r == <<e, k>>
<1>1. r \in HookRuns /\ hook[job][r] = "none"
  BY DEF StatusOfHook
<1>2. hook' = hook \/ hook' = [hook EXCEPT ![job][r] = "active"]
  BY DEF CreateHookJob
<1> HIDE DEF r
<1> QED BY <1>1, <1>2 DEF TypeOK, ServerOK, WorkerOK, HooksKeep

\* executeHooks creates Jobs for hooks that have none.
LEMMA HooksStopKeep ==
  ASSUME TypeOK, pc # "idle", NEW e, NEW k, HooksStop(e, k) PROVE HooksKeep
  BY SameHooksKeep, CreateHooksKeep DEF HooksStop

\* So do the hooks of a finished job.
LEMMA FinishHooksKeep ==
  ASSUME TypeOK, pc # "idle", NEW es, StartFinishHooks(es) PROVE HooksKeep
<1> DEFINE f(ok) == [r \in HookRuns |-> IF r[1] \in ok /\ hook[job][r] = "none"
                                        THEN "active" ELSE hook[job][r]]
<1>1. PICK ok : hook' = [hook EXCEPT ![job] = f(ok)]
  BY DEF StartFinishHooks
<1>2. \A r \in HookRuns : hook[job][r] # "none" => f(ok)[r] = hook[job][r]
  OBVIOUS
<1> HIDE DEF f
<1> QED BY <1>1, <1>2 DEF TypeOK, ServerOK, WorkerOK, HooksKeep

\* No step changes the outcome of a hook or turns the clock back.
LEMMA KeepStep == ASSUME TypeOK, [Next]_vars PROVE HooksKeep /\ now <= now'
<1> USE DEF NoOtherCall, Goto
<1>0. now \in Nat
  BY DEF TypeOK, BoundsOK
<1>1. CASE Pending
  BY <1>0, <1>1, SameHooksKeep, HooksStopKeep
  DEF Pending, CreateHooks, Skip, Expire, Start, WaitForStart, HooksStop
<1>2. CASE Started
  BY <1>0, <1>2, SameHooksKeep, HooksStopKeep
  DEF Started, TimeOut, StartHooks, StartHooksDone, TryLock, Running, HooksStop
<1>3. CASE ManagePools
  <2>1. ASSUME NEW p \in Pools, UnpauseHooks(p) PROVE HooksKeep /\ now <= now'
    BY <1>0, <2>1, HooksStopKeep DEF UnpauseHooks, HooksStop
  <2>2. ASSUME NEW p \in Pools, KeepPool(p) \/ ExpirePool(p) \/ TogglePool(p)
        PROVE  HooksKeep /\ now <= now'
    BY <1>0, <2>2, SameHooksKeep DEF KeepPool, ExpirePool, TogglePool
  <2>3. CASE PoolsPaused
    BY <1>0, <2>3, SameHooksKeep DEF PoolsPaused
  <2> QED BY <1>3, <2>1, <2>2, <2>3 DEF ManagePools
<1>4. CASE Upgrade
  BY <1>0, <1>4, SameHooksKeep, HooksStopKeep
  DEF Upgrade, PreHealthCheck, NoUpgradeWanted, Withdraw, StartUpgrade, MarkInProgress,
      AwaitUpgrade, AwaitPools, UpgradeDone, PostHealthCheck, CompleteHooks, Complete,
      HooksStop
<1>5. CASE CleanUp
  <2>1. ASSUME NEW p \in Pools, CleanupPool(p) PROVE HooksKeep /\ now <= now'
    BY <1>0, <2>1, SameHooksKeep, CreateHooksKeep DEF CleanupPool
  <2>2. ASSUME NEW p \in Pools, PausePool(p) PROVE HooksKeep /\ now <= now'
    BY <1>0, <2>2, SameHooksKeep DEF PausePool
  <2>3. CASE Succeeded \/ Failed
    BY <1>0, <2>3, FinishHooksKeep DEF Succeeded, Failed
  <2>4. CASE PausedOnFailure \/ CleanedUp \/ Unlock
    BY <1>0, <2>4, SameHooksKeep DEF PausedOnFailure, CleanedUp, Unlock
  <2> QED BY <1>5, <2>1, <2>2, <2>3, <2>4 DEF CleanUp
<1>6. CASE Environment
  <2>1. ASSUME NEW j \in Jobs, NEW r \in HookRuns, HookFinishes(j, r)
        PROVE  HooksKeep
    BY <2>1 DEF HookFinishes, HooksKeep, TypeOK, ServerOK
  <2> QED BY <1>0, <1>6, <2>1, SameHooksKeep
          DEF Environment, Tick, VersionChanges, Delete, PoolChanges, HookFinishes
<1>7. ASSUME NEW j \in Jobs, Begin(j) PROVE HooksKeep /\ now <= now'
  BY <1>0, <1>7, SameHooksKeep DEF Begin
<1>8. CASE Abort
  BY <1>0, <1>8, SameHooksKeep DEF Abort
<1>9. ASSUME NEW p \in Pools, PoolFault(p) PROVE HooksKeep /\ now <= now'
  BY <1>0, <1>9, SameHooksKeep DEF PoolFault
<1>10. CASE UNCHANGED vars
  BY <1>0, <1>10, SameHooksKeep DEF vars
<1> QED BY <1>1, <1>2, <1>3, <1>4, <1>5, <1>6, <1>7, <1>8, <1>9, <1>10 DEF Next, Reconcile

-----------------------------------------------------------------------------
(* Most steps do no more than write the job that is reconciled.             *)

\* A decided job stays so while the cache keeps its copy.
LEMMA DecidedKeeps ==
  ASSUME TypeOK, HooksKeep, now <= now', now' \in Nat,
         NEW j \in Jobs, ujSeen'[j] = ujSeen[j], Decided(j)
  PROVE  Decided(j)'
<1>1. now \in Nat /\ StartAfter[j] + UpgradeTimeout \in Nat
  BY ConstantsAssumption DEF TypeOK, BoundsOK
<1>2. CASE \E r \in HookRuns : r[1] \in {"Create", "Start"} /\ hook[j][r] \in {"failed", "skip"}
  BY <1>2 DEF HooksKeep, Decided
<1> QED BY <1>1, <1>2 DEF Decided

\* The step leaves the lock and the cached jobs alone, changes no job but the
\* one that is reconciled, and finishes it only with the lock in its hands or
\* when a repetition of the reconcile would not get to the lock.
Writes ==
  /\ UNCHANGED <<cv, ujSeen>>
  /\ pc' \notin {"pending", "lock"}
  /\ \/ UNCHANGED uj
     \/ /\ job \in Jobs
        /\ \A i \in Jobs \ {job} : uj'[i] = uj[i]
        /\ Finished(uj'[job]) => Finished(uj[job]) \/ cv.lock = job \/ Decided(job)

\* Such a step keeps the invariant, and finishes a job of the abstract lock or
\* leaves it alone.
LEMMA WritesOK ==
  ASSUME TypeOK, now' \in Nat, StaleInv, KeepsOutcomes, HooksKeep, now <= now', Writes
  PROVE  StaleInv' /\ Refines
<1> DEFINE done == {j \in Jobs : Finished(uj[j])}
           done2 == {j \in Jobs : Finished(uj'[j])}
<1>1. \A j \in Jobs : Finished(uj[j]) => Finished(uj'[j])
  BY DEF KeepsOutcomes, Finished
<1>2. ASSUME NEW j \in Jobs, Finished(uj'[j]), ~Finished(ujSeen'[j])
      PROVE  cv'.lock = j \/ Decided(j)'
  <2>1. cv.lock = j \/ Decided(j)
    BY <1>2 DEF Writes, StaleInv
  <2> QED BY <2>1, DecidedKeeps DEF Writes
<1>3. StaleInv'
  BY <1>2 DEF StaleInv, Writes
<1>4. done2 = done \/ (job \in Jobs /\ job \notin done /\ done2 = done \cup {job})
  BY <1>1 DEF Writes
<1>5. Refines
  BY <1>4 DEF Refines, Writes, Locking!Next, Locking!Finish, Locking!vars
<1> QED BY <1>3, <1>5

\* A status update is such a step.
LEMMA StatusWrites ==
  ASSUME TypeOK, pc # "idle", NEW new, UpdateStatus(new), UNCHANGED <<cv, ujSeen>>,
         pc' \notin {"pending", "lock"},
         Finished(new) => Finished(luj) \/ cv.lock = job \/ Decided(job)
  PROVE  Writes
<1>1. job \in Jobs /\ uj \in [Jobs -> UJ]
  BY DEF TypeOK, WorkerOK, ServerOK
<1>2. CASE Current
  BY <1>1, <1>2 DEF UpdateStatus, Current, Writes
<1>3. CASE ~Current
  BY <1>3 DEF UpdateStatus, Writes
<1> QED BY <1>2, <1>3

\* So is a step that writes no job at all.
LEMMA NoWrites ==
  ASSUME UNCHANGED <<uj, cv, ujSeen>>, pc' \notin {"pending", "lock"} PROVE Writes
  BY DEF Writes

\* executeHooks finishes a job before the lock only for good: for a create or
\* start hook that failed or asked to skip.
LEMMA HooksStopWrites ==
  ASSUME TypeOK, pc # "idle", NEW e, NEW k, HooksStop(e, k), UNCHANGED ujSeen,
         cv.lock = job \/ e \in {"Create", "Start"}
  PROVE  Writes
<1>1. pc' = "idle" /\ UNCHANGED cv
  BY DEF HooksStop, Return, Fail, Succeed
<1>2. CASE UNCHANGED uj
  BY <1>1, <1>2, NoWrites
<1>3. CASE StatusOfHook(e, k) \in {"failed", "skip"}
  <2>1. cv.lock = job \/ Decided(job)
    BY <1>3 DEF StatusOfHook, Decided
  <2>2. \/ UpdateStatus([luj EXCEPT !.fail = "HookFailed"])
        \/ UpdateStatus([luj EXCEPT !.succ = "HookRequestedSkip"])
    BY <1>3 DEF HooksStop, Fail, Succeed
  <2> QED BY <1>1, <2>1, <2>2, StatusWrites
<1> QED BY <1>2, <1>3 DEF HooksStop

\* With the lock in its hands a reconcile may write any outcome.
LEMMA LockedWrites ==
  ASSUME TypeOK, pc # "idle", cv.lock = job,
         UNCHANGED uj \/ \E new : UpdateStatus(new),
         UNCHANGED <<cv, ujSeen>>, pc' \notin {"pending", "lock"}
  PROVE  Writes
  BY NoWrites, StatusWrites

\* runHealthCheck is called with the lock in hand.
LEMMA HealthCheckWrites ==
  ASSUME TypeOK, pc # "idle", cv.lock = job, NEW c \in Checks,
         NEW l \in {"desired", "complete"}, HealthCheck(c, l), NoOtherCall
  PROVE  Writes
<1>1. UNCHANGED uj \/ \E new : UpdateStatus(new)
  BY DEF HealthCheck, UpdateAndGoto, Fail
<1>2. pc' \in {"idle", l}
  BY DEF HealthCheck, UpdateAndGoto, Fail, Return, Goto
<1> QED BY <1>1, <1>2, LockedWrites DEF NoOtherCall, caches

-----------------------------------------------------------------------------
(* The steps of a reconcile.                                               *)

\* What holds before a step, and what the lemmas above say of every step.
Before == /\ TypeOK /\ LockInv /\ StaleInv
          /\ now' \in Nat /\ now <= now' /\ HooksKeep /\ KeepsOutcomes

\* A job that has not started is skipped, expires or starts while the cached
\* copy has it unstarted.
LEMMA PendingStep == ASSUME Before, Pending PROVE StaleInv' /\ Refines
<1> SUFFICES Writes
  BY WritesOK DEF Before
<1> USE DEF NoOtherCall, caches
<1>1. pc = "pending" /\ pc # "idle" /\ luj = ujSeen[job]
  BY DEF Pending, CreateHooks, Skip, Expire, Start, WaitForStart, Unstarted,
         Before, StaleInv
<1>2. CASE CreateHooks
  BY <1>1, <1>2, HooksStopWrites DEF CreateHooks, Before
<1>3. CASE WaitForStart
  BY <1>3, NoWrites DEF WaitForStart, Return
<1>4. CASE Skip \/ Expire \/ Start
  <2>1. Decided(job)
    BY <1>1, <1>4 DEF Skip, Expire, Start, Unstarted, Decided
  <2>2. pc' = "idle" /\ UNCHANGED <<cv, ujSeen>>
    BY <1>4 DEF Skip, Expire, Start, Succeed, Fail, Return
  <2>3. \E new : UpdateStatus(new)
    BY <1>4 DEF Skip, Expire, Start, Succeed, Fail
  <2> QED BY <1>1, <2>1, <2>2, <2>3, StatusWrites DEF Before
<1> QED BY <1>2, <1>3, <1>4 DEF Pending

\* A job that passes its start hooks and is finished at the server holds the
\* lock: the reconcile has just seen that nothing else decided it.
LEMMA StartHooksDoneStep == ASSUME Before, StartHooksDone PROVE StaleInv' /\ Refines
<1>1. /\ pc = "pending" /\ job \in Jobs /\ luj = ujSeen[job] /\ ~Finished(luj)
      /\ luj.started /\ ~OutOfTime
      /\ HooksContinue("Create", None) /\ HooksContinue("Start", None)
  BY DEF StartHooksDone, Running, Before, StaleInv, LockInv, Unfinished, TypeOK, WorkerOK
<1>2. \A e \in {"Create", "Start"} : StatusOfHook(e, None) = "complete"
  BY <1>1 DEF HooksContinue, InfluencesOutcome, CanSkipUpdate
<1>3. \A r \in HookRuns : r[1] \in {"Create", "Start"} => hook[job][r] = "complete"
  <2>1. ASSUME NEW r \in HookRuns, r[1] \in {"Create", "Start"}
        PROVE  r = <<r[1], None>>
    BY <2>1 DEF HookRuns, Unpause
  <2> QED BY <1>2, <2>1 DEF StatusOfHook
<1>4. ~Decided(job)
  BY <1>1, <1>3, ConstantsAssumption DEF Decided, OutOfTime
<1>5. Finished(uj[job]) => cv.lock = job
  BY <1>1, <1>4 DEF Before, StaleInv
<1>6. UNCHANGED <<uj, cv, ujSeen, hook, now, job, luj>> /\ pc' = "lock"
  BY DEF StartHooksDone, Goto, NoOtherCall, caches
<1>7. StaleInv'
  BY <1>1, <1>5, <1>6 DEF Before, StaleInv, Decided
<1>8. Refines
  BY <1>6 DEF Refines, Locking!vars
<1> QED BY <1>7, <1>8

\* tryLockClusterVersion locks for a job that is not finished at the server.
LEMMA TryLockStep == ASSUME Before, TryLock PROVE StaleInv' /\ Refines
<1>1. /\ pc = "lock" /\ job \in Jobs /\ pc' \in {"idle", "pools"}
      /\ UNCHANGED <<uj, hook, ujSeen, now>>
  BY DEF TryLock, Return, Before, TypeOK, WorkerOK
<1>2. CASE UNCHANGED cv
  BY <1>1, <1>2, NoWrites, WritesOK DEF Before
<1>3. CASE cv.lock = None /\ cv' = [cv EXCEPT !.lock = job]
  <2>1. ~Finished(uj[job])
    BY <1>1, <1>3, ConstantsAssumption DEF Before, StaleInv
  <2>2. cv'.lock = job /\ cv'.desired = cv.desired
    BY <1>3 DEF Before, TypeOK, ServerOK, CV
  <2>3. Refines
    BY <1>1, <1>3, <2>1, <2>2 DEF Refines, Locking!Next, Locking!Acquire
  <2>4. StaleInv'
    BY <1>1, <1>3, <2>2, ConstantsAssumption DEF Before, StaleInv, Decided
  <2> QED BY <2>3, <2>4
<1> QED BY <1>2, <1>3 DEF TryLock, LockFree

\* A started job times out or is ended by a start hook before the lock for good.
LEMMA StartedStep == ASSUME Before, Started PROVE StaleInv' /\ Refines
<1>1. CASE TimeOut
  <2>1. pc = "pending" /\ Decided(job)
    BY <1>1 DEF TimeOut, Running, OutOfTime, Decided
  <2>2. Writes
    BY <1>1, <2>1, StatusWrites DEF TimeOut, Fail, Return, NoOtherCall, caches, Before
  <2> QED BY <2>2, WritesOK DEF Before
<1>2. CASE StartHooks
  <2>1. Writes
    BY <1>2, HooksStopWrites DEF StartHooks, Running, caches, Before
  <2> QED BY <2>1, WritesOK DEF Before
<1> QED BY <1>1, <1>2, StartHooksDoneStep, TryLockStep DEF Started

\* pauseUnpauseMachineConfigPools fails a job only with the lock in hand.
LEMMA ManagePoolsStep == ASSUME Before, ManagePools PROVE StaleInv' /\ Refines
<1> SUFFICES Writes
  BY WritesOK DEF Before
<1>1. TypeOK /\ pc = "pools" /\ cv.lock = job
  BY DEF ManagePools, KeepPool, ExpirePool, UnpauseHooks, TogglePool, PoolsPaused,
         Before, LockInv, LockHeld, Locked
<1>2. ASSUME NEW p \in Pools, KeepPool(p) \/ TogglePool(p) PROVE Writes
  BY <1>1, <1>2, NoWrites DEF KeepPool, TogglePool, Visited, Return
<1>3. ASSUME NEW p \in Pools, ExpirePool(p) PROVE Writes
  BY <1>1, <1>3, LockedWrites DEF ExpirePool, Fail, Return
<1>4. ASSUME NEW p \in Pools, UnpauseHooks(p) PROVE Writes
  BY <1>1, <1>4, HooksStopWrites DEF UnpauseHooks
<1>5. CASE PoolsPaused
  <2>1. UNCHANGED uj \/ \E new : UpdateStatus(new)
    BY <1>5 DEF PoolsPaused, UpdateAndGoto
  <2>2. pc' \in {"idle", "preHealth"} /\ UNCHANGED <<cv, ujSeen>>
    BY <1>5 DEF PoolsPaused, UpdateAndGoto, Goto, Return, NoOtherCall, caches
  <2> QED BY <1>1, <2>1, <2>2, LockedWrites
<1> QED BY <1>2, <1>3, <1>4, <1>5 DEF ManagePools

\* The desired version is written with the lock in hand.
LEMMA StartUpgradeStep == ASSUME Before, StartUpgrade PROVE StaleInv' /\ Refines
<1>1. /\ cv.lock = job /\ job \in Jobs /\ DesiredVersion[job] # None /\ cv \in CV
      /\ pc' = "idle" /\ UNCHANGED <<uj, hook, ujSeen, now>>
  BY DEF StartUpgrade, Desired, Return, caches, Before, LockInv, LockHeld, Locked,
         TypeOK, WorkerOK, ServerOK
<1>2. CASE UNCHANGED cv
  BY <1>1, <1>2, NoWrites, WritesOK DEF Before
<1>3. CASE cv' = [cv EXCEPT !.desired = DesiredVersion[job]]
  <2>1. cv'.lock = job /\ cv'.desired = DesiredVersion[job]
    BY <1>1, <1>3 DEF CV
  <2>2. Refines
    BY <1>1, <2>1 DEF Refines, Locking!Next, Locking!Upgrade
  <2>3. StaleInv'
    BY <1>1, <2>1 DEF Before, StaleInv, Decided
  <2> QED BY <2>2, <2>3
<1> QED BY <1>2, <1>3 DEF StartUpgrade, Desired

\* So do the health checks, the upgrade and what follows it.
LEMMA UpgradeStep == ASSUME Before, Upgrade PROVE StaleInv' /\ Refines
<1> SUFFICES ASSUME ~StartUpgrade PROVE Writes
  BY WritesOK, StartUpgradeStep DEF Before
<1> USE DEF NoOtherCall, caches
<1>1. TypeOK /\ pc \in Locked /\ pc # "idle" /\ cv.lock = job
  BY DEF Upgrade, PreHealthCheck, NoUpgradeWanted, Withdraw, MarkInProgress, Upgrading,
         AwaitUpgrade, AwaitPools, UpgradeDone, PostHealthCheck, CompleteHooks, Complete,
         Before, LockInv, LockHeld, Locked
<1>2. CASE PreHealthCheck \/ PostHealthCheck
  BY <1>1, <1>2, HealthCheckWrites DEF PreHealthCheck, PostHealthCheck, Checks
<1>3. CASE NoUpgradeWanted \/ UpgradeDone \/ AwaitUpgrade
  BY <1>3, NoWrites DEF NoUpgradeWanted, UpgradeDone, AwaitUpgrade, Goto, Return
<1>4. CASE Withdraw \/ MarkInProgress
  BY <1>1, <1>4, LockedWrites DEF Withdraw, MarkInProgress, Fail, Return
<1>5. CASE AwaitPools \/ Complete
  <2>1. UNCHANGED uj \/ \E new : UpdateStatus(new)
    BY <1>5 DEF AwaitPools, Complete
  <2>2. pc' = "idle" /\ UNCHANGED <<cv, ujSeen>>
    BY <1>5 DEF AwaitPools, Complete, Return
  <2> QED BY <1>1, <2>1, <2>2, LockedWrites
<1>6. CASE CompleteHooks
  BY <1>1, <1>6, HooksStopWrites DEF CompleteHooks
<1> QED BY <1>2, <1>3, <1>4, <1>5, <1>6 DEF Upgrade

\* Only a job that is cached as finished gives up the lock.
LEMMA UnlockStep == ASSUME Before, Unlock PROVE StaleInv' /\ Refines
<1>1. /\ job \in Jobs /\ Finished(ujSeen[job]) /\ Finished(uj[job]) /\ cv \in CV
      /\ pc' = "idle" /\ UNCHANGED <<uj, hook, ujSeen, now>>
  BY DEF Unlock, Return, Before, LockInv, Finishing, TypeOK, WorkerOK, ServerOK
<1>2. CASE UNCHANGED cv
  BY <1>1, <1>2, NoWrites, WritesOK DEF Before
<1>3. CASE cv.lock = job /\ cv' = [cv EXCEPT !.lock = None]
  <2>1. cv'.lock = None /\ cv'.desired = cv.desired
    BY <1>1, <1>3 DEF CV
  <2>2. Refines
    BY <1>1, <1>3, <2>1 DEF Refines, Locking!Next, Locking!Release
  <2>3. StaleInv'
    BY <1>1, <1>3, <2>1 DEF Before, StaleInv, Decided
  <2> QED BY <2>2, <2>3
<1> QED BY <1>2, <1>3 DEF Unlock

\* The clean-up of a finished job changes none of its outcome.
LEMMA CleanUpStep == ASSUME Before, CleanUp PROVE StaleInv' /\ Refines
<1> SUFFICES ASSUME ~Unlock PROVE Writes
  BY WritesOK, UnlockStep DEF Before
<1>1. CASE Succeeded \/ Failed \/ CleanedUp
  BY <1>1, NoWrites DEF Succeeded, Failed, CleanedUp, Goto, NoOtherCall, caches
<1>2. CASE PausedOnFailure
  <2>1. TypeOK /\ pc # "idle" /\ Finished(luj)
    BY <1>2 DEF PausedOnFailure, Before, LockInv, Finishing
  <2> QED BY <1>2, <2>1, StatusWrites DEF PausedOnFailure, Goto, NoOtherCall, caches
<1>3. ASSUME NEW p \in Pools, CleanupPool(p) \/ PausePool(p) PROVE Writes
  BY <1>3, NoWrites DEF CleanupPool, PausePool, Visited
<1> QED BY <1>1, <1>2, <1>3 DEF CleanUp

\* A reconcile begins with the job as the cache has it afterwards.
LEMMA BeginStep == ASSUME Before, NEW j \in Jobs, Begin(j) PROVE StaleInv' /\ Refines
<1>1. PICK u \in {ujSeen[j], uj[j]} : GetJob(j, u) /\ job' = j /\ luj' = u /\ pc' = Branch(u)
  BY DEF Begin
<1>2. ujSeen' = [ujSeen EXCEPT ![j] = u] /\ UNCHANGED <<uj, cv, hook, now>>
  BY <1>1 DEF GetJob, Begin
<1>3. ujSeen'[j] = u /\ pc' # "lock"
  BY <1>1, <1>2 DEF Before, TypeOK, CachesOK, Branch
<1>4. ASSUME NEW i \in Jobs, Finished(uj'[i]), ~Finished(ujSeen'[i])
      PROVE  cv'.lock = i \/ Decided(i)'
  <2>1. ujSeen'[i] = ujSeen[i]
    BY <1>1, <1>2, <1>3, <1>4 DEF Before, TypeOK, CachesOK
  <2> QED BY <1>2, <1>4, <2>1 DEF Before, StaleInv, Decided
<1>5. StaleInv'
  BY <1>1, <1>3, <1>4 DEF StaleInv
<1>6. Refines
  BY <1>2 DEF Refines, Locking!vars
<1> QED BY <1>5, <1>6

\* The surroundings neither lock nor finish anything.
LEMMA EnvironmentStep == ASSUME Before, Environment PROVE StaleInv' /\ Refines
<1>1. UNCHANGED <<ujSeen, worker>>
  BY DEF Environment, Tick, VersionChanges, Delete, HookFinishes, PoolChanges, caches
<1>2. cv'.lock = cv.lock /\ cv'.desired = cv.desired
  BY DEF Environment, Tick, VersionChanges, Delete, HookFinishes, PoolChanges,
         Before, TypeOK, ServerOK, CV
<1>3. \A j \in Jobs : Finished(uj'[j]) <=> Finished(uj[j])
  <2>1. ASSUME NEW i \in Jobs, Delete(i)
        PROVE  \A j \in Jobs : uj'[j].succ = uj[j].succ /\ uj'[j].fail = uj[j].fail
    BY <2>1 DEF Delete, Before, TypeOK, ServerOK, UJ
  <2>2. UNCHANGED uj \/ \E i \in Jobs : Delete(i)
    BY DEF Environment, Tick, VersionChanges, HookFinishes, PoolChanges
  <2> QED BY <2>1, <2>2 DEF Finished
<1>4. \A j \in Jobs : Decided(j) => Decided(j)'
  BY <1>1, DecidedKeeps DEF Before
<1>5. StaleInv'
  <2>1. pc \in {"pending", "lock"} => job \in Jobs
    BY DEF Before, TypeOK, WorkerOK
  <2> QED BY <1>1, <1>2, <1>3, <1>4, <2>1 DEF worker, Before, StaleInv
<1>6. {j \in Jobs : Finished(uj'[j])} = {j \in Jobs : Finished(uj[j])}
  BY <1>3
<1>7. Refines
  BY <1>2, <1>6 DEF Refines, Locking!vars
<1> QED BY <1>5, <1>7

-----------------------------------------------------------------------------
\* Every step keeps the invariant and is a step of the abstract lock or none.
LEMMA RefinementStep ==
  ASSUME TypeOK, LockInv, StaleInv, [Next]_vars PROVE StaleInv' /\ Refines
<1>1. Before
  BY TypeStep, LockStep, KeepStep DEF Before, TypeOK, BoundsOK
<1>2. CASE Reconcile
  BY <1>1, <1>2, PendingStep, StartedStep, ManagePoolsStep, UpgradeStep, CleanUpStep
  DEF Reconcile
<1>3. CASE Abort
  BY <1>1, <1>3, NoWrites, WritesOK DEF Before, Abort, Return, caches
<1>4. ASSUME NEW p \in Pools, PoolFault(p) PROVE StaleInv' /\ Refines
  BY <1>1, <1>4, NoWrites, WritesOK DEF Before, PoolFault, Visited, caches
<1>5. CASE UNCHANGED vars
  BY <1>5 DEF vars, StaleInv, Decided, Refines, Locking!vars
<1> QED BY <1>1, <1>2, <1>3, <1>4, <1>5, BeginStep, EnvironmentStep DEF Next

\* The initial states are unlocked and nothing is finished.
LEMMA InitStale == ASSUME Init PROVE StaleInv /\ Locking!Init
  BY DEF Init, StaleInv, Finished, NewJob, NewVersion, Locking!Init

\* The reconciler implements the lock: for any number of jobs, pools and
\* versions, however stale the caches and whichever calls fail, a finished job
\* does not take the lock (again), only the owner changes the desired version,
\* and the lock is given up by its owner alone and after its outcome.
THEOREM LockRefined == Spec => ImplementsLock
<1>1. Init => StaleInv /\ Locking!Init
  BY InitStale
<1>2. TypeOK /\ LockInv /\ StaleInv /\ [Next]_vars => StaleInv' /\ [Locking!Next]_(Locking!vars)
  BY RefinementStep DEF Refines
<1> QED BY <1>1, <1>2, TypeCorrect, LockInvariant, PTL
        DEF Spec, ImplementsLock, Locking!Spec
============================================================================
