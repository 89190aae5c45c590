-------------------------- MODULE UpgradeJobProofs --------------------------
(***************************************************************************)
(* Proofs about the UpgradeJob reconciler, for any number of jobs, pools   *)
(* and versions, any configuration and any bound on time and faults.       *)
(***************************************************************************)
EXTENDS UpgradeJob, TLAPS

USE DEF Checks, Tri

-----------------------------------------------------------------------------
(* The objects and the writes the worker makes to them are well typed.     *)

\* What the reconciler creates or forgets to is an object of its type.
LEMMA NewObjects == NewJob \in UJ /\ NewVersion \in CV /\ NewPool \in MCP
  BY DEF NewJob, NewVersion, NewPool, UJ, CV, MCP, PoolsConds

\* setStatusCondition: every condition the reconciler sets leaves a job.
LEMMA Conditions ==
  ASSUME NEW u \in UJ
  PROVE  /\ \A r \in FailReasons : [u EXCEPT !.fail = r] \in UJ
         /\ \A r \in SuccReasons : [u EXCEPT !.succ = r] \in UJ
         /\ [u EXCEPT !.started = TRUE] \in UJ
         /\ \A c \in PoolsConds : [u EXCEPT !.pools = c] \in UJ
         /\ \A t \in Tri : [u EXCEPT !.completed = t] \in UJ
         /\ \A t \in Tri : [u EXCEPT !.paused = t] \in UJ
         /\ \A c \in Checks, t \in Tri, n \in Nat :
              [u EXCEPT !.check[c] = t, !.since[c] = n] \in UJ
  BY DEF UJ

\* Status().Update writes an UpgradeJob or, at a conflict, nothing.
LEMMA UpdateStatusOK ==
  ASSUME TypeOK, pc # "idle", NEW new \in UJ, UpdateStatus(new)
  PROVE  uj' \in [Jobs -> UJ]
  BY DEF TypeOK, ServerOK, WorkerOK, UpdateStatus

\* The end of a reconcile leaves the worker well typed.
LEMMA ReturnOK == ASSUME Return PROVE WorkerOK'
  BY NewObjects DEF Return, WorkerOK, Labels

\* Going on to the next call leaves the worker well typed.
LEMMA GotoOK ==
  ASSUME TypeOK, pc # "idle", NEW l \in Labels, Goto(l)
  PROVE  WorkerOK'
  BY DEF TypeOK, WorkerOK, Goto

\* A stale read or a failed call is paid for out of the faults left.
LEMMA ChargeOK ==
  ASSUME TypeOK, NEW f, Charge(f), now' = now
  PROVE  BoundsOK'
  BY ConstantsAssumption DEF TypeOK, BoundsOK, Charge

\* Reads put a well typed object into a cache.
LEMMA ReadsOK ==
  ASSUME TypeOK
  PROVE  /\ \A j \in Jobs : \A u : GetJob(j, u) => u \in UJ /\ ujSeen' \in [Jobs -> UJ]
         /\ \A v : GetVersion(v) => v \in CV /\ cvSeen' \in CV
         /\ \A p \in Pools : \A m : GetPool(p, m) =>
              m \in MCP /\ mcpSeen' \in [Pools -> MCP]
         /\ ListedPools \subseteq [Pools -> MCP]
  BY DEF TypeOK, ServerOK, CachesOK, GetJob, GetVersion, GetPool, ListedPools

\* createHookJob for a run the job has.
LEMMA CreateHookJobOK ==
  ASSUME TypeOK, pc # "idle", NEW e, NEW k, <<e, k>> \in HookRuns,
         CreateHookJob(e, k)
  PROVE  hook' \in [Jobs -> [HookRuns -> HookStatus]]
<1> DEFINE r == <<e, k>>
<1>1. r \in HookRuns
  OBVIOUS
<1>2. hook' = hook \/ hook' = [hook EXCEPT ![job][r] = "active"]
  BY DEF CreateHookJob
<1> HIDE DEF r
<1> QED BY <1>1, <1>2 DEF TypeOK, ServerOK, WorkerOK, HookStatus

\* The hooks of a finished job.
LEMMA StartFinishHooksOK ==
  ASSUME TypeOK, pc # "idle", NEW es, StartFinishHooks(es), now' = now
  PROVE  hook' \in [Jobs -> [HookRuns -> HookStatus]] /\ BoundsOK'
<1> DEFINE f(ok) == [r \in HookRuns |-> IF r[1] \in ok /\ hook[job][r] = "none"
                                        THEN "active" ELSE hook[job][r]]
<1>1. PICK ok \in SUBSET es :
        hook' = [hook EXCEPT ![job] = f(ok)] /\ Charge(ok # es)
  BY Zenon DEF StartFinishHooks
<1>2. f(ok) \in [HookRuns -> HookStatus]
  BY DEF TypeOK, ServerOK, WorkerOK, HookStatus
<1>3. BoundsOK'
  BY <1>1, ChargeOK
<1> HIDE DEF f
<1> QED BY <1>1, <1>2, <1>3 DEF TypeOK, ServerOK, WorkerOK

\* executeHooks when it ends the reconcile.
LEMMA HooksStopOK ==
  ASSUME TypeOK, pc # "idle", NEW e, NEW k, HooksStop(e, k)
  PROVE  ServerOK' /\ WorkerOK' /\ now' = now
<1>1. WorkerOK'
  BY ReturnOK DEF HooksStop, Fail, Succeed
<1>2. uj' \in [Jobs -> UJ]
  <2>1. CASE UNCHANGED uj
    BY <2>1 DEF TypeOK, ServerOK
  <2>2. CASE Fail("HookFailed")
    BY <2>2, UpdateStatusOK, Conditions DEF Fail, TypeOK, WorkerOK, FailReasons
  <2>3. CASE Succeed("HookRequestedSkip")
    BY <2>3, UpdateStatusOK, Conditions DEF Succeed, TypeOK, WorkerOK, SuccReasons
  <2> QED BY <2>1, <2>2, <2>3 DEF HooksStop
<1>3. hook' \in [Jobs -> [HookRuns -> HookStatus]]
  <2>1. CASE UNCHANGED hook
    BY <2>1 DEF TypeOK, ServerOK
  <2>2. CASE StatusOfHook(e, k) = "none" /\ CreateHookJob(e, k)
    BY <2>2, CreateHookJobOK DEF StatusOfHook
  <2> QED BY <2>1, <2>2 DEF HooksStop
<1> QED BY <1>1, <1>2, <1>3 DEF HooksStop, ServerOK, TypeOK

-----------------------------------------------------------------------------
(* Type correctness, one lemma for each part of Reconcile.                 *)

\* Writing one condition and ending the reconcile.
LEMMA WriteReturnOK ==
  ASSUME TypeOK, pc # "idle", NoOtherCall, Return,
         UNCHANGED uj \/ \E new \in UJ : UpdateStatus(new)
  PROVE  TypeOK'
<1>1. uj' \in [Jobs -> UJ]
  BY UpdateStatusOK DEF TypeOK, ServerOK
<1> QED BY <1>1, ReturnOK
        DEF NoOtherCall, caches, TypeOK, ServerOK, CachesOK, BoundsOK

\* Setting the Failed condition and ending the reconcile.
LEMMA FailOK ==
  ASSUME TypeOK, pc # "idle", NoOtherCall, NEW r \in FailReasons, Fail(r)
  PROVE  TypeOK'
  BY WriteReturnOK, Conditions DEF Fail, TypeOK, WorkerOK

\* Setting the Succeeded condition and ending the reconcile.
LEMMA SucceedOK ==
  ASSUME TypeOK, pc # "idle", NoOtherCall, NEW r \in SuccReasons, Succeed(r)
  PROVE  TypeOK'
  BY WriteReturnOK, Conditions DEF Succeed, TypeOK, WorkerOK

\* executeHooks ends the reconcile and no object was read for it.
LEMMA HooksOnlyOK ==
  ASSUME TypeOK, pc # "idle", NEW e, NEW k, HooksStop(e, k),
         UNCHANGED <<caches, faults>>
  PROVE  TypeOK'
  BY HooksStopOK DEF TypeOK, caches, CachesOK, BoundsOK

\* Nothing is written and the reconcile goes on.
LEMMA ContinueOK ==
  ASSUME TypeOK, pc # "idle", NoOtherCall, UNCHANGED uj,
         NEW l \in Labels, Goto(l)
  PROVE  TypeOK'
  BY GotoOK DEF NoOtherCall, caches, TypeOK, ServerOK, CachesOK, BoundsOK

\* A condition is written and the reconcile goes on, unless it conflicts.
LEMMA UpdateAndGotoOK ==
  ASSUME TypeOK, pc # "idle", NoOtherCall, NEW new \in UJ,
         NEW l \in Labels, UpdateAndGoto(new, l)
  PROVE  TypeOK'
<1>1. uj' \in [Jobs -> UJ]
  BY UpdateStatusOK DEF UpdateAndGoto
<1>2. WorkerOK'
  BY ReturnOK DEF UpdateAndGoto, TypeOK, WorkerOK
<1> QED BY <1>1, <1>2
        DEF NoOtherCall, caches, TypeOK, ServerOK, CachesOK, BoundsOK

\* Reconcile before the job has started.
LEMMA PendingOK == ASSUME TypeOK, Pending PROVE TypeOK'
<1>1. CASE CreateHooks
  BY <1>1, HooksOnlyOK DEF CreateHooks
<1>2. CASE Skip
  BY <1>2, SucceedOK DEF Skip, Unstarted, SuccReasons
<1>3. CASE Expire
  BY <1>3, FailOK DEF Expire, Unstarted, FailReasons
<1>4. CASE Start
  BY <1>4, WriteReturnOK, Conditions DEF Start, Unstarted, TypeOK, WorkerOK
<1>5. CASE WaitForStart
  BY <1>5, WriteReturnOK DEF WaitForStart, Unstarted
<1> QED BY <1>1, <1>2, <1>3, <1>4, <1>5 DEF Pending

\* tryLockClusterVersion
LEMMA TryLockOK == ASSUME TypeOK, TryLock PROVE TypeOK'
<1>1. PICK v \in {cvSeen, cv} :
        /\ GetVersion(v)
        /\ \/ /\ ver' = v
              /\ pc' = "pools" /\ todo' = DelayedPools
              /\ UNCHANGED <<cv, job, luj, held>>
           \/ /\ cv' = [v EXCEPT !.lock = job]
              /\ ver' = cv'
              /\ pc' = "pools" /\ todo' = DelayedPools
              /\ UNCHANGED <<job, luj, held>>
           \/ Return /\ UNCHANGED cv
  BY DEF TryLock
<1>2. v \in CV /\ cvSeen' \in CV
  BY <1>1, ReadsOK
<1>3. cv' \in CV
  BY <1>1, <1>2 DEF TryLock, CV, TypeOK, ServerOK, WorkerOK
<1>4. WorkerOK'
  <2>1. CASE Return
    BY <2>1, ReturnOK
  <2>2. CASE ~Return
    BY <1>1, <1>2, <1>3, <2>2, ConstantsAssumption
    DEF TryLock, TypeOK, WorkerOK, Labels
  <2> QED BY <2>1, <2>2
<1>5. BoundsOK'
  BY <1>1, ChargeOK DEF TryLock, GetVersion
<1> QED BY <1>2, <1>3, <1>4, <1>5 DEF TryLock, TypeOK, ServerOK, CachesOK

\* reconcileStartedJob up to the lock.
LEMMA StartedOK == ASSUME TypeOK, Started PROVE TypeOK'
<1>1. CASE TimeOut
  BY <1>1, FailOK DEF TimeOut, Running, FailReasons
<1>2. CASE StartHooks
  BY <1>2, HooksOnlyOK DEF StartHooks, Running
<1>3. CASE StartHooksDone
  BY <1>3, ContinueOK DEF StartHooksDone, Running, Labels
<1> QED BY <1>1, <1>2, <1>3, TryLockOK DEF Started

\* One pool of a loop has been visited.
LEMMA VisitedOK ==
  ASSUME TypeOK, NEW p \in Pools, Visited(p), held' \in BOOLEAN
  PROVE  WorkerOK'
  BY DEF TypeOK, WorkerOK, Visited

\* pauseUnpauseMachineConfigPools.
LEMMA ManagePoolsOK == ASSUME TypeOK, ManagePools PROVE TypeOK'
<1>1. ASSUME NEW p \in Pools, KeepPool(p) PROVE TypeOK'
  <2>1. PICK m \in {mcpSeen[p], mcp[p]} : GetPool(p, m)
    BY <1>1 DEF KeepPool
  <2>2. mcpSeen' \in [Pools -> MCP] /\ BoundsOK'
    BY <1>1, <2>1, ReadsOK, ChargeOK DEF KeepPool, GetPool
  <2>3. WorkerOK'
    BY <1>1, VisitedOK DEF KeepPool, TypeOK, WorkerOK, ShouldPause
  <2> QED BY <1>1, <2>2, <2>3 DEF KeepPool, TypeOK, ServerOK, CachesOK
<1>2. ASSUME NEW p \in Pools, ExpirePool(p) PROVE TypeOK'
  <2>1. PICK m \in {mcpSeen[p], mcp[p]} : GetPool(p, m)
    BY <1>2 DEF ExpirePool
  <2>2. mcpSeen' \in [Pools -> MCP] /\ BoundsOK'
    BY <1>2, <2>1, ReadsOK, ChargeOK DEF ExpirePool, GetPool
  <2>3. uj' \in [Jobs -> UJ]
    BY <1>2, UpdateStatusOK, Conditions
    DEF ExpirePool, Fail, FailReasons, TypeOK, WorkerOK
  <2>4. WorkerOK'
    BY <1>2, ReturnOK DEF ExpirePool, Fail
  <2> QED BY <1>2, <2>2, <2>3, <2>4 DEF ExpirePool, TypeOK, ServerOK, CachesOK
<1>3. ASSUME NEW p \in Pools, UnpauseHooks(p) PROVE TypeOK'
  <2>1. PICK m \in {mcpSeen[p], mcp[p]} : GetPool(p, m)
    BY <1>3 DEF UnpauseHooks
  <2>2. ServerOK' /\ WorkerOK' /\ now' = now
    BY <1>3, HooksStopOK DEF UnpauseHooks
  <2>3. mcpSeen' \in [Pools -> MCP] /\ BoundsOK'
    BY <2>1, <2>2, ReadsOK, ChargeOK DEF GetPool
  <2> QED BY <1>3, <2>2, <2>3 DEF UnpauseHooks, TypeOK, CachesOK
<1>4. ASSUME NEW p \in Pools, TogglePool(p) PROVE TypeOK'
  <2>1. PICK m \in {mcpSeen[p], mcp[p]} :
          /\ GetPool(p, m)
          /\ \/ /\ mcp' = [mcp EXCEPT ![p] = [m EXCEPT !.paused = ShouldPause(p),
                                                       !.job = job]]
                /\ held' = (held \/ ShouldPause(p)) /\ Visited(p)
             \/ Return /\ UNCHANGED mcp
    BY <1>4 DEF TogglePool
  <2>2. m \in MCP /\ mcpSeen' \in [Pools -> MCP] /\ BoundsOK'
    BY <1>4, <2>1, ReadsOK, ChargeOK DEF TogglePool, GetPool
  <2>3. mcp' \in [Pools -> MCP]
    <3> DEFINE m2 == [m EXCEPT !.paused = ShouldPause(p), !.job = job]
    <3>1. job \in Jobs
      BY <1>4 DEF TogglePool, TypeOK, WorkerOK
    <3>2. ShouldPause(p) \in BOOLEAN
      BY <3>1, ConstantsAssumption DEF ShouldPause, TypeOK, BoundsOK
    <3>3. m2 \in MCP
      BY <2>2, <3>1, <3>2 DEF MCP
    <3>4. mcp' = [mcp EXCEPT ![p] = m2] \/ mcp' = mcp
      BY <2>1
    <3> HIDE DEF m2
    <3> QED BY <3>3, <3>4 DEF TypeOK, ServerOK
  <2>4. WorkerOK'
    BY <2>1, ReturnOK, VisitedOK DEF ShouldPause, TypeOK, WorkerOK
  <2> QED BY <1>4, <2>2, <2>3, <2>4 DEF TogglePool, TypeOK, ServerOK, CachesOK
<1>5. CASE PoolsPaused
  BY <1>5, ContinueOK, UpdateAndGotoOK, Conditions
  DEF PoolsPaused, Labels, PoolsConds, TypeOK, WorkerOK
<1> QED BY <1>1, <1>2, <1>3, <1>4, <1>5 DEF ManagePools

\* runHealthCheck
LEMMA HealthCheckOK ==
  ASSUME TypeOK, pc # "idle", NoOtherCall, NEW c \in Checks,
         NEW l \in Labels, HealthCheck(c, l)
  PROVE  TypeOK'
<1>1. luj \in UJ /\ now \in Nat
  BY DEF TypeOK, WorkerOK, BoundsOK
<1>2. CASE Return /\ UpdateStatus([luj EXCEPT !.check[c] = "false", !.since[c] = now])
  BY <1>1, <1>2, WriteReturnOK, Conditions
<1>3. CASE Goto(l) /\ UNCHANGED uj
  BY <1>3, ContinueOK
<1>4. CASE UpdateAndGoto([luj EXCEPT !.check[c] = "true", !.since[c] = 0], l)
  BY <1>1, <1>4, UpdateAndGotoOK, Conditions
<1>5. CASE Fail(CheckFailed[c])
  BY <1>5, FailOK DEF CheckFailed, FailReasons
<1>6. CASE Return /\ UNCHANGED uj
  BY <1>6, WriteReturnOK
<1> QED BY <1>2, <1>3, <1>4, <1>5, <1>6 DEF HealthCheck

\* A list of the pools is read, a condition may be written, and that is all.
LEMMA ListAndWriteOK ==
  ASSUME TypeOK, pc # "idle", NEW ms \in ListedPools, ListPools(ms), Return,
         UNCHANGED uj \/ \E new \in UJ : UpdateStatus(new),
         UNCHANGED <<cv, mcp, hook, ujSeen, cvSeen, now>>
  PROVE  TypeOK'
<1>1. uj' \in [Jobs -> UJ]
  BY UpdateStatusOK DEF TypeOK, ServerOK
<1>2. mcpSeen' \in [Pools -> MCP] /\ BoundsOK'
  BY ReadsOK, ChargeOK DEF ListPools
<1> QED BY <1>1, <1>2, ReturnOK DEF TypeOK, ServerOK, CachesOK

\* reconcileStartedJob after the pools: health checks, upgrade, success.
LEMMA UpgradeOK == ASSUME TypeOK, Upgrade PROVE TypeOK'
<1>1. CASE PreHealthCheck
  BY <1>1, HealthCheckOK DEF PreHealthCheck, Labels
<1>2. CASE NoUpgradeWanted
  BY <1>2, ContinueOK DEF NoUpgradeWanted, Labels
<1>3. CASE Withdraw
  BY <1>3, FailOK DEF Withdraw, FailReasons
<1>4. CASE StartUpgrade
  <2>1. cv' \in CV
    BY <1>4, ConstantsAssumption
    DEF StartUpgrade, Desired, CV, TypeOK, ServerOK, WorkerOK
  <2> QED BY <1>4, <2>1, ReturnOK
          DEF StartUpgrade, caches, TypeOK, ServerOK, CachesOK, BoundsOK
<1>5. CASE MarkInProgress
  BY <1>5, WriteReturnOK, Conditions DEF MarkInProgress, Upgrading, TypeOK, WorkerOK
<1>6. CASE AwaitUpgrade
  BY <1>6, WriteReturnOK DEF AwaitUpgrade, Upgrading
<1>7. CASE AwaitPools
  <2>1. PICK ms \in ListedPools :
          /\ ListPools(ms)
          /\ UNCHANGED uj \/ UpdateStatus([luj EXCEPT !.completed = "true"])
    BY <1>7 DEF AwaitPools
  <2> QED BY <1>7, <2>1, ListAndWriteOK, Conditions
          DEF AwaitPools, Upgrading, TypeOK, WorkerOK
<1>8. CASE UpgradeDone
  BY <1>8, ContinueOK DEF UpgradeDone, Upgrading, Labels
<1>9. CASE PostHealthCheck
  BY <1>9, HealthCheckOK DEF PostHealthCheck, Labels
<1>10. CASE CompleteHooks
  BY <1>10, HooksOnlyOK DEF CompleteHooks
<1>11. CASE Complete
  <2>1. PICK ms \in ListedPools :
          /\ ListPools(ms)
          /\ \/ UNCHANGED uj
             \/ UpdateStatus([luj EXCEPT !.paused = "true"])
             \/ UpdateStatus([luj EXCEPT !.paused = "false"])
             \/ UpdateStatus([luj EXCEPT !.succ = "Succeeded"])
    BY <1>11 DEF Complete
  <2>2. UNCHANGED uj \/ \E new \in UJ : UpdateStatus(new)
    BY <2>1, Conditions DEF TypeOK, WorkerOK, SuccReasons
  <2> QED BY <1>11, <2>1, <2>2, ListAndWriteOK DEF Complete
<1> QED BY <1>1, <1>2, <1>3, <1>4, <1>5, <1>6, <1>7, <1>8, <1>9, <1>10, <1>11
        DEF Upgrade

\* Reconcile of a finished job.
LEMMA CleanUpOK == ASSUME TypeOK, CleanUp PROVE TypeOK'
<1>1. CASE Succeeded
  BY <1>1, StartFinishHooksOK
  DEF Succeeded, caches, TypeOK, ServerOK, CachesOK, WorkerOK, Labels
<1>2. CASE Failed
  BY <1>2, StartFinishHooksOK, ConstantsAssumption
  DEF Failed, caches, TypeOK, ServerOK, CachesOK, WorkerOK, Labels
<1>3. CASE PausedOnFailure
  <2>1. uj' \in [Jobs -> UJ]
    BY <1>3, UpdateStatusOK, Conditions
    DEF PausedOnFailure, PoolsConds, TypeOK, WorkerOK
  <2> QED BY <1>3, <2>1, GotoOK DEF PausedOnFailure, NoOtherCall, caches,
          TypeOK, ServerOK, CachesOK, BoundsOK, Labels
<1>4. CASE CleanedUp
  BY <1>4, ContinueOK DEF CleanedUp, Labels
<1>5. CASE Unlock
  <2>1. PICK v \in {cvSeen, cv} : GetVersion(v)
    BY <1>5 DEF Unlock
  <2>2. cvSeen' \in CV /\ BoundsOK'
    BY <1>5, <2>1, ReadsOK, ChargeOK DEF Unlock, GetVersion
  <2>3. cv' \in CV
    BY <1>5 DEF Unlock, CV, TypeOK, ServerOK
  <2> QED BY <1>5, <2>2, <2>3, ReturnOK DEF Unlock, TypeOK, ServerOK, CachesOK
<1>6. ASSUME NEW p \in Pools, CleanupPool(p) PROVE TypeOK'
  <2>1. PICK m \in {mcpSeen[p], mcp[p]} : 
          /\ GetPool(p, m)
          /\ UNCHANGED hook \/
             (StatusOfHook(Unpause, p) = "none" /\ CreateHookJob(Unpause, p))
          /\ mcp' = mcp \/ mcp' = [mcp EXCEPT ![p] = [@ EXCEPT !.paused = FALSE,
                                                               !.job = None]]
    BY <1>6 DEF CleanupPool
  <2>2. mcpSeen' \in [Pools -> MCP] /\ BoundsOK'
    BY <1>6, <2>1, ReadsOK, ChargeOK DEF CleanupPool, GetPool
  <2>3. hook' \in [Jobs -> [HookRuns -> HookStatus]]
    BY <1>6, <2>1, CreateHookJobOK DEF CleanupPool, StatusOfHook, TypeOK, ServerOK
  <2>4. mcp' \in [Pools -> MCP]
    BY <2>1 DEF TypeOK, ServerOK, MCP
  <2>5. WorkerOK'
    BY <1>6, VisitedOK DEF CleanupPool, TypeOK, WorkerOK
  <2> QED BY <1>6, <2>2, <2>3, <2>4, <2>5 DEF CleanupPool, TypeOK, ServerOK, CachesOK
<1>7. ASSUME NEW p \in Pools, PausePool(p) PROVE TypeOK'
  <2>1. PICK m \in {mcpSeen[p], mcp[p]} : GetPool(p, m)
    BY <1>7 DEF PausePool
  <2>2. mcpSeen' \in [Pools -> MCP] /\ BoundsOK'
    BY <1>7, <2>1, ReadsOK, ChargeOK DEF PausePool, GetPool
  <2>3. mcp' \in [Pools -> MCP]
    BY <1>7 DEF PausePool, TypeOK, ServerOK, MCP
  <2>4. WorkerOK'
    BY <1>7, VisitedOK DEF PausePool, TypeOK, WorkerOK
  <2> QED BY <1>7, <2>2, <2>3, <2>4 DEF PausePool, TypeOK, ServerOK, CachesOK
<1> QED BY <1>1, <1>2, <1>3, <1>4, <1>5, <1>6, <1>7 DEF CleanUp

\* The clock, the cluster and its people.
LEMMA EnvironmentOK == ASSUME TypeOK, Environment PROVE TypeOK'
<1> USE DEF TypeOK, ServerOK, CachesOK, BoundsOK, WorkerOK, caches, worker
<1>1. CASE Tick
  BY <1>1, ConstantsAssumption DEF Tick
<1>2. CASE VersionChanges
  <2>1. cv' \in CV
    <3>1. CASE "degraded" \in Toggles /\ cv' = [cv EXCEPT !.degraded = ~@]
      BY <3>1 DEF CV
    <3>2. CASE cv' = [cv EXCEPT !.done = @ \cup {cv.desired}]
               /\ cv.desired \in Versions
      BY <3>2 DEF CV
    <3>3. ASSUME NEW v \in Versions, NEW a \in SUBSET Versions,
                 cv' = [cv EXCEPT !.available = a]
          PROVE  cv' \in CV
      BY <3>3 DEF CV
    <3>4. ASSUME NEW v \in Versions
          PROVE  (IF v \in cv.available THEN cv.available \ {v}
                  ELSE cv.available \cup {v}) \in SUBSET Versions
      BY DEF CV
    <3> QED BY <1>2, <3>1, <3>2, <3>3, <3>4 DEF VersionChanges
  <2> QED BY <1>2, <2>1 DEF VersionChanges
<1>3. ASSUME NEW j \in Jobs, Delete(j) PROVE TypeOK'
  <2>1. uj' \in [Jobs -> UJ]
    <3>1. [uj[j] EXCEPT !.live = FALSE] \in UJ
      BY DEF UJ
    <3>2. uj' = [uj EXCEPT ![j] = [uj[j] EXCEPT !.live = FALSE]]
      BY <1>3, Zenon DEF Delete
    <3> QED BY <3>1, <3>2
  <2> QED BY <1>3, <2>1 DEF Delete
<1>4. ASSUME NEW j \in Jobs, NEW r \in HookRuns, HookFinishes(j, r) PROVE TypeOK'
  <2>1. hook' \in [Jobs -> [HookRuns -> HookStatus]]
    BY <1>4 DEF HookFinishes, HookStatus
  <2> QED BY <1>4, <2>1 DEF HookFinishes
<1>5. ASSUME NEW p \in Pools, PoolChanges(p) PROVE TypeOK'
  <2>1. PICK m \in MCP : mcp' = [mcp EXCEPT ![p] = m]
    <3>1. \A b \in BOOLEAN : /\ [mcp[p] EXCEPT !.updating = b] \in MCP
                             /\ [mcp[p] EXCEPT !.paused = b] \in MCP
      BY DEF MCP
    <3>2. (~mcp[p].paused) \in BOOLEAN
      BY DEF MCP
    <3> QED BY <1>5, <3>1, <3>2 DEF PoolChanges
  <2> QED BY <1>5, <2>1 DEF PoolChanges
<1> QED BY <1>1, <1>2, <1>3, <1>4, <1>5 DEF Environment

\* Reconcile reads the job it was called for.
LEMMA BeginOK == ASSUME TypeOK, NEW j \in Jobs, Begin(j) PROVE TypeOK'
<1>1. PICK u \in {ujSeen[j], uj[j]} :
        GetJob(j, u) /\ job' = j /\ luj' = u
        /\ pc' \in {"succeeded", "failed", "pending"}
  BY DEF Begin, Branch
<1>2. u \in UJ /\ ujSeen' \in [Jobs -> UJ] /\ BoundsOK'
  BY <1>1, ReadsOK, ChargeOK DEF Begin, GetJob
<1> QED BY <1>1, <1>2 DEF Begin, TypeOK, ServerOK, CachesOK, WorkerOK, Labels

\* Next preserves the types.
LEMMA TypeStep == ASSUME TypeOK, [Next]_vars PROVE TypeOK'
<1>1. CASE Reconcile
  BY <1>1, PendingOK, StartedOK, ManagePoolsOK, UpgradeOK, CleanUpOK DEF Reconcile
<1>2. CASE Abort
  BY <1>2, ReturnOK, ChargeOK DEF Abort, caches, TypeOK, ServerOK, CachesOK
<1>3. ASSUME NEW p \in Pools, PoolFault(p) PROVE TypeOK'
  BY <1>3, VisitedOK, ChargeOK
  DEF PoolFault, caches, TypeOK, ServerOK, CachesOK, WorkerOK
<1>4. CASE UNCHANGED vars
  BY <1>4 DEF vars, TypeOK, ServerOK, CachesOK, WorkerOK, BoundsOK
<1> QED BY <1>1, <1>2, <1>3, <1>4, BeginOK, EnvironmentOK DEF Next

\* The state of the reconciler, of its caches and of the cluster is well typed
\* in every reachable state: the caches hold objects, never part of one, and
\* the bounds on time and faults are kept.
THEOREM TypeCorrect == Spec => []TypeOK
<1>1. ASSUME Init PROVE TypeOK
  <2>1. ServerOK
    BY <1>1, NewObjects DEF Init, ServerOK, HookStatus
  <2>2. CachesOK /\ WorkerOK
    BY <1>1, NewObjects DEF Init, CachesOK, WorkerOK, Labels
  <2>3. BoundsOK
    BY <1>1, ConstantsAssumption DEF Init, BoundsOK
  <2> QED BY <2>1, <2>2, <2>3 DEF TypeOK
<1>2. TypeOK /\ [Next]_vars => TypeOK'
  BY TypeStep
<1> QED BY <1>1, <1>2, PTL DEF Spec

-----------------------------------------------------------------------------
(* The lock.  Every action is one of three kinds for LockInv: it ends the  *)
(* reconcile, it goes on within it, or it leaves the worker alone.         *)

\* Status().Update succeeds only on the current version, so it keeps every
\* outcome if what is written keeps the outcome of the worker's copy.
LEMMA UpdateKeeps ==
  ASSUME TypeOK, pc # "idle", NEW new \in UJ, UpdateStatus(new),
         Finished(luj) => new.succ = luj.succ /\ new.fail = luj.fail
  PROVE  KeepsOutcomes
  BY DEF TypeOK, ServerOK, WorkerOK, UpdateStatus, Current, KeepsOutcomes

\* A step that writes no job keeps every outcome.
LEMMA SameJobsKeep == ASSUME UNCHANGED uj PROVE KeepsOutcomes
  BY DEF KeepsOutcomes

\* The condition on the managed pools does not touch the outcome.
LEMMA Outcomes ==
  ASSUME NEW u \in UJ
  PROVE  \A c \in PoolsConds : LET n == [u EXCEPT !.pools = c] IN
           n.succ = u.succ /\ n.fail = u.fail
  BY DEF UJ

\* The reconcile ends.
LEMMA ReturnLock ==
  ASSUME LockInv, KeepsOutcomes, Return, cv'.lock = cv.lock,
         UNCHANGED <<ujSeen, cvSeen>>
  PROVE  LockInv'
  BY DEF LockInv, LockHeld, Unfinished, Finishing, Locked, KeepsOutcomes, Finished,
         Return

\* The reconcile of an unfinished job goes on.
LEMMA GoOnLock ==
  ASSUME LockInv, KeepsOutcomes, cv'.lock = cv.lock,
         UNCHANGED <<ujSeen, cvSeen, job>>, ~Finished(luj'),
         pc \in Unfinished, pc' \in Unfinished, pc' \in Locked => pc \in Locked
  PROVE  LockInv'
  BY DEF LockInv, LockHeld, Unfinished, Finishing, Locked, KeepsOutcomes, Finished

\* The reconcile of a finished job goes on.
LEMMA FinishingLock ==
  ASSUME LockInv, KeepsOutcomes, cv'.lock = cv.lock,
         UNCHANGED <<ujSeen, cvSeen, job, luj>>, pc \in Finishing, pc' \in Finishing
  PROVE  LockInv'
  BY DEF LockInv, LockHeld, Unfinished, Finishing, Locked, KeepsOutcomes, Finished

\* An unfinished job gets a condition, and the reconcile ends.
LEMMA WriteReturnLock ==
  ASSUME TypeOK, LockInv, pc \in Unfinished, Return,
         UNCHANGED uj \/ \E new \in UJ : UpdateStatus(new),
         cv'.lock = cv.lock, UNCHANGED <<ujSeen, cvSeen>>
  PROVE  LockInv' /\ KeepsOutcomes
<1>1. pc # "idle" /\ ~Finished(luj)
  BY DEF LockInv, Unfinished, Locked
<1>2. KeepsOutcomes
  BY <1>1, UpdateKeeps, SameJobsKeep
<1> QED BY <1>2, ReturnLock

\* An unfinished job fails, and the reconcile ends.
LEMMA FailLock ==
  ASSUME TypeOK, LockInv, pc \in Unfinished, cv'.lock = cv.lock,
         UNCHANGED <<ujSeen, cvSeen>>, NEW r \in FailReasons, Fail(r)
  PROVE  LockInv' /\ KeepsOutcomes
  BY WriteReturnLock, Conditions DEF Fail, TypeOK, WorkerOK

\* An unfinished job succeeds, and the reconcile ends.
LEMMA SucceedLock ==
  ASSUME TypeOK, LockInv, pc \in Unfinished, cv'.lock = cv.lock,
         UNCHANGED <<ujSeen, cvSeen>>, NEW r \in SuccReasons, Succeed(r)
  PROVE  LockInv' /\ KeepsOutcomes
  BY WriteReturnLock, Conditions DEF Succeed, TypeOK, WorkerOK

\* executeHooks ends the reconcile of an unfinished job.
LEMMA HooksStopLock ==
  ASSUME TypeOK, LockInv, pc \in Unfinished, NEW e, NEW k, HooksStop(e, k),
         UNCHANGED <<ujSeen, cvSeen>>
  PROVE  LockInv' /\ KeepsOutcomes
<1>1. cv'.lock = cv.lock
  BY DEF HooksStop
<1>2. CASE Return /\ UNCHANGED uj
  BY <1>1, <1>2, WriteReturnLock
<1>3. CASE Fail("HookFailed")
  BY <1>1, <1>3, FailLock DEF FailReasons
<1>4. CASE Succeed("HookRequestedSkip")
  BY <1>1, <1>4, SucceedLock DEF SuccReasons
<1> QED BY <1>2, <1>3, <1>4 DEF HooksStop

\* The reconcile goes on without or with a write to the job's status.
LEMMA GotoLock ==
  ASSUME LockInv, pc \in Unfinished, NEW l \in Unfinished, Goto(l),
         l \in Locked => pc \in Locked, UNCHANGED <<uj, cv, ujSeen, cvSeen>>
  PROVE  LockInv' /\ KeepsOutcomes
<1>1. ~Finished(luj') /\ pc' = l /\ job' = job
  BY DEF LockInv, Goto
<1> QED BY <1>1, SameJobsKeep, GoOnLock

\* A condition that is no outcome is written under the lock.
LEMMA UpdateAndGotoLock ==
  ASSUME TypeOK, LockInv, pc \in Locked, NEW l \in Locked, NEW new \in UJ,
         UpdateAndGoto(new, l), new.succ = luj.succ, new.fail = luj.fail,
         UNCHANGED <<cv, ujSeen, cvSeen>>
  PROVE  LockInv' /\ KeepsOutcomes
<1>1. KeepsOutcomes
  BY UpdateKeeps DEF UpdateAndGoto, Locked
<1>2. CASE Return
  BY <1>1, <1>2, ReturnLock
<1>3. CASE ~Return
  <2>1. pc' = l /\ luj' = new /\ job' = job
    BY <1>3 DEF UpdateAndGoto
  <2>2. ~Finished(luj')
    BY <2>1 DEF LockInv, Unfinished, Finished
  <2> QED BY <1>1, <2>1, <2>2, GoOnLock DEF Unfinished
<1> QED BY <1>2, <1>3

\* Reconcile before the job has started: no lock is involved.
LEMMA PendingLock == ASSUME TypeOK, LockInv, Pending PROVE LockInv' /\ KeepsOutcomes
<1> USE DEF NoOtherCall, caches
<1>1. pc \in Unfinished
  BY DEF Pending, CreateHooks, Skip, Expire, Start, WaitForStart, Unstarted, Unfinished
<1>2. CASE CreateHooks
  BY <1>1, <1>2, HooksStopLock DEF CreateHooks
<1>3. CASE Skip
  BY <1>1, <1>3, SucceedLock DEF Skip, SuccReasons
<1>4. CASE Expire
  BY <1>1, <1>4, FailLock DEF Expire, FailReasons
<1>5. CASE Start
  BY <1>1, <1>5, WriteReturnLock, Conditions DEF Start, TypeOK, WorkerOK
<1>6. CASE WaitForStart
  BY <1>1, <1>6, WriteReturnLock DEF WaitForStart
<1> QED BY <1>2, <1>3, <1>4, <1>5, <1>6 DEF Pending

\* tryLockClusterVersion: a lock read from the cache is still held, because the
\* job it was read for is cached as unfinished; a free lock is taken only when
\* the copy is current.
LEMMA TryLockLock == ASSUME TypeOK, LockInv, TryLock PROVE LockInv' /\ KeepsOutcomes
<1>1. PICK v \in {cvSeen, cv} :
        /\ cvSeen' = v
        /\ \/ /\ v.lock = job
              /\ pc' = "pools" /\ UNCHANGED <<cv, job, luj>>
           \/ /\ v.lock = None /\ v = cv
              /\ cv' = [v EXCEPT !.lock = job]
              /\ pc' = "pools" /\ UNCHANGED <<job, luj>>
           \/ Return /\ UNCHANGED cv
  BY DEF TryLock, GetVersion, LockFree
<1>2. KeepsOutcomes /\ UNCHANGED <<uj, ujSeen>>
  BY SameJobsKeep DEF TryLock
<1>3. job \in Jobs /\ pc \in Unfinished /\ ~Finished(ujSeen[job]) /\ ~Finished(luj)
  BY DEF TryLock, TypeOK, WorkerOK, LockInv, Unfinished
<1>4. \A j \in Jobs : v.lock = j /\ ~Finished(ujSeen[j]) => cv.lock = j
  BY DEF LockInv
<1>5. CASE Return /\ UNCHANGED cv
  BY <1>1, <1>2, <1>4, <1>5
  DEF LockInv, LockHeld, Return, Unfinished, Finishing, Locked
<1>6. CASE v.lock = job /\ pc' = "pools" /\ UNCHANGED <<cv, job, luj>>
  BY <1>1, <1>2, <1>3, <1>4, <1>6
  DEF LockInv, LockHeld, Unfinished, Finishing, Locked
<1>7. CASE /\ v.lock = None /\ v = cv /\ cv' = [v EXCEPT !.lock = job]
           /\ pc' = "pools" /\ UNCHANGED <<job, luj>>
  <2>1. cv'.lock = job
    BY <1>7 DEF TypeOK, ServerOK, CV
  <2>2. \A j \in Jobs : cvSeen'.lock # j
    BY <1>1, <1>7, ConstantsAssumption
  <2> QED BY <1>2, <1>3, <1>7, <2>1, <2>2
          DEF LockInv, LockHeld, Unfinished, Finishing, Locked
<1> QED BY <1>1, <1>2, <1>5, <1>6, <1>7

\* reconcileStartedJob up to the lock.
LEMMA StartedLock == ASSUME TypeOK, LockInv, Started PROVE LockInv' /\ KeepsOutcomes
<1> USE DEF NoOtherCall, caches
<1>1. CASE TimeOut
  BY <1>1, FailLock DEF TimeOut, Running, Unfinished, FailReasons
<1>2. CASE StartHooks
  BY <1>2, HooksStopLock DEF StartHooks, Running, Unfinished
<1>3. CASE StartHooksDone
  BY <1>3, GotoLock DEF StartHooksDone, Running, Unfinished, Locked
<1> QED BY <1>1, <1>2, <1>3, TryLockLock DEF Started

\* pauseUnpauseMachineConfigPools runs under the lock and leaves it alone.
LEMMA ManagePoolsLock ==
  ASSUME TypeOK, LockInv, ManagePools PROVE LockInv' /\ KeepsOutcomes
<1>1. pc = "pools" /\ pc \in Locked /\ pc \in Unfinished /\ ~Finished(luj)
  BY DEF ManagePools, KeepPool, ExpirePool, UnpauseHooks, TogglePool, PoolsPaused,
         Locked, Unfinished, LockInv
<1>2. ASSUME NEW p \in Pools, KeepPool(p) PROVE LockInv' /\ KeepsOutcomes
  BY <1>1, <1>2, GoOnLock, SameJobsKeep DEF KeepPool, Visited
<1>3. ASSUME NEW p \in Pools, ExpirePool(p) PROVE LockInv' /\ KeepsOutcomes
  BY <1>1, <1>3, FailLock DEF ExpirePool, FailReasons
<1>4. ASSUME NEW p \in Pools, UnpauseHooks(p) PROVE LockInv' /\ KeepsOutcomes
  BY <1>1, <1>4, HooksStopLock DEF UnpauseHooks
<1>5. ASSUME NEW p \in Pools, TogglePool(p) PROVE LockInv' /\ KeepsOutcomes
  <2>1. Return \/ Visited(p)
    BY <1>5 DEF TogglePool
  <2>2. UNCHANGED <<uj, cv, ujSeen, cvSeen>>
    BY <1>5 DEF TogglePool
  <2> QED BY <1>1, <2>1, <2>2, SameJobsKeep, ReturnLock, GoOnLock DEF Visited
<1>6. CASE PoolsPaused
  <2>1. luj \in UJ /\ UNCHANGED <<cv, ujSeen, cvSeen>>
    BY <1>6 DEF PoolsPaused, NoOtherCall, caches, TypeOK, WorkerOK
  <2>2. PICK c \in PoolsConds :
          \/ Goto("preHealth") /\ UNCHANGED uj
          \/ UpdateAndGoto([luj EXCEPT !.pools = c], "preHealth")
    BY <1>6 DEF PoolsPaused, PoolsConds
  <2>3. "preHealth" \in Locked /\ "preHealth" \in Unfinished
    BY DEF Locked, Unfinished
  <2>4. CASE Goto("preHealth") /\ UNCHANGED uj
    BY <1>1, <2>1, <2>3, <2>4, GotoLock
  <2>5. CASE UpdateAndGoto([luj EXCEPT !.pools = c], "preHealth")
    BY <1>1, <2>1, <2>3, <2>5, UpdateAndGotoLock, Conditions, Outcomes
  <2> QED BY <2>2, <2>4, <2>5
<1> QED BY <1>2, <1>3, <1>4, <1>5, <1>6 DEF ManagePools

\* runHealthCheck runs under the lock and leaves it alone.
LEMMA HealthCheckLock ==
  ASSUME TypeOK, LockInv, pc \in Locked, NoOtherCall, NEW c \in Checks,
         NEW l \in Locked, HealthCheck(c, l)
  PROVE  LockInv' /\ KeepsOutcomes
<1>1. luj \in UJ /\ now \in Nat
  BY DEF TypeOK, WorkerOK, BoundsOK
<1>2. pc \in Unfinished /\ l \in Unfinished /\ UNCHANGED <<cv, ujSeen, cvSeen>>
  BY DEF Unfinished, NoOtherCall, caches
<1>3. CASE Return /\ UpdateStatus([luj EXCEPT !.check[c] = "false", !.since[c] = now])
  BY <1>1, <1>2, <1>3, WriteReturnLock, Conditions
<1>4. CASE Goto(l) /\ UNCHANGED uj
  BY <1>2, <1>4, GotoLock
<1>5. CASE UpdateAndGoto([luj EXCEPT !.check[c] = "true", !.since[c] = 0], l)
  <2> DEFINE new == [luj EXCEPT !.check[c] = "true", !.since[c] = 0]
  <2>1. new \in UJ
    BY <1>1, Conditions
  <2>2. new.succ = luj.succ /\ new.fail = luj.fail
    BY <1>1 DEF UJ
  <2> HIDE DEF new
  <2>3. UpdateAndGoto(new, l)
    BY <1>5 DEF new
  <2> QED BY <1>2, <2>1, <2>2, <2>3, UpdateAndGotoLock
<1>6. CASE Fail(CheckFailed[c])
  BY <1>2, <1>6, FailLock DEF CheckFailed, FailReasons
<1>7. CASE Return /\ UNCHANGED uj
  BY <1>2, <1>7, WriteReturnLock
<1> QED BY <1>3, <1>4, <1>5, <1>6, <1>7 DEF HealthCheck

\* The rest of reconcileStartedJob writes the version but never the lock.
LEMMA UpgradeLock == ASSUME TypeOK, LockInv, Upgrade PROVE LockInv' /\ KeepsOutcomes
<1> USE DEF NoOtherCall, caches
<1>1. pc \in Locked /\ pc \in Unfinished
  BY DEF Upgrade, PreHealthCheck, NoUpgradeWanted, Withdraw, StartUpgrade, MarkInProgress,
         AwaitUpgrade, AwaitPools, UpgradeDone, PostHealthCheck, CompleteHooks, Complete,
         Upgrading, Locked, Unfinished
<1>2. CASE PreHealthCheck
  BY <1>1, <1>2, HealthCheckLock DEF PreHealthCheck, Locked
<1>3. CASE NoUpgradeWanted
  BY <1>1, <1>3, GotoLock DEF NoUpgradeWanted, Locked, Unfinished
<1>4. CASE Withdraw
  BY <1>1, <1>4, FailLock DEF Withdraw, FailReasons
<1>5. CASE StartUpgrade
  <2>1. cv'.lock = cv.lock
    BY <1>5 DEF StartUpgrade, TypeOK, ServerOK, CV
  <2> QED BY <1>1, <1>5, <2>1, WriteReturnLock DEF StartUpgrade
<1>6. CASE MarkInProgress
  BY <1>1, <1>6, WriteReturnLock, Conditions DEF MarkInProgress, TypeOK, WorkerOK
<1>7. CASE AwaitUpgrade
  BY <1>1, <1>7, WriteReturnLock DEF AwaitUpgrade
<1>8. CASE AwaitPools
  <2>1. UNCHANGED uj \/ UpdateStatus([luj EXCEPT !.completed = "true"])
    BY <1>8 DEF AwaitPools
  <2> QED BY <1>1, <1>8, <2>1, WriteReturnLock, Conditions
          DEF AwaitPools, TypeOK, WorkerOK
<1>9. CASE UpgradeDone
  BY <1>1, <1>9, GotoLock DEF UpgradeDone, Locked, Unfinished
<1>10. CASE PostHealthCheck
  BY <1>1, <1>10, HealthCheckLock DEF PostHealthCheck, Locked
<1>11. CASE CompleteHooks
  BY <1>1, <1>11, HooksStopLock DEF CompleteHooks
<1>12. CASE Complete
  <2>1. \/ UNCHANGED uj
        \/ UpdateStatus([luj EXCEPT !.paused = "true"])
        \/ UpdateStatus([luj EXCEPT !.paused = "false"])
        \/ UpdateStatus([luj EXCEPT !.succ = "Succeeded"])
    BY <1>12 DEF Complete
  <2>2. UNCHANGED uj \/ \E new \in UJ : UpdateStatus(new)
    BY <2>1, Conditions DEF TypeOK, WorkerOK, SuccReasons
  <2> QED BY <1>1, <1>12, <2>2, WriteReturnLock DEF Complete
<1> QED BY <1>2, <1>3, <1>4, <1>5, <1>6, <1>7, <1>8, <1>9, <1>10, <1>11, <1>12
        DEF Upgrade

\* cleanupLock gives up a lock only for a job that is cached as finished.
LEMMA UnlockLock == ASSUME TypeOK, LockInv, Unlock PROVE LockInv' /\ KeepsOutcomes
<1>1. PICK v \in {cvSeen, cv} :
        /\ cvSeen' = v
        /\ cv' = IF v.lock = job /\ v = cv THEN [cv EXCEPT !.lock = None] ELSE cv
  BY DEF Unlock, GetVersion
<1>2. KeepsOutcomes /\ UNCHANGED <<uj, ujSeen>> /\ pc' = "idle"
  BY SameJobsKeep DEF Unlock, Return
<1>3. Finished(ujSeen[job])
  BY DEF Unlock, LockInv, Finishing
<1>4. \A j \in Jobs : cvSeen'.lock = j /\ ~Finished(ujSeen[j]) => cv'.lock = j
  BY <1>1, <1>3 DEF LockInv
<1> QED BY <1>2, <1>4 DEF LockInv, LockHeld, Unfinished, Finishing, Locked

\* Reconcile of a finished job.
LEMMA CleanUpLock == ASSUME TypeOK, LockInv, CleanUp PROVE LockInv' /\ KeepsOutcomes
<1> USE DEF caches
<1>1. CASE Succeeded
  BY <1>1, SameJobsKeep, FinishingLock DEF Succeeded, Finishing
<1>2. CASE Failed
  BY <1>2, SameJobsKeep, FinishingLock DEF Failed, Finishing
<1>3. CASE PausedOnFailure
  <2>1. KeepsOutcomes
    BY <1>3, UpdateKeeps, Conditions, Outcomes
    DEF PausedOnFailure, PoolsConds, TypeOK, WorkerOK
  <2> QED BY <1>3, <2>1, FinishingLock DEF PausedOnFailure, NoOtherCall, Goto, Finishing
<1>4. CASE CleanedUp
  BY <1>4, SameJobsKeep, FinishingLock DEF CleanedUp, NoOtherCall, Goto, Finishing
<1>5. ASSUME NEW p \in Pools, CleanupPool(p) PROVE LockInv' /\ KeepsOutcomes
  BY <1>5, SameJobsKeep, FinishingLock DEF CleanupPool, Visited, Finishing
<1>6. ASSUME NEW p \in Pools, PausePool(p) PROVE LockInv' /\ KeepsOutcomes
  BY <1>6, SameJobsKeep, FinishingLock DEF PausePool, Visited, Finishing
<1> QED BY <1>1, <1>2, <1>3, <1>4, <1>5, <1>6, UnlockLock DEF CleanUp

\* A reconcile begins: what it reads is at least as new as the cache.
LEMMA BeginLock ==
  ASSUME TypeOK, LockInv, NEW j \in Jobs, Begin(j)
  PROVE  LockInv' /\ KeepsOutcomes
<1>1. PICK u \in {ujSeen[j], uj[j]} :
        /\ ujSeen' = [ujSeen EXCEPT ![j] = u] /\ job' = j /\ luj' = u
        /\ pc' = IF u.succ # "" THEN "succeeded"
                 ELSE IF u.fail # "" THEN "failed" ELSE "pending"
  BY DEF Begin, GetJob, Branch
<1>2. UNCHANGED <<uj, cv, cvSeen>> /\ KeepsOutcomes
  BY SameJobsKeep DEF Begin
<1>3. Finished(ujSeen[j]) => Finished(u)
  BY <1>1 DEF LockInv
<1>4. ujSeen'[j] = u /\ \A i \in Jobs : i # j => ujSeen'[i] = ujSeen[i]
  BY <1>1 DEF TypeOK, CachesOK
<1>5. \A i \in Jobs : Finished(ujSeen'[i]) => Finished(uj'[i])
  BY <1>1, <1>2, <1>4 DEF LockInv
<1>6. \A i \in Jobs : ~Finished(ujSeen'[i]) => ~Finished(ujSeen[i])
  BY <1>3, <1>4
<1>7. /\ pc' \in Unfinished => ~Finished(luj') /\ ~Finished(ujSeen'[job'])
      /\ pc' \in Finishing => Finished(luj') /\ Finished(ujSeen'[job'])
      /\ pc' \notin Locked
  BY <1>1, <1>4 DEF Finished, Unfinished, Finishing, Locked
<1> QED BY <1>2, <1>5, <1>6, <1>7 DEF LockInv, LockHeld

\* The surroundings never touch the lock or an outcome.
LEMMA EnvironmentLock ==
  ASSUME TypeOK, LockInv, Environment
  PROVE  LockInv' /\ KeepsOutcomes
<1>1. cv'.lock = cv.lock /\ UNCHANGED <<ujSeen, cvSeen, worker>>
  BY DEF Environment, Tick, VersionChanges, Delete, HookFinishes, PoolChanges, caches,
         worker, TypeOK, ServerOK, CV
<1>2. KeepsOutcomes
  <2>1. CASE UNCHANGED uj
    BY <2>1, SameJobsKeep
  <2>2. ASSUME NEW j \in Jobs, Delete(j) PROVE KeepsOutcomes
    BY <2>2 DEF Delete, KeepsOutcomes, TypeOK, ServerOK, UJ
  <2> QED BY <2>1, <2>2 DEF Environment, Tick, VersionChanges, HookFinishes, PoolChanges
<1> QED BY <1>1, <1>2 DEF worker, LockInv, LockHeld, KeepsOutcomes, Finished

\* Every step keeps the invariant of the lock and the outcomes.
LEMMA LockStep ==
  ASSUME TypeOK, LockInv, [Next]_vars PROVE LockInv' /\ KeepsOutcomes
<1>1. CASE Reconcile
  BY <1>1, PendingLock, StartedLock, ManagePoolsLock, UpgradeLock, CleanUpLock
  DEF Reconcile
<1>2. CASE Abort
  BY <1>2, ReturnLock, SameJobsKeep DEF Abort, caches
<1>3. ASSUME NEW p \in Pools, PoolFault(p) PROVE LockInv' /\ KeepsOutcomes
  BY <1>3, FinishingLock, SameJobsKeep DEF PoolFault, Visited, caches, Finishing
<1>4. CASE UNCHANGED vars
  BY <1>4 DEF vars, LockInv, LockHeld, KeepsOutcomes
<1> QED BY <1>1, <1>2, <1>3, <1>4, BeginLock, EnvironmentLock DEF Next

\* Nothing is locked, cached or finished at the start.
LEMMA InitLock == ASSUME Init PROVE LockInv
  BY ConstantsAssumption
  DEF Init, LockInv, LockHeld, NewJob, NewVersion, Finished, Unfinished, Finishing, Locked

\* What the caches show of outcomes and locks is true of the server: an outcome
\* is there, and so is the lock of a job that is cached as unfinished.
THEOREM LockInvariant == Spec => []LockInv
<1>1. TypeOK /\ LockInv /\ [Next]_vars => LockInv'
  BY LockStep
<1> QED BY <1>1, InitLock, TypeCorrect, PTL DEF Spec

\* The lock works: a job that has passed tryLockClusterVersion in this
\* reconcile holds the ClusterVersion lock at the server, whatever the caches
\* showed, for any number of jobs.
THEOREM LockSafe == Spec => []LockHeld
<1>1. LockInv => LockHeld
  BY DEF LockInv
<1> QED BY <1>1, LockInvariant, PTL

\* Outcomes are final: a recorded Succeeded or Failed condition is never
\* joined or replaced by another, for any number of jobs and any staleness.
THEOREM OutcomesFinal == Spec => OutcomeFinal
<1>1. TypeOK /\ LockInv /\ [Next]_vars => LockInv' /\ KeepsOutcomes
  BY LockStep
<1> QED BY <1>1, InitLock, TypeCorrect, PTL DEF Spec, OutcomeFinal
=============================================================================
