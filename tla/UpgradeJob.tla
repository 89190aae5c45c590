----------------------------- MODULE UpgradeJob -----------------------------
(***************************************************************************)
(* The UpgradeJob reconciler (controllers/upgradejob_controller.go): one   *)
(* worker that takes UpgradeJobs from a work queue and drives each through *)
(* hooks, the ClusterVersion lock, machine config pool delays, health      *)
(* checks, the upgrade itself and the clean-up after it.                   *)
(*                                                                         *)
(* A reconcile is a sequence of API calls; every action of the worker ends *)
(* after at most one write, so that the cluster, the administrator and the *)
(* clock can move between any two calls.  Reads go through an informer     *)
(* cache and may be stale; a write carries the resource version of the     *)
(* object it was made from and is rejected when the server has moved on.   *)
(* Two copies have the same resource version here when they are equal.     *)
(***************************************************************************)
EXTENDS Integers, FiniteSets

CONSTANTS
  Jobs,                \* the UpgradeJobs
  Pools,               \* the MachineConfigPools of the cluster
  Versions,            \* the versions an UpgradeJob may ask for
  None,                \* no job, no version, no tracking key
  DesiredVersion,      \* [Jobs -> Versions \cup {None}]
  CheckAvailability,   \* [Jobs -> BOOLEAN], DesiredVersionCheckAvailability
  StartAfter,          \* [Jobs -> Nat]
  StartBefore,         \* [Jobs -> Nat]
  UpgradeTimeout,      \* Nat, relative to StartAfter
  HealthTimeout,       \* [Checks -> Nat]
  SkipDegraded,        \* SUBSET Checks, checks that ignore degraded operators
  DelayedPools,        \* SUBSET Pools, the pools with a delayUpgrade
  DelayMin,            \* [Pools -> Nat]
  DelayMax,            \* [Pools -> Nat], 0 when not set
  PauseOnFailure,      \* SUBSET Pools, {} when not enabled
  HookEvents,          \* SUBSET Events, the events that have a hook
  SuspendedAt,         \* [Jobs -> SUBSET Nat], inside a suspension window
  Deletable,           \* SUBSET Jobs, the jobs somebody may delete
  AdminPools,          \* SUBSET Pools, the pools somebody may (un)pause
  Toggles,             \* SUBSET {"available", "degraded"}, what may flip
  MaxTime,             \* bound on the clock
  MaxFaults            \* bound on stale reads and on failed API calls

Checks == {"pre", "post"}
Unkeyed == {"Create", "Start", "UpgradeComplete", "Finish", "Success", "Failure"}
Unpause == "MachineConfigPoolUnpause"
Events == Unkeyed \cup {Unpause}

ASSUME ConstantsAssumption ==
  /\ None \notin Jobs \cup Versions \cup Pools
  /\ DesiredVersion \in [Jobs -> Versions \cup {None}]
  /\ CheckAvailability \in [Jobs -> BOOLEAN]
  /\ StartAfter \in [Jobs -> Nat] /\ StartBefore \in [Jobs -> Nat]
  /\ UpgradeTimeout \in Nat /\ HealthTimeout \in [Checks -> Nat]
  /\ SkipDegraded \subseteq Checks
  /\ DelayedPools \subseteq Pools /\ PauseOnFailure \subseteq Pools
  /\ DelayMin \in [Pools -> Nat] /\ DelayMax \in [Pools -> Nat]
  /\ HookEvents \subseteq Events
  /\ SuspendedAt \in [Jobs -> SUBSET Nat]
  /\ Deletable \subseteq Jobs /\ AdminPools \subseteq Pools
  /\ Toggles \subseteq {"available", "degraded"}
  /\ MaxTime \in Nat /\ MaxFaults \in Nat

VARIABLES
  uj,        \* UpgradeJobs at the API server
  cv,        \* the ClusterVersion at the API server
  mcp,       \* MachineConfigPools at the API server
  hook,      \* the hook runs of every job
  ujSeen,    \* the informer caches
  cvSeen,
  mcpSeen,
  pc,        \* the API call the worker makes next
  job,       \* the job it reconciles
  luj,       \* its copy of that job, `uj' in the code
  ver,       \* its copy of the ClusterVersion, `version' in the code
  todo,      \* pools its loop has still to visit
  held,      \* controllerPausedPools
  now,       \* the clock
  faults     \* stale reads and failed calls left

caches == <<ujSeen, cvSeen, mcpSeen>>
worker == <<pc, job, luj, ver, todo, held>>
vars == <<uj, cv, mcp, hook, ujSeen, cvSeen, mcpSeen,
          pc, job, luj, ver, todo, held, now, faults>>

(***************************************************************************)
(* The objects.  The conditions of a job are fields; "" is an absent       *)
(* reason, "nil" an absent condition.  The time of a health check's last   *)
(* transition is kept while the check is running, nothing reads it later.  *)
(***************************************************************************)
Tri == {"nil", "false", "true"}
SuccReasons == {"Skipped", "HookRequestedSkip", "Succeeded"}
FailReasons == {"Expired", "TimedOut", "PreHealthCheckFailed",
                "PostHealthCheckFailed", "UpgradeWithdrawn", "HookFailed",
                "UnpausingPoolsExpired"}
PoolsConds == {"nil", "NoManagedPools", "DelaySetFalse", "DelaySetTrue",
               "PausedOnFailure"}

UJ == [live: BOOLEAN, started: BOOLEAN,
       succ: SuccReasons \cup {""}, fail: FailReasons \cup {""},
       check: [Checks -> Tri], since: [Checks -> Nat],
       completed: Tri, paused: Tri, pools: PoolsConds]
CV == [lock: Jobs \cup {None}, desired: Versions \cup {None},
       available: SUBSET Versions, degraded: BOOLEAN, done: SUBSET Versions]
MCP == [paused: BOOLEAN, job: Jobs \cup {None}, updating: BOOLEAN]

HookRuns == {<<e, None>> : e \in HookEvents \ {Unpause}}
              \cup {<<e, p>> : e \in HookEvents \cap {Unpause}, p \in Pools}
HookStatus == {"none", "active", "complete", "failed", "skip"}

NewJob == [live |-> TRUE, started |-> FALSE, succ |-> "", fail |-> "",
           check |-> [c \in Checks |-> "nil"], since |-> [c \in Checks |-> 0],
           completed |-> "nil", paused |-> "nil", pools |-> "nil"]
NewVersion == [lock |-> None, desired |-> None, available |-> Versions,
               degraded |-> FALSE, done |-> {}]
NewPool == [paused |-> FALSE, job |-> None, updating |-> FALSE]

Finished(u) == u.succ # "" \/ u.fail # ""

(***************************************************************************)
(* The API.  A read returns what the cache holds or, when the watch has    *)
(* caught up, what the server holds; reading an outdated copy costs a      *)
(* fault, so that informers catch up in the end.                           *)
(***************************************************************************)
Charge(fault) == /\ fault => faults > 0
                 /\ faults' = IF fault THEN faults - 1 ELSE faults

GetJob(j, u) == /\ u \in {ujSeen[j], uj[j]}
                /\ ujSeen' = [ujSeen EXCEPT ![j] = u]
                /\ Charge(u # uj[j])

GetVersion(v) == /\ v \in {cvSeen, cv}
                 /\ cvSeen' = v
                 /\ Charge(v # cv)

GetPool(p, m) == /\ m \in {mcpSeen[p], mcp[p]}
                 /\ mcpSeen' = [mcpSeen EXCEPT ![p] = m]
                 /\ Charge(m # mcp[p])

ListedPools == {[p \in Pools |-> IF p \in fresh THEN mcp[p] ELSE mcpSeen[p]] :
                  fresh \in SUBSET Pools}

ListPools(ms) == /\ mcpSeen' = ms
                 /\ Charge(ms # mcp)

\* Status().Update of the worker's copy: a conflict unless the copy is current.
Current == luj = uj[job]

\* Mutant: the last write wins.
UpdateStatusUnversioned(new) == uj' = [uj EXCEPT ![job] = new]

UpdateStatus(new) == uj' = IF Current THEN [uj EXCEPT ![job] = new] ELSE uj

\* The reconcile ends; its local state is gone.
Return == /\ pc' = "idle" /\ job' = None
          /\ luj' = NewJob /\ ver' = NewVersion
          /\ todo' = {} /\ held' = FALSE

Goto(l) == pc' = l /\ UNCHANGED <<job, luj, ver, todo, held>>

Fail(reason) == UpdateStatus([luj EXCEPT !.fail = reason]) /\ Return
Succeed(reason) == UpdateStatus([luj EXCEPT !.succ = reason]) /\ Return

(***************************************************************************)
(* executeHooks.  One hook stands for all the hooks of an event: it is     *)
(* active while one of them is, and has failed or asks to skip when one    *)
(* does; a failure with failurePolicy Ignore is a completion.              *)
(***************************************************************************)
InfluencesOutcome(e) == e \in {"Create", "Start", "UpgradeComplete", Unpause}

\* Mutant: the upgrade can still be skipped when it is complete.
CanSkipUpdateLate(e) == e \in {"Create", "Start", "UpgradeComplete"}

CanSkipUpdate(e) == e \in {"Create", "Start"}

StatusOfHook(e, k) ==
  IF <<e, k>> \in HookRuns THEN hook[job][<<e, k>>] ELSE "complete"

\* Mutant: active hooks are not waited for.
HooksContinueEarly(e, k) ==
  LET st == StatusOfHook(e, k) IN
  \/ st \in {"active", "complete"}
  \/ st = "failed" /\ (~InfluencesOutcome(e) \/ Finished(luj))
  \/ st = "skip" /\ (~CanSkipUpdate(e) \/ Finished(luj))

HooksContinue(e, k) ==
  LET st == StatusOfHook(e, k) IN
  \/ st = "complete"
  \/ st = "failed" /\ (~InfluencesOutcome(e) \/ Finished(luj))
  \/ st = "skip" /\ (~CanSkipUpdate(e) \/ Finished(luj))

\* The name of the hook's batch Job does not contain the tracking key.
NameTaken(e, k) ==
  \E r \in HookRuns : r[1] = e /\ r[2] # k /\ hook[job][r] # "none"

CreateHookJob(e, k) ==
  hook' = IF NameTaken(e, k) THEN hook
          ELSE [hook EXCEPT ![job][<<e, k>>] = "active"]

\* executeHooks ends the reconcile: a Job is created or still active, or
\* its failure or its wish to skip decides the upgrade job.
HooksStop(e, k) ==
  /\ ~HooksContinue(e, k)
  /\ \/ /\ StatusOfHook(e, k) = "none"
        /\ CreateHookJob(e, k)
        /\ Return /\ UNCHANGED uj
     \/ /\ StatusOfHook(e, k) = "active"
        /\ Return /\ UNCHANGED <<uj, hook>>
     \/ /\ StatusOfHook(e, k) = "failed"
        /\ Fail("HookFailed") /\ UNCHANGED hook
     \/ /\ StatusOfHook(e, k) = "skip"
        /\ Succeed("HookRequestedSkip") /\ UNCHANGED hook
  /\ UNCHANGED <<cv, mcp, now>>

\* The hooks of a finished job are started, and nothing waits for them; a
\* call that fails for one event does not keep the other from its hooks.
StartFinishHooks(es) ==
  \E ok \in SUBSET es :
    /\ hook' = [hook EXCEPT ![job] = [r \in HookRuns |->
                  IF r[1] \in ok /\ @[r] = "none" THEN "active" ELSE @[r]]]
    /\ Charge(ok # es)

(***************************************************************************)
(* Reconcile.                                                              *)
(***************************************************************************)
\* Mutant: a failed job is taken for an unfinished one.
BranchIgnoringFailed(u) == IF u.succ # "" THEN "succeeded" ELSE "pending"

Branch(u) == IF u.succ # "" THEN "succeeded"
             ELSE IF u.fail # "" THEN "failed" ELSE "pending"

Begin(j) ==
  /\ pc = "idle"
  /\ \E u \in {ujSeen[j], uj[j]} :
       /\ GetJob(j, u)
       /\ u.live
       /\ job' = j /\ luj' = u
       /\ pc' = Branch(u)
  /\ UNCHANGED <<uj, cv, mcp, hook, cvSeen, mcpSeen, ver, todo, held, now>>

\* An API call fails, or the controller restarts, and the reconcile is over.
Abort ==
  /\ pc # "idle"
  /\ Charge(TRUE) /\ Return
  /\ UNCHANGED <<uj, cv, mcp, hook, caches, now>>

\* No API call but the status update was made: the caches stay as they are.
NoOtherCall == UNCHANGED <<cv, mcp, hook, caches, now, faults>>

(* A job that is not finished: the create hooks, then the start window.    *)
CreateHooks ==
  /\ pc = "pending"
  /\ HooksStop("Create", None)
  /\ UNCHANGED <<caches, faults>>

Unstarted == pc = "pending" /\ HooksContinue("Create", None) /\ ~luj.started
Late == now > StartBefore[job]
Due == now >= StartAfter[job]

Skip ==
  /\ Unstarted
  /\ Late \/ Due
  /\ now \in SuspendedAt[job]
  /\ Succeed("Skipped")
  /\ NoOtherCall

Expire ==
  /\ Unstarted
  /\ Late
  /\ now \notin SuspendedAt[job]
  /\ Fail("Expired")
  /\ NoOtherCall

Start ==
  /\ Unstarted
  /\ ~Late /\ Due
  /\ now \notin SuspendedAt[job]
  /\ UpdateStatus([luj EXCEPT !.started = TRUE]) /\ Return
  /\ NoOtherCall

WaitForStart ==
  /\ Unstarted
  /\ ~Late /\ ~Due
  /\ Return
  /\ UNCHANGED uj /\ NoOtherCall

(* reconcileStartedJob: the time-out, the start hooks, the lock.           *)
Running == pc = "pending" /\ HooksContinue("Create", None) /\ luj.started

\* Mutants: no time-out once, or while, the cluster version is upgraded.
OutOfTimeBeforeHooks == now > StartAfter[job] + UpgradeTimeout
                        /\ luj.completed # "true"
OutOfTimeUnlessUpgrading == now > StartAfter[job] + UpgradeTimeout
                            /\ luj.completed # "false"

OutOfTime == now > StartAfter[job] + UpgradeTimeout

TimeOut ==
  /\ Running
  /\ OutOfTime
  /\ Fail("TimedOut")
  /\ NoOtherCall

StartHooks ==
  /\ Running
  /\ ~OutOfTime
  /\ HooksStop("Start", None)
  /\ UNCHANGED <<caches, faults>>

StartHooksDone ==
  /\ Running
  /\ ~OutOfTime
  /\ HooksContinue("Start", None)
  /\ Goto("lock")
  /\ UNCHANGED uj /\ NoOtherCall

\* Mutant: the update does not depend on the version of the copy.
LockFreeUnversioned(v) == v.lock = None

\* Nobody holds the lock in the copy, and the server accepts its update.
LockFree(v) == v.lock = None /\ v = cv

\* Get the ClusterVersion and try to lock it.
TryLock ==
  /\ pc = "lock"
  /\ \E v \in {cvSeen, cv} :
       /\ GetVersion(v)
       /\ \/ /\ v.lock = job
             /\ ver' = v
             /\ pc' = "pools" /\ todo' = DelayedPools
             /\ UNCHANGED <<cv, job, luj, held>>
          \/ /\ LockFree(v)
             /\ cv' = [v EXCEPT !.lock = job]
             /\ ver' = cv'
             /\ pc' = "pools" /\ todo' = DelayedPools
             /\ UNCHANGED <<job, luj, held>>
          \/ /\ v.lock # job /\ ~LockFree(v)
             /\ Return /\ UNCHANGED cv
  /\ UNCHANGED <<uj, mcp, hook, ujSeen, mcpSeen, now>>

(* pauseUnpauseMachineConfigPools, one pool of its loop at a time.         *)

ShouldPause(p) == now < StartAfter[job] + DelayMin[p]
DelayExpired(p) == DelayMax[p] > 0 /\ now >= StartAfter[job] + DelayMax[p]
Visited(p) == todo' = todo \ {p} /\ UNCHANGED <<pc, job, luj, ver>>

\* The pool is as it should be.
KeepPool(p) ==
  /\ pc = "pools" /\ p \in todo
  /\ \E m \in {mcpSeen[p], mcp[p]} :
       GetPool(p, m) /\ m.paused = ShouldPause(p)
  /\ held' = (held \/ ShouldPause(p)) /\ Visited(p)
  /\ UNCHANGED <<uj, cv, mcp, hook, ujSeen, cvSeen, now>>

ExpirePool(p) ==
  /\ pc = "pools" /\ p \in todo
  /\ \E m \in {mcpSeen[p], mcp[p]} : GetPool(p, m) /\ m.paused
  /\ ~ShouldPause(p) /\ DelayExpired(p)
  /\ Fail("UnpausingPoolsExpired")
  /\ UNCHANGED <<cv, mcp, hook, ujSeen, cvSeen, now>>

UnpauseHooks(p) ==
  /\ pc = "pools" /\ p \in todo
  /\ \E m \in {mcpSeen[p], mcp[p]} : GetPool(p, m) /\ m.paused
  /\ ~ShouldPause(p) /\ ~DelayExpired(p)
  /\ HooksStop(Unpause, p)
  /\ UNCHANGED <<ujSeen, cvSeen>>

TogglePool(p) ==
  /\ pc = "pools" /\ p \in todo
  /\ \E m \in {mcpSeen[p], mcp[p]} :
       /\ GetPool(p, m)
       /\ m.paused # ShouldPause(p)
       /\ m.paused => ~DelayExpired(p) /\ HooksContinue(Unpause, p)
       /\ \/ /\ m = mcp[p]
             /\ mcp' = [mcp EXCEPT ![p] = [m EXCEPT !.paused = ShouldPause(p),
                                                    !.job = job]]
             /\ held' = (held \/ ShouldPause(p)) /\ Visited(p)
          \/ m # mcp[p] /\ Return /\ UNCHANGED mcp
  /\ UNCHANGED <<uj, cv, hook, ujSeen, cvSeen, now>>

\* Continue at l with the copy the server returned, or stop at a conflict.
UpdateAndGoto(new, l) ==
  /\ UpdateStatus(new)
  /\ \/ Current /\ pc' = l /\ luj' = new /\ UNCHANGED <<job, ver, todo, held>>
     \/ ~Current /\ Return

PoolsPaused ==
  /\ pc = "pools" /\ todo = {}
  /\ LET cond == IF DelayedPools = {} THEN "NoManagedPools"
                 ELSE IF held THEN "DelaySetTrue" ELSE "DelaySetFalse"
     IN  \/ luj.pools = cond /\ Goto("preHealth") /\ UNCHANGED uj
         \/ /\ luj.pools # cond
            /\ UpdateAndGoto([luj EXCEPT !.pools = cond], "preHealth")
  /\ NoOtherCall

(* runHealthCheck(c), then continue at l.                                  *)
Healthy(c) == c \in SkipDegraded \/ ~ver.degraded
ChecksTimedOut(c) == now > luj.since[c] + HealthTimeout[c]
CheckFailed == [pre |-> "PreHealthCheckFailed", post |-> "PostHealthCheckFailed"]

HealthCheck(c, l) ==
  \/ /\ luj.check[c] = "nil"
     /\ UpdateStatus([luj EXCEPT !.check[c] = "false", !.since[c] = now])
     /\ Return
  \/ luj.check[c] = "true" /\ Goto(l) /\ UNCHANGED uj
  \/ /\ luj.check[c] = "false" /\ Healthy(c)
     /\ UpdateAndGoto([luj EXCEPT !.check[c] = "true", !.since[c] = 0], l)
  \/ /\ luj.check[c] = "false" /\ ~Healthy(c)
     /\ \/ ChecksTimedOut(c) /\ Fail(CheckFailed[c])
        \/ ~ChecksTimedOut(c) /\ Return /\ UNCHANGED uj

\* Mutant: the first result of the check is not waited for.
PreHealthCheckUnawaited ==
  /\ pc = "preHealth"
  /\ \/ /\ luj.check["pre"] = "nil"
        /\ UpdateAndGoto([luj EXCEPT !.check["pre"] = "false"], "desired")
     \/ luj.check["pre"] # "nil" /\ HealthCheck("pre", "desired")
  /\ NoOtherCall

PreHealthCheck == pc = "preHealth" /\ HealthCheck("pre", "desired") /\ NoOtherCall

\* Mutant: no health check after the upgrade.
PostHealthCheckSkipped ==
  pc = "postHealth" /\ Goto("complete") /\ UNCHANGED uj /\ NoOtherCall

PostHealthCheck == pc = "postHealth" /\ HealthCheck("post", "complete") /\ NoOtherCall

(* The desired version and the progress of the upgrade.                    *)
Desired == DesiredVersion[job]

NoUpgradeWanted ==
  /\ pc = "desired"
  /\ Desired = None
  /\ Goto("postHealth")
  /\ UNCHANGED uj /\ NoOtherCall

Withdraw ==
  /\ pc = "desired"
  /\ Desired # None /\ ver.desired # Desired
  /\ CheckAvailability[job] /\ Desired \notin ver.available
  /\ Fail("UpgradeWithdrawn")
  /\ NoOtherCall

StartUpgrade ==
  /\ pc = "desired"
  /\ Desired # None /\ ver.desired # Desired
  /\ CheckAvailability[job] => Desired \in ver.available
  /\ cv' = IF ver = cv THEN [cv EXCEPT !.desired = Desired] ELSE cv
  /\ Return
  /\ UNCHANGED <<uj, mcp, hook, caches, now, faults>>

Upgrading == pc = "desired" /\ Desired # None /\ ver.desired = Desired

IsVersionUpgradeCompleted(v) == v.desired = None \/ v.desired \in v.done
UpdatingPools(ms) == {p \in Pools : ms[p].updating}
PausedPools(ms) == {p \in UpdatingPools(ms) : ms[p].paused}
ActivePools(ms) == UpdatingPools(ms) \ PausedPools(ms)

MarkInProgress ==
  /\ Upgrading
  /\ luj.completed = "nil"
  /\ UpdateStatus([luj EXCEPT !.completed = "false"]) /\ Return
  /\ NoOtherCall

AwaitUpgrade ==
  /\ Upgrading
  /\ luj.completed = "false"
  /\ ~IsVersionUpgradeCompleted(ver)
  /\ Return
  /\ UNCHANGED uj /\ NoOtherCall

AwaitPools ==
  /\ Upgrading
  /\ luj.completed = "false"
  /\ IsVersionUpgradeCompleted(ver)
  /\ \E ms \in ListedPools :
       /\ ListPools(ms)
       /\ \/ ActivePools(ms) # {} /\ UNCHANGED uj
          \/ /\ ActivePools(ms) = {}
             /\ UpdateStatus([luj EXCEPT !.completed = "true"])
  /\ Return
  /\ UNCHANGED <<cv, mcp, hook, ujSeen, cvSeen, now>>

UpgradeDone ==
  /\ Upgrading
  /\ luj.completed = "true"
  /\ Goto("postHealth")
  /\ UNCHANGED uj /\ NoOtherCall

(* The upgrade is complete: the hooks, the delayed pools, success.         *)
CompleteHooks ==
  /\ pc = "complete"
  /\ HooksStop("UpgradeComplete", None)
  /\ UNCHANGED <<caches, faults>>

Complete ==
  /\ pc = "complete"
  /\ HooksContinue("UpgradeComplete", None)
  /\ \E ms \in ListedPools :
       LET paused == IF PausedPools(ms) # {} /\ ActivePools(ms) = {}
                     THEN "true" ELSE "false"
       IN  /\ ListPools(ms)
           /\ \/ /\ luj.paused # paused
                 /\ UpdateStatus([luj EXCEPT !.paused = paused])
              \/ /\ luj.paused = paused
                 /\ UpdatingPools(ms) # {} /\ UNCHANGED uj
              \/ /\ luj.paused = paused
                 /\ UpdatingPools(ms) = {}
                 /\ UpdateStatus([luj EXCEPT !.succ = "Succeeded"])
  /\ Return
  /\ UNCHANGED <<cv, mcp, hook, ujSeen, cvSeen, now>>

(***************************************************************************)
(* A finished job.  Errors are collected: each part runs whatever became   *)
(* of the parts before it.                                                 *)
(***************************************************************************)
\* Mutant: the pools are not cleaned up.
SucceededWithoutCleanup ==
  /\ pc = "succeeded"
  /\ StartFinishHooks({"Success", "Finish"})
  /\ pc' = "unlock"
  /\ UNCHANGED <<uj, cv, mcp, caches, job, luj, ver, todo, held, now>>

Succeeded ==
  /\ pc = "succeeded"
  /\ StartFinishHooks({"Success", "Finish"})
  /\ pc' = "cleanup" /\ todo' = Pools
  /\ UNCHANGED <<uj, cv, mcp, caches, job, luj, ver, held, now>>

\* Mutant: every paused pool is unpaused, whoever has paused it.
CleanupPoolForeign(p) ==
  /\ pc = "cleanup" /\ p \in todo
  /\ \E m \in {mcpSeen[p], mcp[p]} :
       /\ GetPool(p, m)
       /\ mcp' = IF m = mcp[p] THEN [mcp EXCEPT ![p] = [@ EXCEPT !.paused = FALSE,
                                                                 !.job = None]]
                 ELSE mcp
  /\ Visited(p)
  /\ UNCHANGED <<uj, cv, hook, ujSeen, cvSeen, held, now>>

\* cleanupMachineConfigPools
CleanupPool(p) ==
  /\ pc = "cleanup" /\ p \in todo
  /\ \E m \in {mcpSeen[p], mcp[p]} :
       /\ GetPool(p, m)
       /\ LET mine == m.job = job
              none == m.paused /\ StatusOfHook(Unpause, p) = "none"
          IN  /\ IF mine /\ none THEN CreateHookJob(Unpause, p)
                                 ELSE UNCHANGED hook
              /\ mcp' = IF mine /\ m = mcp[p]
                           /\ ~(none /\ NameTaken(Unpause, p))
                        THEN [mcp EXCEPT ![p] = [@ EXCEPT !.paused = FALSE,
                                                          !.job = None]]
                        ELSE mcp
  /\ Visited(p)
  /\ UNCHANGED <<uj, cv, ujSeen, cvSeen, held, now>>

\* Mutant: the lock of a failed job is not cleaned up.
FailedWithoutUnlock ==
  /\ pc = "failed"
  /\ StartFinishHooks({"Failure", "Finish"})
  /\ Return
  /\ UNCHANGED <<uj, cv, mcp, caches, now>>

Failed ==
  /\ pc = "failed"
  /\ StartFinishHooks({"Failure", "Finish"})
  /\ IF PauseOnFailure = {} \/ luj.pools = "PausedOnFailure"
     THEN pc' = "unlock" /\ UNCHANGED todo
     ELSE pc' = "pauseOnFailure" /\ todo' = PauseOnFailure
  /\ UNCHANGED <<uj, cv, mcp, caches, job, luj, ver, held, now>>

\* pauseMachinePoolsOnFailure
PausePool(p) ==
  /\ pc = "pauseOnFailure" /\ p \in todo
  /\ \E m \in {mcpSeen[p], mcp[p]} :
       /\ GetPool(p, m)
       /\ mcp' = IF ~m.paused /\ m.updating /\ m = mcp[p]
                 THEN [mcp EXCEPT ![p].paused = TRUE] ELSE mcp
  /\ Visited(p)
  /\ UNCHANGED <<uj, cv, hook, ujSeen, cvSeen, held, now>>

PausedOnFailure ==
  /\ pc = "pauseOnFailure" /\ todo = {}
  /\ UpdateStatus([luj EXCEPT !.pools = "PausedOnFailure"])
  /\ Goto("unlock")
  /\ NoOtherCall

CleanedUp ==
  /\ pc = "cleanup" /\ todo = {}
  /\ Goto("unlock")
  /\ UNCHANGED uj /\ NoOtherCall

\* A pool update of either loop fails, and the loop goes on.
PoolFault(p) ==
  /\ pc \in {"cleanup", "pauseOnFailure"} /\ p \in todo
  /\ Charge(TRUE) /\ Visited(p)
  /\ UNCHANGED <<uj, cv, mcp, hook, caches, held, now>>

\* Mutant: the annotation is emptied instead of deleted.
UnlockByEmptying ==
  /\ pc = "unlock"
  /\ \E v \in {cvSeen, cv} :
       /\ GetVersion(v)
       /\ cv' = IF v.lock = job /\ v = cv THEN [cv EXCEPT !.lock = ""] ELSE cv
  /\ Return
  /\ UNCHANGED <<uj, mcp, hook, ujSeen, mcpSeen, now>>

\* Mutant: the lock is released whoever holds it.
UnlockForeign ==
  /\ pc = "unlock"
  /\ \E v \in {cvSeen, cv} :
       /\ GetVersion(v)
       /\ cv' = IF v = cv THEN [cv EXCEPT !.lock = None] ELSE cv
  /\ Return
  /\ UNCHANGED <<uj, mcp, hook, ujSeen, mcpSeen, now>>

\* cleanupLock
Unlock ==
  /\ pc = "unlock"
  /\ \E v \in {cvSeen, cv} :
       /\ GetVersion(v)
       /\ cv' = IF v.lock = job /\ v = cv THEN [cv EXCEPT !.lock = None] ELSE cv
  /\ Return
  /\ UNCHANGED <<uj, mcp, hook, ujSeen, mcpSeen, now>>

(***************************************************************************)
(* The surroundings: the clock, the hook Jobs, the cluster version and     *)
(* machine config operators, and the people of the cluster.                *)
(***************************************************************************)
Tick ==
  /\ now < MaxTime
  /\ now' = now + 1
  /\ UNCHANGED <<uj, cv, mcp, hook, caches, worker, faults>>

HookFinishes(j, r) ==
  /\ hook[j][r] = "active"
  /\ \E st \in {"complete", "failed", "skip"} :
       hook' = [hook EXCEPT ![j][r] = st]
  /\ UNCHANGED <<uj, cv, mcp, caches, worker, now, faults>>

VersionChanges ==
  /\ \/ /\ "available" \in Toggles
        /\ \E v \in Versions : cv' = [cv EXCEPT !.available =
             IF v \in @ THEN @ \ {v} ELSE @ \cup {v}]
     \/ /\ "degraded" \in Toggles
        /\ cv' = [cv EXCEPT !.degraded = ~@]
     \/ /\ cv.desired \in Versions \ cv.done
        /\ cv' = [cv EXCEPT !.done = @ \cup {cv.desired}]
  /\ UNCHANGED <<uj, mcp, hook, caches, worker, now, faults>>

\* A pool gets a new configuration; one that is not paused rolls it out.
PoolChanges(p) ==
  /\ \/ ~mcp[p].updating /\ mcp' = [mcp EXCEPT ![p].updating = TRUE]
     \/ /\ mcp[p].updating /\ ~mcp[p].paused
        /\ mcp' = [mcp EXCEPT ![p].updating = FALSE]
     \/ /\ p \in AdminPools
        /\ mcp' = [mcp EXCEPT ![p].paused = ~@]
  /\ UNCHANGED <<uj, cv, hook, caches, worker, now, faults>>

Delete(j) ==
  /\ j \in Deletable /\ uj[j].live
  /\ uj' = [uj EXCEPT ![j].live = FALSE]
  /\ UNCHANGED <<cv, mcp, hook, caches, worker, now, faults>>

-----------------------------------------------------------------------------
Init ==
  /\ uj = [j \in Jobs |-> NewJob] /\ ujSeen = uj
  /\ cv = NewVersion /\ cvSeen = cv
  /\ mcp = [p \in Pools |-> NewPool] /\ mcpSeen = mcp
  /\ hook = [j \in Jobs |-> [r \in HookRuns |-> "none"]]
  /\ pc = "idle" /\ job = None /\ luj = NewJob /\ ver = NewVersion
  /\ todo = {} /\ held = FALSE
  /\ now = 0 /\ faults = MaxFaults

Pending == CreateHooks \/ Skip \/ Expire \/ Start \/ WaitForStart
Started == TimeOut \/ StartHooks \/ StartHooksDone \/ TryLock
ManagePools == \/ \E p \in Pools : \/ KeepPool(p) \/ ExpirePool(p)
                                   \/ UnpauseHooks(p) \/ TogglePool(p)
               \/ PoolsPaused
Upgrade == \/ PreHealthCheck \/ NoUpgradeWanted \/ Withdraw \/ StartUpgrade
           \/ MarkInProgress \/ AwaitUpgrade \/ AwaitPools \/ UpgradeDone
           \/ PostHealthCheck \/ CompleteHooks \/ Complete
CleanUp == \/ Succeeded \/ Failed \/ PausedOnFailure \/ CleanedUp \/ Unlock
           \/ \E p \in Pools : CleanupPool(p) \/ PausePool(p)

\* The calls of a reconcile that has begun, when none fails.
Reconcile == Pending \/ Started \/ ManagePools \/ Upgrade \/ CleanUp

Environment == \/ Tick \/ VersionChanges
               \/ \E j \in Jobs : Delete(j) \/ \E r \in HookRuns : HookFinishes(j, r)
               \/ \E p \in Pools : PoolChanges(p)

Next == \/ \E j \in Jobs : Begin(j)
        \/ Reconcile
        \/ Abort \/ \E p \in Pools : PoolFault(p)
        \/ Environment

Spec == Init /\ [][Next]_vars

\* The work queue is first in, first out, and every job is put on it again
\* by events and resyncs; a reconcile runs to its end; time goes on.
Fairness == /\ \A j \in Jobs : SF_vars(Begin(j))
            /\ WF_vars(Reconcile)
            /\ WF_vars(Tick)

FairSpec == Spec /\ Fairness

-----------------------------------------------------------------------------
(***************************************************************************)
(* Properties.                                                             *)
(***************************************************************************)
Labels == {"idle", "pending", "lock", "pools", "preHealth", "desired",
           "postHealth", "complete", "succeeded", "cleanup", "failed",
           "pauseOnFailure", "unlock"}

\* Every variable has its type, in the server, the caches and the worker.
ServerOK == /\ uj \in [Jobs -> UJ] /\ cv \in CV /\ mcp \in [Pools -> MCP]
            /\ hook \in [Jobs -> [HookRuns -> HookStatus]]
CachesOK == ujSeen \in [Jobs -> UJ] /\ cvSeen \in CV /\ mcpSeen \in [Pools -> MCP]
WorkerOK == /\ pc \in Labels /\ job \in Jobs \cup {None}
            /\ pc # "idle" => job \in Jobs
            /\ luj \in UJ /\ ver \in CV /\ todo \in SUBSET Pools
            /\ held \in BOOLEAN
BoundsOK == now \in 0..MaxTime /\ faults \in 0..MaxFaults
TypeOK == ServerOK /\ CachesOK /\ WorkerOK /\ BoundsOK

\* From the moment tryLockClusterVersion has returned without an error until
\* the reconcile ends, the job still owns the ClusterVersion at the server,
\* however old the copies are that the reconcile was decided on.
Locked == {"pools", "preHealth", "desired", "postHealth", "complete"}
LockHeld == pc \in Locked => cv.lock = job

\* Why: a job gives up its lock only in a reconcile that read it as finished,
\* and what the caches show never goes back.  So a cached lock of a job that is
\* cached as unfinished is a lock it still holds.
Unfinished == {"pending", "lock"} \cup Locked
Finishing == {"succeeded", "cleanup", "failed", "pauseOnFailure", "unlock"}
LockInv ==
  /\ \A j \in Jobs : Finished(ujSeen[j]) => Finished(uj[j])
  /\ pc \in Unfinished => ~Finished(luj) /\ ~Finished(ujSeen[job])
  /\ pc \in Finishing => Finished(luj) /\ Finished(ujSeen[job])
  /\ \A j \in Jobs : cvSeen.lock = j /\ ~Finished(ujSeen[j]) => cv.lock = j
  /\ LockHeld

\* The outcome of a job is final: once Succeeded or Failed is recorded at the
\* server no later reconcile, not even one that read the job before, adds the
\* other condition or changes the reason.
KeepsOutcomes ==
  \A j \in Jobs : Finished(uj[j]) =>
    uj'[j].succ = uj[j].succ /\ uj'[j].fail = uj[j].fail
OutcomeFinal == [][KeepsOutcomes]_vars

\* The desired version of the cluster is only ever changed to the version of
\* the job that holds the lock; that job has passed its start window, its
\* create and start hooks and its health checks, and was not given up for a
\* time-out, an expiry, a skip or a failed health check.
PassedHooks(j, e) == <<e, None>> \in HookRuns => hook[j][<<e, None>>] = "complete"
UpgradeGuarded ==
  [][cv'.desired # cv.desired =>
       \E j \in Jobs :
         /\ cv.lock = j /\ cv'.desired = DesiredVersion[j]
         /\ uj[j].started /\ uj[j].check["pre"] = "true"
         /\ PassedHooks(j, "Create") /\ PassedHooks(j, "Start")
         /\ uj[j].succ = ""
         /\ uj[j].fail \in {"", "UpgradeWithdrawn", "UnpausingPoolsExpired",
                            "HookFailed"}
    ]_vars

\* A job that reports Succeeded has seen its version completed in the history
\* of the cluster version and has passed both health checks.
SuccessMeansUpgraded ==
  \A j \in Jobs : uj[j].succ = "Succeeded" =>
    /\ uj[j].check = [c \in Checks |-> "true"]
    /\ DesiredVersion[j] # None =>
         uj[j].completed = "true" /\ DesiredVersion[j] \in cv.done

\* A job that was skipped, by a suspension window or by a hook, never locked
\* the cluster version and never touched a machine config pool.
SkippedUntouched ==
  \A j \in Jobs : uj[j].succ \in {"Skipped", "HookRequestedSkip"} =>
    cv.lock # j /\ \A p \in Pools : mcp[p].job # j

\* While the job that holds the lock is not finished, the reconciler unpauses a
\* pool whose delay (.delayUpgrade.delayMin) has not passed in one case only: in
\* the clean-up of another job, a successful one that still owns the pool because
\* its first clean-up failed and its lock was released nevertheless.
CutShortByCleanup ==
  [][\A j \in Jobs, p \in DelayedPools :
       /\ cv.lock = j /\ ~Finished(uj[j])
       /\ now < StartAfter[j] + DelayMin[p]
       /\ mcp[p].paused /\ ~mcp'[p].paused
       /\ todo' # todo
       => /\ pc = "cleanup" /\ job \in Jobs \ {j}
          /\ mcp[p].job = job /\ uj[job].succ = "Succeeded"]_vars

\* The reconciler implements the lock of UpgradeLock, whatever it reads from
\* its caches: a finished job never takes the lock again, nobody takes it from
\* its owner, and a job gives it up only after its outcome is recorded.
Locking == INSTANCE UpgradeLock WITH
  holder <- cv.lock, desired <- cv.desired,
  finished <- {j \in Jobs : Finished(uj[j])}
ImplementsLock == Locking!Spec

\* A started job finishes: the upgrade time-out ends it even when the upgrade,
\* a pool, a health check or a hook never does.
StartedFinishes ==
  \A j \in Jobs : uj[j].started ~> (Finished(uj[j]) \/ ~uj[j].live)

\* The lock of a finished job is released.
LockReleased ==
  \A j \in Jobs : (cv.lock = j /\ Finished(uj[j])) ~> (cv.lock # j \/ ~uj[j].live)

\* The pools a successful job has paused or unpaused are given back.
PoolsGivenBack ==
  \A j \in Jobs : (uj[j].succ # "") ~>
    ((\A p \in Pools : mcp[p].job # j) \/ ~uj[j].live)

(***************************************************************************)
(* What the documentation and the comments say and the code does not do.   *)
(***************************************************************************)
\* DelayMin is "the delay after which the upgrade of the machine config pool
\* should start": until then the pool stays paused while the job that holds the
\* lock is not finished.  CutShortByCleanup says when it does not.
DelayMinRespected ==
  [][\A j \in Jobs, p \in DelayedPools \ AdminPools :
       /\ cv.lock = j /\ ~Finished(uj[j])
       /\ now < StartAfter[j] + DelayMin[p]
       /\ mcp[p].paused
       => mcp'[p].paused]_vars

\* Reconcile of a succeeded job: "Prevent pools that did not have any
\* changes/updates from being paused indefinitely."  Only the pools this very
\* job has annotated are unpaused.
SuccessUnpauses ==
  \A j \in Jobs, p \in DelayedPools :
    (uj[j].succ = "Succeeded" /\ cv.lock = j) ~> ~mcp[p].paused

\* PauseMachineConfigPoolsOnFailure: "the controller will pause machine config
\* pools matching the selector if an upgrade job fails".  The condition that
\* says so is set, and never looked at again, whatever became of the pools.
FailurePauses ==
  \A j \in Jobs, p \in PauseOnFailure :
    (/\ uj[j].fail # "" /\ uj[j].pools # "PausedOnFailure"
     /\ mcp[p].updating /\ ~mcp[p].paused)
    ~> (mcp[p].paused \/ ~mcp[p].updating)
=============================================================================
