# A formal model of the OpenShift upgrade controller

The controller upgrades an OpenShift cluster in maintenance windows. This
directory holds TLA+ modules that model its reconcilers, configurations that
check them with TLC on small instances, and proofs checked by TLAPS.

## The system

| Component | State it keeps | Operations |
| --- | --- | --- |
| UpgradeJob reconciler (`controllers/upgradejob_controller.go`) | conditions and hook tracker of each `UpgradeJob`, the lock annotation and the desired version of the `ClusterVersion`, pause flag and job annotation of each `MachineConfigPool` | one `Reconcile` per job: hooks, start window, lock, pool delays, health checks, upgrade, success, clean-up |
| Upgrade hooks (same file, `api/v1beta1/upgradejobhook_types.go`) | one batch `Job` per hook run, the tracker in the `UpgradeJob`, the claim of a `run: Next` hook | `executeHooks`, `createHookJob`, `trackHookJobs`, `Claim` |
| UpgradeConfig controller (`controllers/upgradeconfig_controller.go`) | `lastScheduledUpgrade`, the `UpgradeJob`s it has created | schedule a job per slot, skip slots, repair its status, delete old jobs |
| Schedule (`pkg/schedule`) | none | next run of a cron expression in odd, even or all ISO weeks |
| ClusterVersion overlay controller (`controllers/clusterversion_controller.go`) | the spec of the upstream `ClusterVersion` | apply the overlays that are due |
| NodeForceDrain controller (`controllers/node_force_drain_controller.go`) | `lastObservedNodeDrain` | force drain, force delete pods |
| UpgradeSuspensionWindow controller | status lists | list matching configs and jobs |
| Webhook, metrics collectors, manager set-up, simulator | none | admission dry run, export, wiring |

The controllers never call each other. They share Kubernetes objects: an
UpgradeConfig creates UpgradeJobs; an UpgradeJob creates hook Jobs, locks and
writes the ClusterVersion, pauses pools; the overlay controller writes the same
ClusterVersion; events on any of these objects put a job on the work queue
again. Every read comes from an informer cache and may be old, every write is
rejected if the object has changed since the copy it is made from.

What is hard here: decisions taken on stale copies; a reconcile is a dozen API
calls and may end between any two of them (error, conflict, restart) with only
what was written so far to start again from; time passes between the calls;
several jobs compete for one lock and several pieces of clean-up must all be
done although each may fail. `PROJECT.json` lists each hazard at its line.

What makes each component correct:

* UpgradeJob: whoever works under the lock holds it; outcomes are final; the
  upgrade is started only by a job that passed its hooks and checks; success
  means upgraded and healthy; pools are delayed as configured and given back;
  started jobs end and release the lock.
* Hooks: a hook runs once per event and pool; nothing that influences the
  outcome is lost when the batch Job is deleted.
* UpgradeConfig: no slot is missed, no slot is decided twice after a crash, no
  two unfinished jobs of one config, the history limits.
* Schedule: the next run is the first instant that fits cron and week parity.
* Overlay controller: never touches the desired version or the lock.
* NodeForceDrain: no pod that was listed is killed before the grace periods of its
  drain, and none is forgotten.

## Modules

### UpgradeJob

The reconciler and its surroundings. The worker (`pc`, `job`, and its local
copies `luj`, `ver`, `held`, `todo`) takes one job at a time, as one worker per
controller does; every action ends after at most one API write, so that the
clock, the cluster, the administrator and other jobs' earlier writes can
interleave at every call. `uj`, `cv`, `mcp` and `hook` are the objects at the
API server, `ujSeen`, `cvSeen`, `mcpSeen` the informer caches.

* A read returns the cached copy or the server's; a stale read costs one of
  `MaxFaults` faults. A cache jumps from one observed value to the current one:
  intermediate values that nobody has read are not delivered later. Pools are
  read one by one when the loop visits them; the code lists them at the start.
  A list outdated by a concurrent write leads to the same conflict as a stale
  read of that pool.
* A write succeeds exactly if the copy it is made from equals the object at the
  server, which is what the resource version check amounts to.
* `Abort` ends a reconcile before any call, for one fault: an API error, a
  conflict on an unmodelled field, or a restart of the controller. `PoolFault`
  fails one pool update of the clean-up loops, which go on, and
  `StartFinishHooks` may fail for either event.
* Conditions are record fields with their reason; messages are left out. The
  transition time of a condition is kept where it is read (health checks).
* `hook[j][<<event, key>>]` is the state of all hooks of an event as seen by
  `executeHooks`: `active` while one runs, then `failed` (policy Abort), `skip`
  (pod failure policy) or `complete`. The key is the pool for the unpause event.
  `NameTaken` models that the Job's name has no tracking key. The batch Jobs
  are kept until the job is deleted; tracker and finalizers are in `HookJobs`.
* The surroundings (`Tick`, `HookFinishes`, `VersionChanges`, `PoolChanges`,
  `Delete`) are what the code reacts to: hooks and upgrades may finish or never
  do, updates may be withdrawn and offered again, operators may degrade,
  pools get work at any time, an administrator may flip the pause flag.

The correspondence of every definition with source lines is in `PROJECT.json`,
`map`.

### UpgradeLock

The abstract specification of the lock annotation on the ClusterVersion, with
three variables: who holds it, the desired version, and the jobs whose outcome is
decided. A job that is not finished takes a free lock, the holder changes the
desired version, a finished holder gives the lock up. Two modules use it:

* `UpgradeJob` implements it. `Locking` instantiates it with `cv.lock`,
  `cv.desired` and the jobs that are finished at the server; `ImplementsLock` is
  checked by the run `lock` and proved in `UpgradeLockProofs`.
* `ClusterVersion` composes it with the second writer of the same object:
  `Locking!Next` stands for the UpgradeJob reconciler there, and
  `LockUndisturbed` says that what both do together is still `UpgradeLock`.

### MCUpgradeJob

Values for the function-valued constants. Each run is a `MCUpgradeJob_*.cfg`.

### UpgradeConfig

One UpgradeConfig, its jobs and the reconciler that creates them. `uc` and
`jobs` are the objects at the API server, `ucSeen` and `jobsSeen` the two
informer caches, which are filled independently of each other (`Deliver`);
`queued` and `wake` are the work queue and its one delayed entry. A reconcile is
`Begin`, one outcome of `scheduleJob` (`Repair`, `Busy`, `GiveUp`, `NotYet`,
`SkipSlot`, or `CreateJob` and `Record`; `ScheduleFails` for a failed call),
`UpdateNext` and `CleanupJobs`, with one API write each, the deletions of the
clean-up taken together.

* Instants are hours rather than seconds: `Tick` waits for the work queue, due
  timers and both caches. Within an instant everything interleaves. This is the
  assumption under which a reconcile can be expected to happen inside its window;
  `NoSlotMissed` then says that timers and watches really bring it about.
* `Slots` is what cron expression, ISO week and time zone amount to. The last
  slot lies behind the horizon so that there is always a next one.
* A job's name is its version and slot; a Create with a taken name fails.
* `UpdateStatus` is refused if the config has changed since the copy was read,
  and may fail with or without having been done. The copy keeps its changes, as
  the code's `uc` does. Versions are compared by value: a config that is
  suspended and resumed between two reads counts as unchanged.
* Each of `MaxFaults` faults is a failed call, a lost answer or a restart.
* `JobFinishes` stands for the UpgradeJob reconciler: a job may finish at any
  time (a create hook can end it before its start) or never.
* `GiveUp` is an error that comes back until the situation changes; its growing
  back-off is an instant of the clock.

### MCUpgradeConfig

Declares the model values of the `MCUpgradeConfig_*.cfg` runs.

### ClusterVersion

The overlay controller. `managed` is the managed ClusterVersion at the API
server, `spec`, `holder` and `desired` are the parts of the upstream object. A
reconcile is `Begin`, `UpdateStatus` and `UpdateUpstream`, with one write each;
the request is queued by `Deliver` (both watches), `Wake` (the requeue at the
next overlay) and by errors.

* A spec is a function on a few fields; `Merge` keeps what the overlay leaves
  empty, as `mergo` with override does. `WriteUpstream` writes the whole object
  as it was read, lock and desired update included.
* Overlays are a function of their `from`: `clusterversion_types.go:17` leaves
  it undefined which of two equal ones is used, so they are excluded.
* A status update that changes nothing (the list of overlays is empty, and the
  stored one nil) is made in every reconcile and causes no event.
* Instants are far apart (`Quiet` guards `Tick`), as in `UpgradeConfig`.

### NodeForceDrain

One NodeForceDrain, nodes that are drained again and again, and their pods. The
object and the nodes are read from caches, pods and daemon sets from the server.
A reconcile is `Begin` (get, list, look for drains that are not recorded, work
out the grace periods), then `Observe` and its early return, or the two loops:
`ListPods` and `DeletePod` in the phase `drain`, again in the phase `force`, and
`Finish`.

* A drain is numbered; an uncordon request of the machine config operator looks
  the same to the code (`node_collector.go:31`) and is one too.
* `Kind` abstracts name space selector, jq query, daemon set and static pods.
  A name space or daemon set that cannot be read excludes its pods silently
  until the reconcile after; `excuses` counts how often, for `InTime`.
* An object that is not found is an empty one in the code: it selects every
  node and has no grace periods, so no pod is touched, but recording a drain
  fails and is tried again for as long as the drain lasts. `Begin` and `Observe`
  do this.
* A drain may be called off (`EndDrain`, for one fault) and asked for again. The
  annotation that tells drains apart, `lastAppliedDrain`, is then the same, and
  so is the time the code has observed. `recent` keeps all requests of this
  instant and those for the id that a node still has.
* Pods are deleted by name, without a precondition on the UID
  (`node_force_drain_controller.go:293` and `:333`). A pod that is gone may come
  back under its name, on any node that is not drained, at any time (`Recreate`),
  also between listing and deletion; `DeletePod` then deletes the new one.
  `replaced` marks the victims to which this has happened.
* `replaced`, `recent`, `overdue` and `excuses` are history variables that no
  action reads but to keep them up to date.

### HookJobs

What `UpgradeJob` abstracts of the hooks: several hooks for one event that
influences the outcome, each with a batch Job that has a finalizer, the tracker in
the status of the UpgradeJob, and the claim of a `run: Next` hook. A reconcile is
`Begin`, `Track`, one `Release` per finalizer, `StartHooks` (the second Get and
the list of hooks), one `Claim` and one `Execute` per hook, and `Decide`. The
three caches are filled object by object. Hooks are not watched.

* With `EarlyDeletion` FALSE a Job is deleted only when its outcome is in the
  cached UpgradeJob and in the copy at work; `ran_twice` sets it to TRUE.
* UpgradeJobs are deleted in the background. Foreground deletion would wait for
  Jobs whose finalizers the controller keeps until they end or the UpgradeJob is
  gone. A Job that is deleted while active never ends and keeps its finalizer
  until then as well.
* Skip requests, other events and tracking keys are in `UpgradeJob` only.

### MCClusterVersion, MCNodeForceDrain, MCHookJobs

Values for the constants of these modules.

### Proof modules

`UpgradeJobProofs`, `UpgradeLockProofs` and `UpgradeGuardProofs` (each extends
the one before) are about `UpgradeJob`; `UpgradeConfigProofs`,
`ClusterVersionProofs`, `NodeForceDrainProofs` and `HookJobsProofs` about the
modules they are named after. `OrderTheorems` has the two lemmas on first and last
instants that three of them use. See "Proofs" below.

## Runs

Passing runs:

| Run | Instance | Checks |
| --- | --- | --- |
| `lock` | 2 jobs, 2 versions, no pools, 2 faults, updates withdrawn and re-offered | `TypeOK`, `LockHeld`, `OutcomeFinal`, `UpgradeGuarded`, `ImplementsLock` |
| `cluster` | 2 jobs without a version that delay the same pool, administrator, pausing on failure, 1 fault | `LockInv`, `CutShortByCleanup` |
| `progress` | 1 job, five kinds of hooks that may hang, pool with both delays, suspension window, deletion, 1 fault, fairness | `SkippedUntouched`, `UpgradeGuarded`, `StartedFinishes`, `PoolsGivenBack` |
| `handover` | 2 jobs one after the other, one without a version, degraded operators, 1 fault, fairness | `SuccessMeansUpgraded`, `StartedFinishes`, `LockReleased` |
| `schedule` | 2 slots and the next, suspension by hand and by a window, changing offer, 1 fault | `TypeOK`, `NoSlotMissed`, `LastGrows` |
| `history` | 4 slots and the next, one suspended, room for 1 job, fixed offer, 2 faults | `OneOpenJob`, `NoSlotMissed`, `KeepsNewest`, `HistoryTrimmed`, `DecidedOnce` |
| `overlay` | 1 job under the lock, overlays from 1 and 2, 1 edit of either object, 1 fault, fairness | `TypeOK`, `OverlayInForce`, `StatusTruthful`, `LockUndisturbed`, `ComesToRest` |
| `drain` | 2 nodes, one drained before, drains called off, a plain and a daemon set's pod that come back, 1 fault | `TypeOK`, `InTime`, `EveryDrainRecorded`, `DrainsOnlyDue` |
| `tracking` | 2 UpgradeJobs, a `run: Next` and a plain hook, 1 fault | `TypeOK`, `RunsOnce`, `RunsForNext`, `OutcomeKept`, `VerdictJustified` |
| `verdict` | 2 UpgradeJobs, one hook they compete for, 2 faults, fairness | `FinalizersReleased`, `VerdictReached` |

`UpgradeGuarded` states precisely how stale a start may be: the job holds the
lock, has started and passed hooks and pre-health check, and is not timed out,
expired, skipped or failed in a check. It may, however, just have been failed
with `UpgradeWithdrawn`, `UnpausingPoolsExpired` or `HookFailed`: a reconcile
that reads the job from before that failure, and the ClusterVersion from after
the update was offered again, still starts the upgrade.

`CutShortByCleanup` is what is left of "the pool stays paused until `delayMin`".
With two jobs the code does not keep that (`MCUpgradeJob_delay_min.cfg`): the
lock is released although a pool could not be given back, and the clean-up is
tried again when the next job delays the same pool. The property says that this
is the only way, and `cluster` reaches it. `DrainsOnlyDue` likewise names two
things that follow from the code: a drain that is called off and asked for again
counts from its first request, and a new pod that has taken the name of a listed
one (`replaced`) is outside the statement. Both happen in the run `drain`; that a
reader of `node_force_drain_types.go:37` and `:55` may expect more is what
`OnlyOnDueNodes` and `GracePerRequest` and their configurations below show.

Runs that show the code doing something else than a comment or a test says (one
counterexample each, the findings of `PROJECT.json`):

| Run | What happens |
| --- | --- |
| `two_pools` | unpause hooks of two pools collide in the Job name; the second pool is never given back |
| `ran_twice` | a Job that is deleted before its outcome is in the cached UpgradeJob is created again |

More configurations hold counterexamples to what a reader of the documentation
may expect. They are run by hand, with `tlc -config <cfg> <module>`:

| Configuration | What happens |
| --- | --- |
| `MCUpgradeJob_unpauses.cfg` | a pool paused by a failed job stays paused when the next job succeeds |
| `MCUpgradeJob_failure.cfg` | a pool that could not be paused on failure is never tried again |
| `MCUpgradeJob_delay_min.cfg` | the retried clean-up of an earlier job unpauses a pool that the next job delays |
| `MCUpgradeConfig_two_jobs.cfg` | a stale list of jobs and a changed update give a slot a second job |
| `MCUpgradeConfig_long_suspension.cfg` | after more suspended slots than attempts no job is created any more |
| `MCNodeForceDrain_redrained.cfg` | `GracePerRequest`: a drain that is called off and asked for again keeps the time of the first, and its pods get no grace period |
| `MCNodeForceDrain_recreated.cfg` | `OnlyOnDueNodes`: a pod that was listed is gone, a new one of its name runs on a node that is not drained, and is deleted |

Bounds. Time is counted in instants; three to five of them give each of the
thresholds `startAfter`, `startBefore`, `delayMin`, `delayMax` and the time-outs
an instant before, on and after it. Two jobs are enough for a conflict over the
lock and for what one job leaves behind for the next. One fault is enough for
one stale read, one failed call or one restart at any point; `lock` has two, so
that job and ClusterVersion can be stale at once. `CHECK_DEADLOCK FALSE` is set
because the model stops when the clock is at `MaxTime` and all jobs are done.

For `UpgradeConfig` two slots show what one decision leaves behind for the next,
three fill and exceed a history of one job and a fourth, in the middle, is suspended. The windows of the slots do not
overlap; they last two instants in `history` and one in `schedule`. The limit of
100 attempts is scaled down to 0 or 1 where it is to be reached (`schedule`, at
the end of the horizon, and `long_suspension`). `OneOpenJob` is checked with a fixed offer, because the name
of the job is what refuses a second one; `two_jobs` drops that. `NoSlotMissed`
allows a slot to pass while a job is unfinished or still ahead, as `scheduleJob`
does. `DecidedOnce` is checked with a suspension that lasts as long as the window
of its slot: a slot skipped for a suspension that ends inside its window is
scheduled after all if an earlier job exists.

For `ClusterVersion` two overlays and the template make three specs to follow
each other, before, at and after each `from`; one edit of either object and one
fault (a failed call, a lost answer or a restart) fall on any step: 221,844
states. For `NodeForceDrain` a grace period of 1, a kill after 1 and an interval
of 2 in 4 instants leave room for a second drain of the node that was drained
before, or for one that is called off and asked for again; the second node shows
that one drain recorded per reconcile does not starve the other, and is where a
pod can come back: 4.0 million states, the largest instance next to `cluster` with
2.3 million. `HookJobs` has the two UpgradeJobs that
compete for a claim and, in `tracking`, a second hook that only one of them runs;
two creations are allowed so that a second run is seen (1.3 million and 77,000
states).

Fairness (`progress`, `handover` and the liveness counterexamples). `Begin(j)`
is strongly fair for every job: the work queue is first in, first out, an error
requeues with back-off, events of the job, its hook Jobs, the ClusterVersion and
the pools enqueue the job or the job that holds the lock, and the informers'
periodic resync enqueues every job again. Note that the code sets a timer for
the delays and the upgrade time-out only while pools are paused
(`nextTimedReconcile`, `upgradejob_controller.go:327`); elsewhere the upgrade and
health check time-outs wait for an event or the resync. `Reconcile` is weakly fair: a reconcile that has begun goes on. `Tick`
is weakly fair up to `MaxTime`. Nothing is assumed of hooks, pools, the upgrade
itself or administrators. Faults are bounded by `MaxFaults`: caches catch up
and calls succeed in the end.

In `ClusterVersion` (`overlay`) the worker, the watches and the timer are weakly
fair. Nothing else is assumed, neither that time goes on nor that jobs finish.
In `HookJobs` (`verdict`) the worker and the delivery of each object are weakly
fair and `Begin` of each UpgradeJob is strongly fair, because others may be
served in between; nothing makes a hook Job end or an UpgradeJob disappear.

Two more differences between code and documentation are visible without a run:
the create hooks are waited for before the clock is looked at
(`upgradejob_controller.go:124`), so a job with a hung create hook never expires
at `startBefore`; and `delayMax` counts from `startAfter`
(`upgradejob_controller.go:955`), not from `startBefore` as
`upgradejob_types.go:157` says.

## Proofs

For any sets of jobs, pools and versions, any configuration that meets
`ConstantsAssumption`, and any bounds, `UpgradeJobProofs` proves

* `TypeCorrect`: `Spec => []TypeOK`,
* `LockInvariant`: `Spec => []LockInv`,
* `LockSafe`: `Spec => []LockHeld`,
* `OutcomesFinal`: `Spec => OutcomeFinal`,

and `UpgradeLockProofs`

* `LockRefined`: `Spec => ImplementsLock`, the refinement of `UpgradeLock`.

`LockHeld` is not inductive: that a lock read from the cache is still held needs
that nobody has released it since. `LockInv` adds why: an outcome that a cache
shows is an outcome at the server, the worker's phase agrees with the outcome
of its copy and of the cached job, and a lock cached for a job that is cached as
unfinished is held at the server. A job releases its lock only in a reconcile
that has read it as finished, and this puts the finished copy into the cache,
where later reads find it or something newer. Taking a free lock needs a
current copy. `OutcomesFinal` follows from the same invariant, because a
reconcile that writes an outcome holds an unfinished copy and the write is
refused unless that copy is current. The proofs have one lemma for each group of
actions of `Reconcile`, once for the types and once for the lock.

The hard step of the refinement is `TryLock`: may a job that is finished at the
server take the free lock, in a reconcile that read it from before? If it could,
the lock would be taken for a job that has nothing left to do with it.
`StaleInv` says why not. A job that is finished at the server and not yet in the
cache either still holds the lock, which is then not free, or it was finished
before it came to the lock, for a reason that is there to be found again by any
reconcile that starts from the cached copy: the copy is not started, the
time-out has passed, or a create or start hook has failed or asked to skip
(`Decided`). These reasons last: `KeepStep` shows that no step turns the clock
back or changes the outcome of a hook. Most actions only write the job at work
and leave the lock alone (`Writes`); `WritesOK` treats them all at once, and
`TryLock`, `StartUpgrade` and `Unlock` have lemmas of their own, as the steps
`Acquire`, `Upgrade` and `Release`.

The proofs need no assumption on fairness or on the number of faults. They do
use the model of the caches: a cache never goes back to an older value. This is
true within one process; after a restart the controller fills its caches from
the API server before the first reconcile.

### What upgrades and outcomes mean

`UpgradeGuardProofs` goes on from there and proves

* `SuccessIsUpgrade`: `Spec => []SuccessMeansUpgraded`,
* `SkipsTouchNothing`: `Spec => []SkippedUntouched`,
* `UpgradesAreGuarded`: `Spec => UpgradeGuarded`,
* `DelaysEndWithCleanup`: `Spec => CutShortByCleanup`,

the first three from `GuardInv`, five invariants. `PastInv`: what a copy or cache shows as started,
checked or completed is so at the server. `ReachedInv`: the worker gets to a
label only with the conditions that are tested before it, in its copy and hence
at the server. `TouchInv`: a job that holds the lock, asks for it or owns a pool has
started and passed its create and start hooks. `WantedInv`: an upgrade in progress
is the one the ClusterVersion wants. `OutcomeInv`: why each outcome was recorded.
A skipped job has not started, or a create or start hook asked for the skip; by
`TouchInv` it then holds neither the lock nor a pool. What a step may write into
a job is summed up in `Written`, with one lemma per group of actions, so that
each of the five invariants is a case distinction on a handful of writes rather
than on all actions.

Can a pool be unpaused before its delay is over? `pauseUnpauseMachineConfigPools`
does not do it: whoever is in its loop holds the lock at the server (`LockHeld`),
however old the copies are. That leaves `cleanupMachineConfigPools`. `EndedInv`
says that an outcome that is seen is the outcome at the server and that only a
successful job cleans up, so it is another job than the one that holds the lock,
and it owns the pool: `CutShortByCleanup`. This does happen, because the code
releases the lock also when a pool could not be given back and retries the
clean-up later, under the next job (`MCUpgradeJob_delay_min.cfg`); so this
statement, without a supposition, is all that can be said of the delays.

### UpgradeConfig

| Theorem | Statement | Supposing |
| --- | --- | --- |
| `BasicInvariant` | `Spec => []BasicInv` | |
| `TimersAreSet` | `Spec => []TypeOK` | |
| `RecordGrows` | `Spec => LastGrows` | `Separated` |
| `JobsAreSerial` | `Spec /\ Steady => []OneOpenJob` | `Separated` |
| `SlotsAreDecidedOnce` | `Spec /\ Steady /\ Unbroken => DecidedOnce` | `Separated`, `Lasting` |
| `CleanupKeepsNewest` | `Spec /\ Steady => KeepsNewest` | |
| `HistoryIsTrimmed` | `Spec => HistoryTrimmed` | |
| `SlotsAreNotMissed` | `Spec /\ Patient => NoSlotMissed` | `Separated`, and `Spaced` or `NoSuspension` |

`Separated` says that a slot can no longer be scheduled when the window of the next
one opens, `Steady` that the latest available update does not change while a
window is open (between windows it may). `Lasting` and `Unbroken` say that no
suspension, by a suspension window or of the config, ends while a window is open;
it may begin there. `Patient` says that the search for a slot never gives up,
`Spaced` that a window does not open before the slot ahead of it is due, and
`NoSuspension` that nobody suspends the config. Schedules of weeks with a pinning
window of hours and a delay of an hour meet the conditions on slots. The code does
not enforce any of them, and the model has counterexamples without: two slots whose
windows overlap give two open jobs, and with a changing offer the recorded slot can
go back; `MCUpgradeConfig_two_jobs.cfg` changes the offer inside a window; with a
changing offer two successful jobs can have the same start and the clean-up, run
twice from one cache, can delete both; a suspension that ends inside the window
of a skipped slot lets the slot be scheduled after all;
`MCUpgradeConfig_long_suspension.cfg` gives up; and after a slot
is skipped the only timer is that for the next start of the schedule, which is too
late for a window that opens and closes before it (slots 5 and 6, pinned 2 ahead).

`TypeOK` itself needs `HorizonInv`: no slot is recorded and no job is created
before its window opens, so that within the horizon of the model there is always a
next slot. For the recorded slot, `CopyInv` says that the copy is never behind the
version it was read from; when a slot is chosen, every earlier one is past, so the
chosen slot is not before the recorded one. For the single open job the question
is what the reconcile does not see. `UnseenInv`: a job that the cache does not
know was created in this instant, so its slot is still in its window. Windows do
not overlap and the offer holds, so `SlotInv` makes its name the one the
reconcile would create, and the Create is refused. `LatestInv` and `OpenInv`: the
latest job in the cache is not deleted, and an open job is the latest.
`DecidedInv` is the same for names that the clean-up frees: it deletes a job only
if a later one is kept, and then the window of the deleted one is over. A slot that
is recorded without a job was skipped, and is found suspended again by this
reconcile and the next (`Halted`, with `SuspendInv` on the copies of the config).
`KeptInv`:
the jobs that a clean-up counted as newest are still there, whenever it counted
them, because there is only one way to keep the newest of jobs with distinct
starts (`OneKept`).

`HistoryTrimmed` and `NoSlotMissed` say that the clock does not run ahead of the
controller. `TrimInv`: a worker at rest with nothing to be delivered has trimmed
the history; a clean-up that fails or counted too few leaves an error, an event or
both. `ChanceInv`: unless something is to be delivered or retried, the reconcile, at
each of its labels, has the timers that give every slot that is still to be decided
a chance before its window closes, or a job is in the way and its end is an event;
and one timer is not later than the next slot of the schedule, for the job that
ends before its start. `SeenInv`: the cached record is not ahead of the
server's. All steps are summed up by what they do to the jobs
(`JobsStep`) and to the config and its copies (`ConfigStep`).

### ClusterVersion

* `OverlayTypes`: `Spec => []TypeOK`,
* `LockShared`: `Spec => LockUndisturbed`, the refinement of `UpgradeLock` by both
  writers together,
* `OverlaysInForce`: `Spec => []OverlayInForce`,
* `StatusIsTruthful`: `Spec => []StatusTruthful`.

The refinement rests on the update being refused unless the copy is current. The
other two use `ForceInv`: what is not news is in the caches; a reconcile that no
event will repeat works on current copies; and at rest spec and status are those of
`ApplyOverlay` and `StatusFor` and the timer is not late for the next overlay. That
last part is what makes it inductive: only the timer tells the controller that an
overlay has begun. `AppliedIsWanted` relates `ApplyOverlay` to the field by field
definition `Wanted`. The constants' assumption includes that `None` is neither a
job, a value nor an instant.

### NodeForceDrain

* `TypesKept`: `Spec => []TypeOK`,
* `DrainsAreRecorded`: `Spec => []EveryDrainRecorded`,
* `DeletionsAreDue`: `Spec => DrainsOnlyDue`,
* `PodsAreInTime`: `Spec => []InTime`, supposing `Regular`.

A drain that is not recorded is about to be, by the reconcile under way or by one
that a request or an event will start (`RecordInv`). For the deletions, drains of a
node are numbered in the order in which they begin and no cache is ahead
(`OrderInv`), a drain that goes on, or is cached as going on, has its request in
`recent` (`HistoryInv`), an observation under the id of the node or of the cache is
not older than the first request for that id (`SinceInv`), and the nodes and pods
at work are due, save for the names that new pods have taken (`DueInv`). Nothing is
supposed of called off drains or of recreated pods: the first keep their id and the
first request, the second are put on nodes that are not drained. `PodStays` uses
the latter for `InTime`: a pod on a node that drains was there before.

`InTime` needs an invariant on everything that can bring a reconcile about.
`WorkInv`: unless something has changed since (`Settled`), a reconcile works on
what there is, has asked to come back for the nodes that are not due, and each pod
on a node that is due is still ahead of it or has been dealt with (`Covered`,
`Handled`). `WakeInv`: a controller at rest has, for every node that drains, a timer
within the maximal interval that spares all its pods: it rings before the node is
due, before a terminating pod is to be killed, or within the allowance of a pod
that could not be judged. `Regular` says that the maximal interval is positive and,
when there is no grace period (the drainer alone evicts), not longer than the time
a terminating pod has. Without the first no timer bounds the interval; without the
second a pod that the drainer evicts right after a reconcile is found too late,
because pods are not watched. TLC has the counterexamples to both.

### HookJobs

* `NextRunsOnce`: `Spec => []RunsForNext`, without a supposition; the claim at the
  API server comes before the Job (`ClaimInv`).
* `TrackersAreFunctions` (`TypeOK`), `HooksRunOnce` (`RunsOnce`), `OutcomesAreKept`
  (`OutcomeKept`) and `VerdictsAreJustified` (`VerdictJustified`), supposing
  `~EarlyDeletion`, that nobody deletes a Job before its outcome has come to the
  cached UpgradeJob; the run `ran_twice` is the counterexample without it.

`CopyInv` says that no tracked outcome is lost at the server, `TruthInv` that
trackers, copies and caches are right about the end of a Job, `GoneInv` that a Job
that is gone is settled, so that it is not created again, `KeptInv` that its
finalizer stays until the outcome is tracked, `OrderInv` that a tracked end is not
followed by an older status, and `VerdictInv` that a verdict is given on all hooks.
The constants' assumption includes that `None` is neither an UpgradeJob nor a
status.

All these invariants were checked by TLC on the instances of the runs, within the
suppositions, before they were proved.

### Only model-checked

* Everything under fairness, which is out of the prover's reach:
  `StartedFinishes`, `LockReleased`, `PoolsGivenBack`, `ComesToRest`,
  `FinalizersReleased`, `VerdictReached`.

Every invariant and every action property of the runs has a theorem, some under the
suppositions named above.

## Plan

Done: `UpgradeJob`, `UpgradeConfig`, `ClusterVersion`, `NodeForceDrain`,
`HookJobs` with their runs; `UpgradeLock` as the abstraction of the first and as
a component of the third; the theorems above.

Left: theorems whose suppositions are weaker. `OneOpenJob` for an offer that changes
inside a window needs a change of the code (the name of a job contains the
version), and so do `DelayMinRespected` (the lock is released after a failed
clean-up), `OnlyOnDueNodes` (no UID in the deletion of a pod) and `GracePerRequest`
(the id of a drain is not unique).

## Not modelled

* UpgradeSuspensionWindow controller: it lists matching objects in a status. The
  effect of a window is `SuspendedAt` in `UpgradeJob` and the suspension in
  `UpgradeConfig`.
* The webhook's dry run, the Prometheus collectors, manager set-up, simulator,
  generated deep copies, the environment variables of hook Jobs: they have no
  state or only pass data on.
* Cron expressions, ISO weeks and time zones: `Slots` in `UpgradeConfig` is what
  they amount to. The order of semantic versions is left out.
* More than one replica or worker: the manager is deployed with leader election
  and uses the default of one worker per controller.
