------------------------------ MODULE HookJobs ------------------------------
(***************************************************************************)
(* How the UpgradeJob reconciler runs and tracks hook Jobs                 *)
(* (controllers/upgradejob_controller.go: trackHookJobs and executeHooks). *)
(* The module UpgradeJob takes a hook for a status that turns from active  *)
(* to an outcome; here it is a batch Job with a finalizer, a tracker in    *)
(* the status of the UpgradeJob, and the claim of a hook that runs for the *)
(* next UpgradeJob only.                                                   *)
(*                                                                         *)
(* One event that influences the outcome, such as Create, is looked at,    *)
(* from the creation of the UpgradeJob to its verdict on the hooks.        *)
(* UpgradeJobs, hooks and Jobs are read from informer caches that lag      *)
(* behind the API server one by one, and every action of the reconcile     *)
(* makes one API call.                                                     *)
(***************************************************************************)
EXTENDS Naturals

CONSTANTS
  UpgradeJobs,
  Hooks,
  Runs,           \* SUBSET (UpgradeJobs \X Hooks), those the selectors match
  RunNext,        \* SUBSET Hooks, with run: Next
  Abort,          \* SUBSET Hooks, with failurePolicy: Abort
  None,
  EarlyDeletion,  \* BOOLEAN: a Job may be deleted before it is settled
  MaxCreations,   \* bound on the Jobs created for a hook and an UpgradeJob
  MaxFaults       \* bound on failed calls, restarts and deleted UpgradeJobs

ASSUME ConstantsAssumption ==
  /\ Runs \subseteq UpgradeJobs \X Hooks
  /\ RunNext \subseteq Hooks /\ Abort \subseteq Hooks
  /\ None \notin UpgradeJobs \cup {"active", "complete", "failed"}
  /\ EarlyDeletion \in BOOLEAN
  /\ MaxCreations \in Nat /\ MaxFaults \in Nat

VARIABLES
  uj,             \* the UpgradeJobs at the API server
  claimedBy,      \* .status.claimedBy of the hooks
  job,            \* the Jobs, by UpgradeJob and hook
  ujSeen,         \* the informer caches
  claimSeen,
  jobSeen,
  news,           \* the objects that have changed since
  queue,          \* the UpgradeJobs in the work queue
  pc,             \* what the reconcile does next
  cur,            \* its request
  copy,           \* its copy of the UpgradeJob
  list,           \* the Jobs of the UpgradeJob it has listed
  todo,           \* the hooks its loop has still to visit
  mine,           \* the hooks it runs for this UpgradeJob
  found,          \* the statuses of their Jobs
  failed,         \* an error has been collected
  faults,
  outcome,        \* history: how a Job has ended
  passed          \* history: the UpgradeJobs whose event is over

objects == <<uj, claimedBy, job>>
caches == <<ujSeen, claimSeen, jobSeen, news>>
worker == <<pc, cur, copy, list, todo, mine, found, failed>>
history == <<outcome, passed>>
vars == <<uj, claimedBy, job, ujSeen, claimSeen, jobSeen, news, queue,
          pc, cur, copy, list, todo, mine, found, failed, faults, outcome, passed>>

Statuses == {"active", "complete", "failed"}

\* hookTracker is a set of hooks with a status: one event, no tracking keys.
UpgradeJob == [exists: BOOLEAN, tracker: SUBSET (Hooks \X Statuses), failed: BOOLEAN]
NewUpgradeJob == [exists |-> TRUE, tracker |-> {}, failed |-> FALSE]

\* uid counts the Jobs created under the same name.
Job == [uid: 0..MaxCreations, status: Statuses \cup {None},
        finalizer: BOOLEAN, deleted: BOOLEAN]
NoJob(u) == [uid |-> u, status |-> None, finalizer |-> FALSE, deleted |-> FALSE]

isJobFinished(b) == b.status \in {"complete", "failed"}

\* The hooks whose selectors match an UpgradeJob.
Matching(j) == {h \in Hooks : <<j, h>> \in Runs}

Return ==
  /\ pc' = "idle" /\ cur' = None /\ copy' = NewUpgradeJob
  /\ list' = [h \in Hooks |-> NoJob(0)]
  /\ todo' = {} /\ mine' = {} /\ found' = {} /\ failed' = FALSE

\* An error: the request is queued again.
Error == queue' = queue \cup {cur} /\ Return

(***************************************************************************)
(* trackHookJobs.                                                          *)
(***************************************************************************)
HookStatus(l) == {<<h, l[h].status>> : h \in {g \in Hooks : l[g].status # None}}

\* Mutant: outcomes of Jobs that are gone are not added back.
CurrentOnly(u, l) == HookStatus(l)

\* Mutant: whatever was tracked is added back.
CurrentAndTracked(u, l) == HookStatus(l) \cup u.tracker

\* The Jobs there are, and the outcomes of those there have been.
CurrentAndCompleted(u, l) ==
  HookStatus(l) \cup {t \in u.tracker : t[2] # "active"}

\* Mutant: only finished Jobs are released, also when nobody will track them.
FinalizersOfFinished(u, l) == {h \in Hooks : l[h].finalizer /\ isJobFinished(l[h])}

\* The finalizers to remove: of finished Jobs, or, for an UpgradeJob that is
\* not found, of all (cleanupHookJobTrackingFinalizers).
Finalizers(u, l) ==
  {h \in Hooks : l[h].finalizer /\ (isJobFinished(l[h]) \/ ~u.exists)}

\* Get and List.
Begin(j) ==
  /\ pc = "idle" /\ j \in queue
  /\ queue' = queue \ {j}
  /\ cur' = j /\ copy' = ujSeen[j]
  /\ list' = [h \in Hooks |-> IF h \in Matching(j) THEN jobSeen[<<j, h>>]
                             ELSE NoJob(0)]
  /\ IF copy'.exists /\ CurrentAndCompleted(copy', list') # copy'.tracker
     THEN pc' = "track" /\ UNCHANGED todo
     ELSE pc' = "release" /\ todo' = Finalizers(copy', list')
  /\ UNCHANGED <<objects, caches, mine, found, failed, faults, history>>

\* The status update.
Track ==
  /\ pc = "track"
  /\ \/ /\ copy = uj[cur]
        /\ uj' = [uj EXCEPT ![cur].tracker = CurrentAndCompleted(copy, list)]
        /\ news' = news \cup {cur}
        /\ pc' = "release" /\ todo' = Finalizers(copy, list)
        /\ UNCHANGED <<queue, cur, copy, list, mine, found, failed>>
     \/ copy # uj[cur] /\ Error /\ UNCHANGED <<uj, news>>
  /\ UNCHANGED <<claimedBy, job, ujSeen, claimSeen, jobSeen, faults, history>>

\* The copy that was listed is the one that is updated.
ListedJob(h) == job[<<cur, h>>] = list[h]

\* The finalizer of a Job is removed, with which a deleted Job is gone.
Release(h) ==
  /\ pc = "release" /\ h \in todo
  /\ todo' = todo \ {h}
  /\ \/ /\ ListedJob(h)
        /\ job' = [job EXCEPT ![<<cur, h>>] =
             IF @.deleted THEN NoJob(@.uid) ELSE [@ EXCEPT !.finalizer = FALSE]]
        /\ news' = news \cup {<<cur, h>>}
        /\ UNCHANGED failed
     \/ ~ListedJob(h) /\ failed' = TRUE /\ UNCHANGED <<job, news>>
  /\ UNCHANGED <<uj, claimedBy, ujSeen, claimSeen, jobSeen, queue,
                 pc, cur, copy, list, mine, found, faults, history>>

(***************************************************************************)
(* executeHooks.                                                           *)
(***************************************************************************)
\* Claim, for a hook as it is in the cache.
Claimable(h) == h \in RunNext /\ claimSeen[h] = None
Claimed(j, h) == h \notin RunNext \/ claimSeen[h] = j

\* The end of trackHookJobs, the second Get and the list of the hooks.
StartHooks ==
  /\ pc = "release" /\ todo = {}
  /\ \/ failed /\ Error
     \/ /\ ~failed /\ (~ujSeen[cur].exists \/ ujSeen[cur].failed)
        /\ Return /\ UNCHANGED queue
     \/ /\ ~failed /\ ujSeen[cur].exists /\ ~ujSeen[cur].failed
        /\ pc' = "claim" /\ copy' = ujSeen[cur]
        /\ todo' = {h \in Matching(cur) : Claimable(h)}
        /\ mine' = {h \in Matching(cur) : Claimed(cur, h)}
        /\ UNCHANGED <<queue, cur, list, found, failed>>
  /\ UNCHANGED <<objects, caches, faults, history>>

\* Mutant: the claim is written whatever the hook says by now.
AnyClaim(h) == TRUE

Unclaimed(h) == claimedBy[h] = None

\* The update of the hook's status, which ends the reconcile when it fails.
Claim(h) ==
  /\ pc = "claim" /\ h \in todo
  /\ \/ /\ Unclaimed(h)
        /\ claimedBy' = [claimedBy EXCEPT ![h] = cur]
        /\ news' = news \cup {h}
        /\ todo' = todo \ {h} /\ mine' = mine \cup {h}
        /\ UNCHANGED <<queue, pc, cur, copy, list, found, failed>>
     \/ ~Unclaimed(h) /\ Error /\ UNCHANGED <<claimedBy, news>>
  /\ UNCHANGED <<uj, job, ujSeen, claimSeen, jobSeen, faults, history>>

RunHooks ==
  /\ pc = "claim" /\ todo = {}
  /\ pc' = "execute" /\ todo' = mine
  /\ UNCHANGED <<objects, caches, queue, cur, copy, list, mine, found, failed,
                 faults, history>>

\* Mutant: a Job that is not listed has not been created.
KnownFromList(h) ==
  HookStatus([g \in Hooks |-> IF g = h THEN jobSeen[<<cur, h>>] ELSE NoJob(0)])

\* jobForUpgradeJobAndHook: what is tracked, and what is listed.
Known(h) ==
  {t \in copy.tracker : t[1] = h}
    \cup HookStatus([g \in Hooks |-> IF g = h THEN jobSeen[<<cur, h>>] ELSE NoJob(0)])

\* createHookJob, if nothing is known; a name that is taken is an error.
Execute(h) ==
  /\ pc = "execute" /\ h \in todo
  /\ todo' = todo \ {h}
  /\ \/ /\ Known(h) # {}
        /\ found' = found \cup Known(h)
        /\ UNCHANGED <<job, news, failed>>
     \/ /\ Known(h) = {} /\ job[<<cur, h>>].status = None
        /\ job[<<cur, h>>].uid < MaxCreations
        /\ job' = [job EXCEPT ![<<cur, h>>] =
             [uid |-> @.uid + 1, status |-> "active", finalizer |-> TRUE,
              deleted |-> FALSE]]
        /\ news' = news \cup {<<cur, h>>}
        /\ found' = found \cup {<<h, "active">>}
        /\ UNCHANGED failed
     \/ /\ Known(h) = {} /\ job[<<cur, h>>].status # None
        /\ failed' = TRUE
        /\ UNCHANGED <<job, news, found>>
  /\ UNCHANGED <<uj, claimedBy, ujSeen, claimSeen, jobSeen, queue,
                 pc, cur, copy, list, mine, faults, history>>

\* Mutant: a hook that is still running is not waited for.
NeverWaits == FALSE

Waits == \E t \in found : t[2] = "active"

Fails == \E t \in found : t[2] = "failed" /\ t[1] \in Abort

\* The verdict: an error, a hook to wait for, a failed UpgradeJob or none.
Decide ==
  /\ pc = "execute" /\ todo = {}
  /\ \/ failed /\ Error /\ UNCHANGED <<uj, news, passed>>
     \/ /\ ~failed /\ Waits
        /\ Return /\ UNCHANGED <<uj, news, queue, passed>>
     \/ /\ ~failed /\ ~Waits /\ Fails /\ copy = uj[cur]
        /\ uj' = [uj EXCEPT ![cur].failed = TRUE]
        /\ news' = news \cup {cur}
        /\ Return /\ UNCHANGED <<queue, passed>>
     \/ /\ ~failed /\ ~Waits /\ Fails /\ copy # uj[cur]
        /\ Error /\ UNCHANGED <<uj, news, passed>>
     \/ /\ ~failed /\ ~Waits /\ ~Fails
        /\ passed' = passed \cup {cur}
        /\ Return /\ UNCHANGED <<uj, news, queue>>
  /\ UNCHANGED <<claimedBy, job, ujSeen, claimSeen, jobSeen, faults, outcome>>

\* The API call of a step fails: the loops over Jobs go on, the others return.
CallFails ==
  /\ faults > 0 /\ faults' = faults - 1
  /\ \/ /\ pc \in {"release", "execute"}
        /\ \E h \in todo : todo' = todo \ {h}
        /\ failed' = TRUE
        /\ UNCHANGED <<queue, pc, cur, copy, list, mine, found>>
     \/ pc = "track" /\ Error
     \/ pc = "claim" /\ todo # {} /\ Error
     \/ pc = "execute" /\ todo = {} /\ ~failed /\ ~Waits /\ Fails /\ Error
  /\ UNCHANGED <<objects, caches, history>>

(***************************************************************************)
(* The surroundings.                                                       *)
(***************************************************************************)
\* The watches, of UpgradeJobs and of the Jobs they own; hooks are not watched.
Deliver(o) ==
  /\ o \in news /\ news' = news \ {o}
  /\ \/ /\ o \in UpgradeJobs
        /\ ujSeen' = [ujSeen EXCEPT ![o] = uj[o]]
        /\ queue' = queue \cup {o}
        /\ UNCHANGED <<claimSeen, jobSeen>>
     \/ /\ o \in Runs
        /\ jobSeen' = [jobSeen EXCEPT ![o] = job[o]]
        /\ queue' = queue \cup {o[1]}
        /\ UNCHANGED <<ujSeen, claimSeen>>
     \/ /\ o \in Hooks
        /\ claimSeen' = [claimSeen EXCEPT ![o] = claimedBy[o]]
        /\ UNCHANGED <<ujSeen, jobSeen, queue>>
  /\ UNCHANGED <<objects, worker, faults, history>>

\* The controller restarts; there are requests for what exists only.
Restart ==
  /\ faults > 0 /\ faults' = faults - 1
  /\ Return
  /\ ujSeen' = uj /\ claimSeen' = claimedBy /\ jobSeen' = job /\ news' = {}
  /\ queue' = {j \in UpgradeJobs : uj[j].exists}
                \cup {r[1] : r \in {q \in Runs : job[q].status # None}}
  /\ UNCHANGED <<objects, history>>

\* A Job ends.
JobEnds(r) ==
  /\ job[r].status = "active"
  /\ \E s \in {"complete", "failed"} :
       /\ job' = [job EXCEPT ![r].status = s]
       /\ outcome' = [outcome EXCEPT ![r] = s]
  /\ news' = news \cup {r}
  /\ UNCHANGED <<uj, claimedBy, ujSeen, claimSeen, jobSeen, queue, worker, faults,
                 passed>>

\* The reconciler has seen the end of a Job, or of its UpgradeJob, and uses no
\* older copy.
Settled(r) ==
  LET seen(u) == ~u.exists \/ <<r[2], outcome[r]>> \in u.tracker
  IN  seen(ujSeen[r[1]]) /\ (cur = r[1] => seen(copy))

\* A Job is deleted by somebody, by the TTL controller or, when its UpgradeJob
\* is gone, by the garbage collector.  It stays as long as it has a finalizer.
DeleteJob(r) ==
  /\ job[r].status # None /\ ~job[r].deleted
  /\ EarlyDeletion \/ Settled(r)
  /\ job' = [job EXCEPT ![r] =
       IF @.finalizer THEN [@ EXCEPT !.deleted = TRUE] ELSE NoJob(@.uid)]
  /\ news' = news \cup {r}
  /\ UNCHANGED <<uj, claimedBy, ujSeen, claimSeen, jobSeen, queue, worker, faults,
                 history>>

\* An UpgradeJob is deleted (in the background: its Jobs are collected later).
DeleteUpgradeJob(j) ==
  /\ faults > 0 /\ faults' = faults - 1
  /\ uj[j].exists
  /\ uj' = [uj EXCEPT ![j] = [exists |-> FALSE, tracker |-> {}, failed |-> FALSE]]
  /\ news' = news \cup {j}
  /\ UNCHANGED <<claimedBy, job, ujSeen, claimSeen, jobSeen, queue, worker, history>>

-----------------------------------------------------------------------------
Init ==
  /\ uj = [j \in UpgradeJobs |-> NewUpgradeJob] /\ ujSeen = uj
  /\ claimedBy = [h \in Hooks |-> None] /\ claimSeen = claimedBy
  /\ job = [r \in Runs |-> NoJob(0)] /\ jobSeen = job
  /\ news = {} /\ queue = UpgradeJobs
  /\ pc = "idle" /\ cur = None /\ copy = NewUpgradeJob
  /\ list = [h \in Hooks |-> NoJob(0)]
  /\ todo = {} /\ mine = {} /\ found = {} /\ failed = FALSE
  /\ faults = MaxFaults
  /\ outcome = [r \in Runs |-> None] /\ passed = {}

Reconcile == \/ Track \/ StartHooks \/ RunHooks \/ Decide
             \/ \E h \in Hooks : Release(h) \/ Claim(h) \/ Execute(h)

Environment == \/ Restart \/ \E j \in UpgradeJobs : DeleteUpgradeJob(j)
               \/ \E r \in Runs : JobEnds(r) \/ DeleteJob(r)

Next == \/ \E j \in UpgradeJobs : Begin(j)
        \/ Reconcile \/ CallFails \/ Environment
        \/ \E o \in UpgradeJobs \cup Hooks \cup Runs : Deliver(o)

Spec == Init /\ [][Next]_vars

\* The worker goes on, the work queue serves every request, and the caches
\* catch up.  Nothing makes a Job end.
FairSpec ==
  /\ Spec /\ WF_vars(Reconcile)
  /\ \A j \in UpgradeJobs : SF_vars(Begin(j))
  /\ \A o \in UpgradeJobs \cup Hooks \cup Runs : WF_vars(Deliver(o))

-----------------------------------------------------------------------------
(***************************************************************************)
(* Properties.                                                             *)
(***************************************************************************)
\* Every variable has its type, and an UpgradeJob tracks at most one status of
\* a hook.
TypeOK ==
  /\ uj \in [UpgradeJobs -> UpgradeJob] /\ ujSeen \in [UpgradeJobs -> UpgradeJob]
  /\ claimedBy \in [Hooks -> UpgradeJobs \cup {None}]
  /\ claimSeen \in [Hooks -> UpgradeJobs \cup {None}]
  /\ job \in [Runs -> Job] /\ jobSeen \in [Runs -> Job]
  /\ news \subseteq UpgradeJobs \cup Hooks \cup Runs
  /\ queue \subseteq UpgradeJobs
  /\ pc \in {"idle", "track", "release", "claim", "execute"}
  /\ cur \in UpgradeJobs \cup {None} /\ copy \in UpgradeJob
  /\ list \in [Hooks -> Job]
  /\ todo \subseteq Hooks /\ mine \subseteq Hooks
  /\ found \subseteq Hooks \X Statuses /\ failed \in BOOLEAN
  /\ faults \in 0..MaxFaults
  /\ outcome \in [Runs -> Statuses \cup {None}] /\ passed \subseteq UpgradeJobs
  /\ \A j \in UpgradeJobs : \A t, u \in uj[j].tracker : t[1] = u[1] => t = u

\* A hook runs once for an UpgradeJob, although its Job may be gone from the
\* cache or not yet in it, and the tracker of the cached UpgradeJob may be old.
RunsOnce == \A r \in Runs : job[r].uid <= 1

\* A hook with run: Next runs for one UpgradeJob only, also when several see it
\* unclaimed in the cache.
RunsForNext ==
  \A h \in RunNext : \A i, j \in UpgradeJobs :
    {<<i, h>>, <<j, h>>} \subseteq {r \in Runs : job[r].uid > 0} => i = j

\* A Job that has ended and may disappear, or has, is not forgotten: its outcome
\* is in the status of its UpgradeJob for as long as there is one.
OutcomeKept ==
  \A r \in Runs : outcome[r] # None /\ ~job[r].finalizer /\ uj[r[1]].exists =>
    <<r[2], outcome[r]>> \in uj[r[1]].tracker

\* The verdict on the event is the one its Jobs justify: the UpgradeJob passes
\* when all have ended, none of them with a failure that aborts it, and fails
\* for such a failure only.
VerdictJustified ==
  \A j \in UpgradeJobs :
    /\ j \in passed => \A h \in Matching(j) : h \notin RunNext \/ claimedBy[h] = j =>
         \/ outcome[<<j, h>>] = "complete"
         \/ outcome[<<j, h>>] = "failed" /\ h \notin Abort
    /\ uj[j].failed => \E h \in Abort \cap Matching(j) : outcome[<<j, h>>] = "failed"

\* A Job that has ended, or whose UpgradeJob is gone, is not kept by the
\* controller's finalizer for ever.
FinalizersReleased ==
  \A r \in Runs : (job[r].finalizer /\ (isJobFinished(job[r]) \/ ~uj[r[1]].exists))
                    ~> ~job[r].finalizer

\* An UpgradeJob does not hang on hooks that have ended: unless one of its Jobs
\* is still active, it comes to its verdict.
VerdictReached ==
  \A j \in UpgradeJobs :
    []<>(\/ ~uj[j].exists \/ uj[j].failed \/ j \in passed
         \/ \E h \in Matching(j) : job[<<j, h>>].status = "active")
=============================================================================
