--------------------------- MODULE ClusterVersion ---------------------------
(***************************************************************************)
(* The ClusterVersion controller (controllers/clusterversion_controller.go)*)
(* keeps the spec of the cluster's own ClusterVersion, here called         *)
(* upstream, as a managed ClusterVersion describes it: a template with the *)
(* latest overlay whose time has come.  The UpgradeJob reconciler locks    *)
(* and upgrades the same upstream object; its steps are those of           *)
(* UpgradeLock, which works on the variables holder, desired and finished. *)
(*                                                                         *)
(* Both objects are read from informer caches; an update writes the whole  *)
(* object back and is refused if it has changed since the copy was read    *)
(* (an object changed back to what the copy says counts as unchanged).     *)
(***************************************************************************)
EXTENDS Naturals

CONSTANTS
  Jobs, None, DesiredVersion,  \* see UpgradeLock
  Fields,         \* the fields of a ClusterVersionSpec but the desired update
  Values,         \* what they may hold; None is an empty field
  Configs,        \* the specs a managed ClusterVersion may be given
  MaxTime,        \* bound on the clock
  MaxEdits,       \* bound on changes by hand, of either object
  MaxFaults       \* bound on failed calls and lost answers

VARIABLES
  managed,        \* the managed ClusterVersion at the API server
  spec,           \* upstream: its spec without the desired update
  holder,         \* upstream: the lock annotation
  desired,        \* upstream: the desired update
  finished,       \* the UpgradeJobs whose outcome is decided
  managedSeen,    \* the informer caches
  upstreamSeen,
  news,           \* the objects that have changed since, their events on the way
  queued,         \* a request is in the work queue
  wake,           \* the delayed requests: no or one instant
  pc,             \* the update the reconcile comes to next
  version,        \* its copies of the two objects
  upstreamVersion,
  now, edits, faults

objects == <<managed, spec, holder, desired, finished>>
caches == <<managedSeen, upstreamSeen, news>>
seen == <<managedSeen, upstreamSeen>>
queue == <<queued, wake>>
worker == <<pc, version, upstreamVersion>>
vars == <<managed, spec, holder, desired, finished, managedSeen, upstreamSeen,
          news, queued, wake, pc, version, upstreamVersion, now, edits, faults>>

Locking == INSTANCE UpgradeLock

ClusterVersionSpec == [Fields -> Values \cup {None}]

\* Overlays are a function of their From: two with the same one are excluded.
\* A spec of None is a managed ClusterVersion that does not exist.
Overlays == UNION {[F -> ClusterVersionSpec] : F \in SUBSET (0..MaxTime)}
Config == [template: ClusterVersionSpec, overlays: Overlays]
Status == [current: ClusterVersionSpec, overlayApplied: 0..MaxTime \cup {None},
           overlays: Overlays]

ASSUME ConstantsAssumption ==
  /\ None \notin Jobs \cup Values \cup Nat
  /\ Configs \subseteq Config
  /\ MaxTime \in Nat /\ MaxEdits \in Nat /\ MaxFaults \in Nat

Empty == [f \in Fields |-> None]
NewStatus == [current |-> Empty, overlayApplied |-> None, overlays |-> <<>>]
NoManaged == [spec |-> None, status |-> NewStatus]
NoUpstream == [spec |-> Empty, lock |-> None, desired |-> None]

upstream == [spec |-> spec, lock |-> holder, desired |-> desired]

(***************************************************************************)
(* applyOverlay, and the times it changes at.                              *)
(***************************************************************************)
\* mergo.Merge with override: what is empty in the overlay is kept.
Merge(base, over) == [f \in Fields |-> IF over[f] = None THEN base[f] ELSE over[f]]

Latest(S) == CHOOSE t \in S : \A u \in S : u <= t
Earliest(S) == CHOOSE t \in S : \A u \in S : t <= u

DueOverlays(c) == {t \in DOMAIN c.overlays : t <= now}

UsedOverlay(c) == IF DueOverlays(c) = {} THEN None ELSE Latest(DueOverlays(c))

\* Mutant: the result is copied before the overlay is merged into it.
ApplyOverlayUnmerged(c) == c.template

ApplyOverlay(c) ==
  IF UsedOverlay(c) = None THEN c.template
  ELSE Merge(c.template, c.overlays[UsedOverlay(c)])

\* nextRequeue: the delay until the next overlay, as the instant it ends.
\* Mutant: an overlay that has just become due is waited for.
NextRequeueNow(c) ==
  LET future == {t \in DOMAIN c.overlays : t >= now}
  IN  IF future = {} THEN {} ELSE {Earliest(future)}

NextRequeue(c) ==
  LET future == {t \in DOMAIN c.overlays : t > now}
  IN  IF future = {} THEN {} ELSE {Earliest(future)}

StatusFor(c) ==
  [current |-> ApplyOverlay(c), overlayApplied |-> UsedOverlay(c),
   overlays |-> [t \in DOMAIN c.overlays |-> Merge(c.template, c.overlays[t])]]

(***************************************************************************)
(* Reconcile.                                                              *)
(***************************************************************************)
Return == pc' = "idle" /\ version' = NoManaged /\ upstreamVersion' = NoUpstream

\* A reconcile ends without an error: the work queue keeps the earlier of two
\* delayed requests.
Done(later) ==
  /\ Return
  /\ wake' = IF wake \cup later = {} THEN {} ELSE {Earliest(wake \cup later)}
  /\ UNCHANGED queued

\* It ends with an error and is tried again.
Retry == Return /\ queued' = TRUE /\ UNCHANGED wake

Begin ==
  /\ pc = "idle" /\ queued
  /\ queued' = FALSE
  /\ IF managedSeen.spec = None
     THEN UNCHANGED worker
     ELSE pc' = "status" /\ version' = managedSeen /\ upstreamVersion' = upstreamSeen
  /\ UNCHANGED <<objects, caches, wake, now, edits, faults>>

\* An API call fails.  An update may have been done nevertheless.
Fault == faults > 0 /\ faults' = faults - 1 /\ Retry

\* updateStatus.  Mutant: only a new overlay is worth an update.
NeedsStatusOfNewOverlay == version.status.overlayApplied # UsedOverlay(version.spec)

\* An empty list of overlays is never equal to the one that was read, which
\* is nil: the update is made, and changes nothing.
NeedsStatus == \/ version.status # StatusFor(version.spec)
               \/ DOMAIN version.spec.overlays = {}

WriteStatus(new) ==
  /\ managed' = new
  /\ news' = IF new = managed THEN news ELSE news \cup {"managed"}

UpdateStatus ==
  /\ pc = "status"
  /\ LET new == [version EXCEPT !.status = StatusFor(version.spec)]
     IN  \/ /\ ~NeedsStatus
            /\ pc' = "spec"
            /\ UNCHANGED <<managed, news, version, upstreamVersion, queue, faults>>
         \/ /\ NeedsStatus /\ version = managed
            /\ WriteStatus(new) /\ version' = new
            /\ pc' = "spec"
            /\ UNCHANGED <<upstreamVersion, queue, faults>>
         \/ /\ NeedsStatus /\ version # managed
            /\ Retry /\ UNCHANGED <<managed, news, faults>>
         \/ /\ NeedsStatus /\ Fault
            /\ \/ UNCHANGED <<managed, news>>
               \/ version = managed /\ WriteStatus(new)
  /\ UNCHANGED <<spec, holder, desired, finished, seen, now, edits>>

\* Mutant: the desired update is emptied instead of kept.
WriteUpstreamEmptied(new) ==
  /\ spec' = new
  /\ holder' = upstreamVersion.lock /\ desired' = ""
  /\ news' = news \cup {"upstream"}

\* The object is written back as it was read, with another spec but the same
\* desired update.
WriteUpstream(new) ==
  /\ spec' = new
  /\ holder' = upstreamVersion.lock /\ desired' = upstreamVersion.desired
  /\ news' = news \cup {"upstream"}

\* Mutant: an update that is never refused.
AcceptsAny == TRUE

Accepts == upstreamVersion = upstream

UpdateUpstream ==
  /\ pc = "spec"
  /\ LET new == ApplyOverlay(version.spec)
         same == new = upstreamVersion.spec
         kept == UNCHANGED <<spec, holder, desired, news>>
     IN  \/ same /\ kept /\ Done(NextRequeue(version.spec)) /\ UNCHANGED faults
         \/ /\ ~same /\ Accepts
            /\ WriteUpstream(new)
            /\ Done(NextRequeue(version.spec)) /\ UNCHANGED faults
         \/ ~same /\ ~Accepts /\ kept /\ Retry /\ UNCHANGED faults
         \/ ~same /\ (kept \/ (Accepts /\ WriteUpstream(new))) /\ Fault
  /\ UNCHANGED <<managed, finished, seen, now, edits>>

(***************************************************************************)
(* The surroundings.                                                       *)
(***************************************************************************)
\* The watches of both objects, of which Filter lets these two pass.
Deliver ==
  /\ \E o \in news :
       /\ managedSeen' = IF o = "managed" THEN managed ELSE managedSeen
       /\ upstreamSeen' = IF o = "upstream" THEN upstream ELSE upstreamSeen
       /\ news' = news \ {o}
  /\ queued' = TRUE
  /\ UNCHANGED <<objects, wake, worker, now, edits, faults>>

\* The controller starts again, with fresh caches and without its timer.
Restart ==
  /\ faults > 0 /\ faults' = faults - 1
  /\ Return
  /\ queued' = TRUE /\ wake' = {}
  /\ managedSeen' = managed /\ upstreamSeen' = upstream /\ news' = {}
  /\ UNCHANGED <<objects, now, edits>>

Wake ==
  /\ \E t \in wake : t <= now
  /\ wake' = {} /\ queued' = TRUE
  /\ UNCHANGED <<objects, caches, worker, now, edits, faults>>

\* Instants are far apart: what can be done in one is done.
Quiet == pc = "idle" /\ ~queued /\ news = {} /\ \A t \in wake : t > now

Tick ==
  /\ now < MaxTime /\ Quiet
  /\ now' = now + 1
  /\ UNCHANGED <<objects, caches, queue, worker, edits, faults>>

\* Somebody changes, deletes or creates the managed ClusterVersion, or changes
\* the upstream one.
EditManaged ==
  /\ edits > 0 /\ edits' = edits - 1
  /\ \E c \in Configs \cup {None} :
       /\ c # managed.spec
       /\ managed' = IF c = None \/ managed.spec = None
                     THEN [spec |-> c, status |-> NewStatus]
                     ELSE [managed EXCEPT !.spec = c]
  /\ news' = news \cup {"managed"}
  /\ UNCHANGED <<spec, holder, desired, finished, seen, queue, worker, now, faults>>

EditUpstream ==
  /\ edits > 0 /\ edits' = edits - 1
  /\ spec' \in {c.template : c \in Configs} \ {spec}
  /\ news' = news \cup {"upstream"}
  /\ UNCHANGED <<managed, holder, desired, finished, seen, queue, worker, now, faults>>

\* The UpgradeJob reconciler.
UpgradeJobStep ==
  /\ Locking!Next
  /\ news' = IF <<holder', desired'>> = <<holder, desired>> THEN news
             ELSE news \cup {"upstream"}
  /\ UNCHANGED <<managed, spec, seen, queue, worker, now, edits, faults>>

-----------------------------------------------------------------------------
Init ==
  /\ \E c \in Configs : managed = [spec |-> c, status |-> NewStatus]
  /\ spec = Empty /\ Locking!Init
  /\ managedSeen = managed /\ upstreamSeen = upstream /\ news = {}
  /\ queued = TRUE /\ wake = {}
  /\ pc = "idle" /\ version = NoManaged /\ upstreamVersion = NoUpstream
  /\ now = 0 /\ edits = MaxEdits /\ faults = MaxFaults

Reconcile == UpdateStatus \/ UpdateUpstream

Next == \/ Begin \/ Reconcile
        \/ Deliver \/ Wake \/ Tick \/ Restart
        \/ EditManaged \/ EditUpstream \/ UpgradeJobStep

Spec == Init /\ [][Next]_vars

\* The worker, the watches and the timers go on.
FairSpec == Spec /\ WF_vars(Begin) /\ WF_vars(Reconcile)
                 /\ WF_vars(Deliver) /\ WF_vars(Wake)

-----------------------------------------------------------------------------
(***************************************************************************)
(* Properties.                                                             *)
(***************************************************************************)
\* Every variable has its type.
Managed == [spec: Configs \cup {None}, status: Status]
Upstream == [spec: ClusterVersionSpec, lock: Jobs \cup {None},
             desired: {DesiredVersion[j] : j \in Jobs} \cup {None}]
TypeOK ==
  /\ managed \in Managed /\ managedSeen \in Managed /\ version \in Managed
  /\ upstream \in Upstream /\ upstreamSeen \in Upstream
  /\ upstreamVersion \in Upstream
  /\ finished \subseteq Jobs /\ news \subseteq {"managed", "upstream"}
  /\ queued \in BOOLEAN /\ wake \subseteq 0..MaxTime
  /\ pc \in {"idle", "status", "spec"}
  /\ now \in 0..MaxTime /\ edits \in 0..MaxEdits /\ faults \in 0..MaxFaults

\* With the overlay controller as a second writer of the whole object the lock
\* of the upgrade jobs still keeps its promises: no lock and no desired version
\* is brought back, or lost, by an update made from an old copy.
LockUndisturbed == Locking!Spec

\* When the controller is at rest the upstream spec is the one that is asked
\* for: each field comes from the latest overlay that has begun if it sets it,
\* and from the template otherwise.  Nobody but the timer tells the controller
\* that an overlay has begun.
Begun(c, t) == t \in DOMAIN c.overlays /\ t <= now
IsLatest(c, t) == Begun(c, t) /\ \A u \in 0..MaxTime : Begun(c, u) => u <= t
Wanted(c, f, v) ==
  \/ \E t \in 0..MaxTime : IsLatest(c, t) /\ c.overlays[t][f] = v /\ v # None
  \/ /\ \A t \in 0..MaxTime : IsLatest(c, t) => c.overlays[t][f] = None
     /\ c.template[f] = v
OverlayInForce ==
  Quiet /\ managed.spec # None =>
    \A f \in Fields : Wanted(managed.spec, f, spec[f])

\* The status then says what is in force: the upstream spec, the overlay it
\* comes from, and for every overlay a preview, which for this one is the spec.
StatusTruthful ==
  Quiet /\ managed.spec # None =>
    /\ managed.status.current = spec
    /\ DOMAIN managed.status.overlays = DOMAIN managed.spec.overlays
    /\ \A t \in DOMAIN managed.spec.overlays :
         IsLatest(managed.spec, t) =>
           /\ managed.status.overlayApplied = t
           /\ managed.status.overlays[t] = spec

\* Updates, the events they cause and requeues die down: once nobody else
\* changes anything the controller comes to rest.
ComesToRest == []<>Quiet
=============================================================================
