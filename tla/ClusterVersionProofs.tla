------------------------ MODULE ClusterVersionProofs ------------------------
(***************************************************************************)
(* The overlay controller: types, the lock it shares, and what is in force *)
(* when it has come to rest, for any configurations and any bounds.        *)
(***************************************************************************)
EXTENDS ClusterVersion, OrderTheorems

-----------------------------------------------------------------------------
(* The operators.                                                          *)

\* The earliest of a set of instants exists.
LEMMA EarliestOK ==
  ASSUME NEW S \in SUBSET Nat, S # {}
  PROVE  Earliest(S) \in S /\ \A t \in S : Earliest(S) <= t
  BY FirstInstant DEF Earliest

\* So does the latest of those up to the horizon.
LEMMA LatestOK ==
  ASSUME NEW S \in SUBSET (0..MaxTime), S # {}
  PROVE  Latest(S) \in S /\ \A t \in S : t <= Latest(S)
  BY LastInstant, ConstantsAssumption DEF Latest

\* The overlays of a configuration are specs, each from an instant.
LEMMA ConfigOK ==
  ASSUME NEW c \in Configs
  PROVE  /\ c \in Config /\ c.template \in ClusterVersionSpec
         /\ DOMAIN c.overlays \in SUBSET (0..MaxTime)
         /\ \A t \in DOMAIN c.overlays : c.overlays[t] \in ClusterVersionSpec
<1>1. c \in Config
  BY ConstantsAssumption
<1>2. c.template \in ClusterVersionSpec /\ c.overlays \in Overlays
  BY <1>1 DEF Config
<1>3. PICK F \in SUBSET (0..MaxTime) : c.overlays \in [F -> ClusterVersionSpec]
  BY <1>2 DEF Overlays
<1> QED BY <1>1, <1>2, <1>3

\* Merging gives a spec.
LEMMA MergeOK ==
  ASSUME NEW b \in ClusterVersionSpec, NEW o \in ClusterVersionSpec
  PROVE  Merge(b, o) \in ClusterVersionSpec
  BY DEF Merge, ClusterVersionSpec

\* An overlay that is used has begun, and none has begun later; without one
\* no overlay has begun.
LEMMA UsedOverlayOK ==
  ASSUME NEW c \in Configs, now \in Nat
  PROVE  \/ /\ UsedOverlay(c) \in DOMAIN c.overlays /\ UsedOverlay(c) # None
            /\ UsedOverlay(c) \in 0..MaxTime
            /\ IsLatest(c, UsedOverlay(c))
            /\ \A t : IsLatest(c, t) => t = UsedOverlay(c)
         \/ UsedOverlay(c) = None /\ \A t : ~IsLatest(c, t)
<1>1. DueOverlays(c) \in SUBSET (0..MaxTime)
  BY ConfigOK DEF DueOverlays
<1>2. CASE DueOverlays(c) = {}
  BY <1>2 DEF UsedOverlay, DueOverlays, IsLatest, Begun
<1>3. CASE DueOverlays(c) # {}
  <2> DEFINE m == UsedOverlay(c)
  <2>1. m \in DueOverlays(c) /\ \A t \in DueOverlays(c) : t <= m
    BY <1>1, <1>3, LatestOK DEF UsedOverlay
  <2>2. m \in DOMAIN c.overlays /\ m \in 0..MaxTime /\ m # None
    BY <1>1, <2>1, ConstantsAssumption DEF DueOverlays
  <2>3. IsLatest(c, m)
    BY <2>1 DEF IsLatest, Begun, DueOverlays
  <2>4. ASSUME NEW t, IsLatest(c, t) PROVE t = m
    <3>1. t \in DueOverlays(c) /\ t \in 0..MaxTime
      BY <1>1, <2>4 DEF IsLatest, Begun, DueOverlays
    <3>2. t <= m /\ m <= t
      BY <2>1, <2>2, <2>3, <2>4, <3>1 DEF IsLatest
    <3> QED BY <2>2, <3>1, <3>2
  <2> QED BY <2>2, <2>3, <2>4
<1> QED BY <1>2, <1>3

\* What applyOverlay and updateStatus make of a configuration has its type.
LEMMA ApplyOverlayOK ==
  ASSUME NEW c \in Configs, now \in Nat
  PROVE  ApplyOverlay(c) \in ClusterVersionSpec /\ StatusFor(c) \in Status
<1>1. UsedOverlay(c) = None \/ UsedOverlay(c) \in DOMAIN c.overlays
  BY UsedOverlayOK
<1>2. ApplyOverlay(c) \in ClusterVersionSpec
  BY <1>1, ConfigOK, MergeOK DEF ApplyOverlay
<1>3. UsedOverlay(c) \in 0..MaxTime \cup {None}
  BY <1>1, ConfigOK
<1> DEFINE ov == [t \in DOMAIN c.overlays |-> Merge(c.template, c.overlays[t])]
<1>4. ov \in [DOMAIN c.overlays -> ClusterVersionSpec]
  BY ConfigOK, MergeOK
<1>5. ov \in Overlays
  BY <1>4, ConfigOK DEF Overlays
<1> HIDE DEF ov
<1> QED BY <1>2, <1>3, <1>5 DEF StatusFor, Status, ov

\* Each field of what is applied is the one that is asked for.
LEMMA AppliedIsWanted ==
  ASSUME NEW c \in Configs, now \in Nat, NEW f \in Fields
  PROVE  Wanted(c, f, ApplyOverlay(c)[f])
<1>1. CASE UsedOverlay(c) = None
  BY <1>1, UsedOverlayOK DEF Wanted, ApplyOverlay
<1>2. CASE UsedOverlay(c) # None
  <2> DEFINE m == UsedOverlay(c)
  <2>1. /\ m \in DOMAIN c.overlays /\ m \in 0..MaxTime /\ IsLatest(c, m)
        /\ \A t : IsLatest(c, t) => t = m
    BY <1>2, UsedOverlayOK
  <2>2. ApplyOverlay(c)[f] = IF c.overlays[m][f] = None THEN c.template[f]
                             ELSE c.overlays[m][f]
    BY <1>2 DEF ApplyOverlay, Merge
  <2> HIDE DEF m
  <2> QED BY <2>1, <2>2 DEF Wanted
<1> QED BY <1>1, <1>2

-----------------------------------------------------------------------------
(* Types.                                                                  *)

\* The empty objects have their types.
LEMMA NewObjects ==
  /\ Empty \in ClusterVersionSpec /\ NewStatus \in Status
  /\ NoManaged \in Managed
<1>1. Empty \in ClusterVersionSpec
  BY DEF Empty, ClusterVersionSpec
<1>2. <<>> \in [{} -> ClusterVersionSpec]
  OBVIOUS
<1>3. <<>> \in Overlays
  BY <1>2 DEF Overlays
<1> QED BY <1>1, <1>3 DEF NewStatus, Status, NoManaged, Managed

\* A reconcile that ends leaves well-typed copies.
LEMMA ReturnOK ==
  ASSUME Return PROVE version' \in Managed /\ upstreamVersion' \in Upstream /\ pc' = "idle"
  BY NewObjects DEF Return, Upstream, NoUpstream

\* The delayed requests stay instants.
LEMMA DoneOK ==
  ASSUME TypeOK, NEW later \in SUBSET (0..MaxTime), Done(later)
  PROVE  wake' \in SUBSET (0..MaxTime)
<1>1. wake \cup later \in SUBSET Nat /\ wake \cup later \in SUBSET (0..MaxTime)
  BY ConstantsAssumption DEF TypeOK
<1>2. CASE wake \cup later = {}
  BY <1>2 DEF Done
<1>3. CASE wake \cup later # {}
  BY <1>1, <1>3, EarliestOK DEF Done
<1> QED BY <1>2, <1>3

\* nextRequeue is the first of the overlays that have not begun.
LEMMA NextRequeueOK ==
  ASSUME NEW c \in Configs, now \in Nat
  PROVE  /\ NextRequeue(c) \in SUBSET (0..MaxTime)
         /\ \A u \in DOMAIN c.overlays : u > now => \E t \in NextRequeue(c) : t <= u
<1> DEFINE future == {t \in DOMAIN c.overlays : t > now}
<1>1. future \in SUBSET (0..MaxTime) /\ future \in SUBSET Nat
  BY ConfigOK
<1>2. CASE future = {}
  BY <1>2 DEF NextRequeue
<1>3. CASE future # {}
  <2>1. Earliest(future) \in future /\ \A u \in future : Earliest(future) <= u
    BY <1>1, <1>3, EarliestOK
  <2>2. NextRequeue(c) = {Earliest(future)}
    BY <1>3 DEF NextRequeue
  <2> HIDE DEF future
  <2>3. \A u \in DOMAIN c.overlays : u > now => u \in future
    BY DEF future
  <2> QED BY <1>1, <2>1, <2>2, <2>3
<1> QED BY <1>2, <1>3

\* The status of the ClusterVersion is written with the right type.
LEMMA UpdateStatusOK == ASSUME TypeOK, UpdateStatus, version.spec \in Configs PROVE TypeOK'
<1> DEFINE new == [version EXCEPT !.status = StatusFor(version.spec)]
<1>1. new \in Managed
  BY ApplyOverlayOK DEF TypeOK, Managed
<1>2. managed' \in Managed /\ news' \subseteq {"managed", "upstream"}
  BY <1>1 DEF UpdateStatus, WriteStatus, TypeOK
<1>3. /\ version' \in Managed /\ upstreamVersion' \in Upstream
      /\ pc' \in {"idle", "spec"} /\ queued' \in BOOLEAN
  BY <1>1, ReturnOK DEF UpdateStatus, Fault, Retry, TypeOK, queue
<1>4. wake' = wake /\ faults' \in 0..MaxFaults
  BY ConstantsAssumption DEF UpdateStatus, Fault, Retry, TypeOK, queue
<1>5. UNCHANGED <<spec, holder, desired, finished, seen, now, edits>>
  BY DEF UpdateStatus
<1> QED BY <1>2, <1>3, <1>4, <1>5 DEF TypeOK, upstream, seen

\* The upstream ClusterVersion is written with the right type.
LEMMA UpdateUpstreamOK ==
  ASSUME TypeOK, UpdateUpstream, version.spec \in Configs PROVE TypeOK'
<1> DEFINE new == ApplyOverlay(version.spec)
           next == NextRequeue(version.spec)
<1>1. new \in ClusterVersionSpec /\ next \in SUBSET (0..MaxTime)
  BY ApplyOverlayOK, NextRequeueOK DEF TypeOK
<1>2. upstream' \in Upstream /\ news' \subseteq {"managed", "upstream"}
  BY <1>1 DEF UpdateUpstream, WriteUpstream, TypeOK, upstream, Upstream
<1>3. Return /\ (Done(next) \/ Fault \/ Retry)
  BY DEF UpdateUpstream, Done, Fault, Retry
<1>4. wake' \in SUBSET (0..MaxTime) /\ queued' \in BOOLEAN
  BY <1>1, <1>3, DoneOK DEF Done, Fault, Retry, TypeOK
<1>5. faults' \in 0..MaxFaults
  BY ConstantsAssumption DEF UpdateUpstream, Fault, TypeOK
<1>6. UNCHANGED <<managed, finished, seen, now, edits>>
  BY DEF UpdateUpstream
<1> QED BY <1>2, <1>3, <1>4, <1>5, <1>6, ReturnOK DEF TypeOK, seen

\* The managed ClusterVersion that is reconciled exists.
Reconciled == pc # "idle" => version.spec # None

\* Every step keeps the types, given that.
LEMMA TypeStep == ASSUME TypeOK, Reconciled, [Next]_vars PROVE TypeOK' /\ Reconciled'
<1> USE DEF objects, caches, seen, queue, worker
<1>1. CASE Begin
  BY <1>1 DEF Begin, TypeOK, Reconciled, upstream
<1>2. CASE UpdateStatus
  <2>1. version.spec \in Configs
    BY <1>2 DEF UpdateStatus, TypeOK, Reconciled, Managed
  <2>2. Reconciled'
    BY <1>2 DEF UpdateStatus, Reconciled, Fault, Retry, Return, TypeOK, Managed
  <2> QED BY <1>2, <2>1, <2>2, UpdateStatusOK
<1>3. CASE UpdateUpstream
  <2>1. version.spec \in Configs
    BY <1>3 DEF UpdateUpstream, TypeOK, Reconciled, Managed
  <2>2. Reconciled'
    BY <1>3 DEF UpdateUpstream, Reconciled, Fault, Retry, Done, Return
  <2> QED BY <1>3, <2>1, <2>2, UpdateUpstreamOK
<1>4. CASE Deliver
  BY <1>4 DEF Deliver, TypeOK, Reconciled, upstream
<1>5. CASE Wake
  BY <1>5 DEF Wake, TypeOK, Reconciled, upstream
<1>6. CASE Tick
  BY <1>6, ConstantsAssumption DEF Tick, TypeOK, Reconciled, upstream
<1>7. CASE Restart
  <2>1. faults' \in 0..MaxFaults
    BY <1>7, ConstantsAssumption DEF Restart, TypeOK
  <2> QED BY <1>7, <2>1, ReturnOK DEF Restart, TypeOK, Reconciled, upstream
<1>8. CASE EditManaged
  <2>1. managed' \in Managed
    BY <1>8, NewObjects DEF EditManaged, TypeOK, Managed
  <2>2. edits' \in 0..MaxEdits
    BY <1>8, ConstantsAssumption DEF EditManaged, TypeOK
  <2> QED BY <1>8, <2>1, <2>2 DEF EditManaged, TypeOK, Reconciled, upstream
<1>9. CASE EditUpstream
  <2>1. spec' \in ClusterVersionSpec
    BY <1>9, ConfigOK DEF EditUpstream
  <2>2. edits' \in 0..MaxEdits
    BY <1>9, ConstantsAssumption DEF EditUpstream, TypeOK
  <2>3. upstream' \in Upstream
    BY <1>9, <2>1 DEF EditUpstream, TypeOK, upstream, Upstream
  <2> QED BY <1>9, <2>2, <2>3 DEF EditUpstream, TypeOK, Reconciled
<1>10. CASE UpgradeJobStep
  <2>1. /\ holder' \in Jobs \cup {None} /\ finished' \subseteq Jobs
        /\ desired' \in {DesiredVersion[j] : j \in Jobs} \cup {None}
    BY <1>10 DEF UpgradeJobStep, Locking!Next, Locking!Acquire, Locking!Upgrade,
                 Locking!Finish, Locking!Release, TypeOK, upstream, Upstream
  <2>2. upstream' \in Upstream
    BY <1>10, <2>1 DEF UpgradeJobStep, TypeOK, upstream, Upstream
  <2> QED BY <1>10, <2>1, <2>2 DEF UpgradeJobStep, TypeOK, Reconciled
<1>11. CASE UNCHANGED vars
  BY <1>11 DEF vars, TypeOK, Reconciled, upstream
<1> QED BY <1>1, <1>2, <1>3, <1>4, <1>5, <1>6, <1>7, <1>8, <1>9, <1>10, <1>11
        DEF Next, Reconcile

\* The initial states are well typed.
LEMMA InitType == ASSUME Init PROVE TypeOK /\ Reconciled
<1>1. managed \in Managed
  BY NewObjects DEF Init, Managed
<1>2. upstream \in Upstream
  BY NewObjects DEF Init, Locking!Init, upstream, Upstream
<1>3. NoUpstream \in Upstream
  BY NewObjects DEF NoUpstream, Upstream
<1> QED BY <1>1, <1>2, <1>3, NewObjects, ConstantsAssumption
        DEF Init, Locking!Init, TypeOK, Reconciled

\* Every reachable state is well typed, for any configurations and bounds.
THEOREM OverlayTypes == Spec => []TypeOK
<1>1. Init => TypeOK /\ Reconciled
  BY InitType
<1>2. TypeOK /\ Reconciled /\ [Next]_vars => TypeOK' /\ Reconciled'
  BY TypeStep
<1> QED BY <1>1, <1>2, PTL DEF Spec

-----------------------------------------------------------------------------
(* The lock.                                                               *)

\* With the overlay controller as a second writer of the ClusterVersion the
\* lock still keeps its promises, because a copy that is written back whole
\* is current: lock and desired version are what they were.
THEOREM LockShared == Spec => LockUndisturbed
<1>1. Init => Locking!Init
  BY DEF Init
<1>2. [Next]_vars => [Locking!Next]_(Locking!vars)
  <2> SUFFICES ASSUME [Next]_vars PROVE [Locking!Next]_(Locking!vars)
    OBVIOUS
  <2> USE DEF Locking!vars, objects
  <2>1. CASE UpdateUpstream
    BY <2>1 DEF UpdateUpstream, WriteUpstream, Accepts, upstream
  <2>2. CASE UpgradeJobStep
    BY <2>2 DEF UpgradeJobStep
  <2>3. CASE \/ Begin \/ UpdateStatus \/ Deliver \/ Wake \/ Tick \/ Restart
             \/ EditManaged \/ EditUpstream
    BY <2>3 DEF Begin, UpdateStatus, Deliver, Wake, Tick, Restart, EditManaged, EditUpstream
  <2>4. CASE UNCHANGED vars
    BY <2>4 DEF vars
  <2> QED BY <2>1, <2>2, <2>3, <2>4 DEF Next, Reconcile
<1> QED BY <1>1, <1>2, PTL DEF Spec, LockUndisturbed, Locking!Spec

-----------------------------------------------------------------------------
(* What is in force.                                                       *)

\* A cache that has no news to come is up to date.
CachesInv == /\ "managed" \notin news => managedSeen = managed
             /\ "upstream" \notin news => upstreamSeen = upstream

\* A reconcile that no event will repeat works on current copies, and comes to
\* the upstream object with a status that is up to date.
WorkerInv ==
  pc # "idle" =>
    /\ ~queued /\ news = {} => version = managed /\ upstreamVersion = upstream
    /\ pc = "spec" => version.status = StatusFor(version.spec)

\* When there is nothing left to do, overlay and status are in force, and the
\* timer will not be late for the next overlay.
Timely(c) == \A u \in DOMAIN c.overlays : u > now => \E t \in wake : t <= u
RestInv ==
  Quiet /\ managed.spec # None =>
    /\ spec = ApplyOverlay(managed.spec)
    /\ managed.status = StatusFor(managed.spec)
    /\ Timely(managed.spec)

ForceInv == CachesInv /\ WorkerInv /\ RestInv

\* A step that makes a request or news leaves nothing at rest.
LEMMA BusyOK == ASSUME queued' = TRUE \/ news' # {} PROVE RestInv'
  BY DEF RestInv, Quiet

\* A reconcile begins with what the caches have.
LEMMA BeginForce == ASSUME TypeOK, ForceInv, Begin PROVE ForceInv'
<1>1. CachesInv'
  BY DEF Begin, ForceInv, CachesInv, objects, caches, upstream
<1>2. CASE managedSeen.spec = None
  <2>1. WorkerInv'
    BY <1>2 DEF Begin, WorkerInv, worker
  <2>2. RestInv'
    BY <1>2 DEF Begin, RestInv, Quiet, ForceInv, CachesInv, objects, caches
  <2> QED BY <1>1, <2>1, <2>2 DEF ForceInv
<1>3. CASE managedSeen.spec # None
  <2>1. WorkerInv'
    BY <1>3 DEF Begin, WorkerInv, ForceInv, CachesInv, objects, caches, upstream
  <2>2. RestInv'
    BY <1>3 DEF Begin, RestInv, Quiet
  <2> QED BY <1>1, <2>1, <2>2 DEF ForceInv
<1> QED BY <1>2, <1>3

\* The status update keeps the overlay in force.
LEMMA UpdateStatusForce ==
  ASSUME TypeOK, ForceInv, UpdateStatus PROVE ForceInv'
<1> USE DEF ForceInv
<1> DEFINE new == [version EXCEPT !.status = StatusFor(version.spec)]
<1>0. new.spec = version.spec /\ new.status = StatusFor(version.spec)
  BY DEF TypeOK, Managed
<1>1. UNCHANGED <<spec, holder, desired, finished, managedSeen, upstreamSeen, now>>
  BY DEF UpdateStatus, seen
<1>2. UNCHANGED <<managed, news>> \/ WriteStatus(new)
  BY DEF UpdateStatus
<1>3. CachesInv'
  BY <1>1, <1>2 DEF CachesInv, WriteStatus, upstream
<1>4. CASE ~NeedsStatus /\ pc' = "spec"
           /\ UNCHANGED <<managed, news, version, upstreamVersion, queue>>
  <2>1. StatusFor(version.spec)' = StatusFor(version'.spec)
    BY <1>1 DEF StatusFor, ApplyOverlay, UsedOverlay, DueOverlays
  <2>2. WorkerInv'
    BY <1>1, <1>4, <2>1 DEF WorkerInv, NeedsStatus, queue, upstream, UpdateStatus
  <2>3. RestInv'
    BY <1>4 DEF RestInv, Quiet
  <2> QED BY <1>3, <2>2, <2>3
<1>5. CASE WriteStatus(new) /\ version = managed /\ version' = new /\ pc' = "spec"
           /\ UNCHANGED <<upstreamVersion, queue>>
  <2>1. version'.status = StatusFor(version.spec)'
    BY <1>0, <1>1, <1>5 DEF StatusFor, ApplyOverlay, UsedOverlay, DueOverlays
  <2>2. WorkerInv'
    BY <1>1, <1>5, <2>1 DEF WorkerInv, WriteStatus, queue, upstream, UpdateStatus
  <2>3. RestInv'
    BY <1>5 DEF RestInv, Quiet
  <2> QED BY <1>3, <2>2, <2>3
<1>6. CASE Retry
  BY <1>3, <1>6, BusyOK DEF Retry, Return, WorkerInv
<1> QED BY <1>4, <1>5, <1>6 DEF UpdateStatus, Fault

\* The update of the upstream ClusterVersion puts the overlay in force.
LEMMA UpdateUpstreamForce ==
  ASSUME TypeOK, Reconciled, ForceInv, UpdateUpstream PROVE ForceInv'
<1> USE DEF ForceInv
<1> DEFINE c == version.spec
           new == ApplyOverlay(c)
<1>0. c \in Configs /\ now \in Nat /\ pc = "spec"
  BY DEF TypeOK, Managed, Reconciled, UpdateUpstream
<1>1. UNCHANGED <<managed, managedSeen, upstreamSeen, now>> /\ Return
  BY DEF UpdateUpstream, seen, Done, Retry, Fault
<1>2. UNCHANGED <<spec, holder, desired, news>> \/ news' = news \cup {"upstream"}
  BY DEF UpdateUpstream, WriteUpstream
<1>3. CachesInv' /\ WorkerInv'
  BY <1>1, <1>2 DEF CachesInv, WorkerInv, Return, upstream
<1>4. CASE queued' = TRUE \/ news' # {}
  BY <1>3, <1>4, BusyOK
<1>5. CASE ~queued' /\ news' = {}
  <2>1. /\ new = upstreamVersion.spec /\ Done(NextRequeue(c))
        /\ UNCHANGED <<spec, holder, desired, news, queued>>
    BY <1>5 DEF UpdateUpstream, WriteUpstream, Retry, Fault, Done
  <2>2. version = managed /\ upstreamVersion = upstream
    BY <1>0, <1>5, <2>1 DEF WorkerInv
  <2>3. spec = new /\ managed.status = StatusFor(c)
    BY <1>0, <2>1, <2>2 DEF upstream, WorkerInv
  <2>4. wake' = IF wake \cup NextRequeue(c) = {} THEN {}
                ELSE {Earliest(wake \cup NextRequeue(c))}
    BY <2>1 DEF Done
  <2>5. /\ NextRequeue(c) \in SUBSET (0..MaxTime)
        /\ DOMAIN c.overlays \in SUBSET (0..MaxTime)
        /\ \A u \in DOMAIN c.overlays : u > now => \E t \in NextRequeue(c) : t <= u
    BY <1>0, NextRequeueOK, ConfigOK
  <2>6. ASSUME NEW u \in DOMAIN c.overlays, u > now PROVE \E t \in wake' : t <= u
    <3> DEFINE W == wake \cup NextRequeue(c)
    <3>1. W \in SUBSET Nat
      <4>1. wake \subseteq Nat
        BY DEF TypeOK
      <4>2. NextRequeue(c) \subseteq Nat
        BY <2>5
      <4> QED BY <4>1, <4>2
    <3>2. PICK t \in NextRequeue(c) : t <= u
      BY <2>5, <2>6
    <3>3. Earliest(W) \in W /\ Earliest(W) <= t
      BY <3>1, <3>2, EarliestOK
    <3>4. Earliest(W) <= u
      <4>1. u \in Nat /\ t \in Nat /\ Earliest(W) \in Nat
        BY <2>5, <3>1, <3>3, ConstantsAssumption
      <4> HIDE DEF W
      <4> QED BY <3>2, <3>3, <4>1
    <3> QED BY <2>4, <3>2, <3>4
  <2>7. managed'.spec = c /\ spec' = spec /\ managed' = managed /\ now' = now
    BY <1>1, <2>1, <2>2
  <2>8. ApplyOverlay(managed.spec)' = new /\ StatusFor(managed.spec)' = StatusFor(c)
    BY <2>7 DEF ApplyOverlay, UsedOverlay, DueOverlays, StatusFor
  <2>9. Timely(managed.spec)'
    BY <2>6, <2>7 DEF Timely
  <2>10. RestInv'
    BY <2>3, <2>7, <2>8, <2>9 DEF RestInv
  <2> QED BY <1>3, <2>10
<1> QED BY <1>4, <1>5

\* The clock moves only at rest; if an overlay begins, the timer is due.
LEMMA TickForce == ASSUME TypeOK, ForceInv, Tick PROVE ForceInv'
<1> USE DEF ForceInv, objects, caches, queue, worker
<1>1. /\ UNCHANGED <<managed, spec, holder, desired, managedSeen, upstreamSeen, news,
                     queued, wake, pc>>
      /\ now' = now + 1 /\ now \in Nat /\ Quiet /\ pc = "idle"
  BY DEF Tick, Quiet, TypeOK
<1>2. CachesInv' /\ WorkerInv'
  BY <1>1 DEF CachesInv, WorkerInv, upstream
<1>3. ASSUME Quiet', managed.spec # None PROVE RestInv'
  <2> DEFINE c == managed.spec
  <2>1. c \in Configs /\ DOMAIN c.overlays \in SUBSET (0..MaxTime)
    BY <1>3, ConfigOK DEF TypeOK, Managed
  <2>2. wake \subseteq Nat /\ \A t \in wake : t > now + 1
    BY <1>1, <1>3 DEF Quiet, TypeOK
  <2>3. \A u \in DOMAIN c.overlays : u > now => u > now + 1
    <3>1. ASSUME NEW u \in DOMAIN c.overlays, u > now PROVE u > now + 1
      <4>1. PICK t \in wake : t <= u
        BY <1>1, <1>3, <3>1 DEF RestInv, Timely
      <4>2. u \in Nat /\ t \in Nat /\ t > now + 1
        BY <2>1, <2>2
      <4> QED BY <1>1, <4>1, <4>2
    <3> QED BY <3>1
  <2>4. \A u \in DOMAIN c.overlays : u <= now <=> u <= now + 1
    <3>1. ASSUME NEW u \in DOMAIN c.overlays PROVE u <= now <=> u <= now + 1
      <4>1. u \in Nat
        BY <2>1
      <4> QED BY <1>1, <2>3, <4>1
    <3> QED BY <3>1
  <2>5. DueOverlays(c)' = DueOverlays(c)
    BY <1>1, <2>4 DEF DueOverlays
  <2>6. ApplyOverlay(c)' = ApplyOverlay(c) /\ StatusFor(c)' = StatusFor(c)
    BY <1>1, <2>5 DEF ApplyOverlay, UsedOverlay, StatusFor
  <2>7. Timely(c)'
    <3>1. ASSUME NEW u \in DOMAIN c.overlays, u > now + 1 PROVE \E t \in wake : t <= u
      <4>1. u \in Nat /\ u > now
        BY <1>1, <2>1, <3>1
      <4> QED BY <1>1, <1>3, <4>1 DEF RestInv, Timely
    <3> QED BY <1>1, <3>1 DEF Timely
  <2> QED BY <1>1, <1>3, <2>6, <2>7 DEF RestInv
<1>4. RestInv'
  BY <1>1, <1>3 DEF RestInv
<1> QED BY <1>2, <1>4

\* The steps of the surroundings that queue a request or make news.
LEMMA NewsForce ==
  ASSUME TypeOK, ForceInv, Deliver \/ Wake \/ Restart \/ EditManaged \/ EditUpstream
  PROVE  ForceInv'
<1> USE DEF ForceInv, objects, caches, seen, queue, worker
<1>1. queued' = TRUE \/ news' # {}
  BY DEF Deliver, Wake, Restart, EditManaged, EditUpstream
<1>2. CachesInv'
  BY DEF CachesInv, Deliver, Wake, Restart, EditManaged, EditUpstream, upstream
<1>3. WorkerInv'
  <2>1. UNCHANGED <<pc, version, now>> \/ pc' = "idle"
    BY DEF Deliver, Wake, Restart, Return, EditManaged, EditUpstream
  <2>2. CASE UNCHANGED <<pc, version, now>>
    BY <1>1, <2>2 DEF WorkerInv, StatusFor, ApplyOverlay, UsedOverlay, DueOverlays
  <2> QED BY <2>1, <2>2 DEF WorkerInv
<1> QED BY <1>1, <1>2, <1>3, BusyOK

\* A step of the UpgradeJob reconciler is news or none of this controller's.
LEMMA UpgradeJobForce == ASSUME TypeOK, ForceInv, UpgradeJobStep PROVE ForceInv'
<1> USE DEF ForceInv, seen, queue, worker
<1>1. /\ UNCHANGED <<managed, spec, managedSeen, upstreamSeen, queued, wake,
                     pc, version, upstreamVersion, now>>
      /\ \/ upstream' = upstream /\ news' = news
         \/ news' = news \cup {"upstream"}
  BY DEF UpgradeJobStep, upstream
<1>2. StatusFor(version.spec)' = StatusFor(version.spec)
  BY <1>1 DEF StatusFor, ApplyOverlay, UsedOverlay, DueOverlays
<1>3. CachesInv' /\ WorkerInv'
  BY <1>1, <1>2 DEF CachesInv, WorkerInv
<1>4. CASE news' = news
  <2>1. /\ ApplyOverlay(managed.spec)' = ApplyOverlay(managed.spec)
        /\ StatusFor(managed.spec)' = StatusFor(managed.spec)
        /\ Timely(managed.spec)' = Timely(managed.spec)
    BY <1>1 DEF StatusFor, ApplyOverlay, UsedOverlay, DueOverlays, Timely
  <2>2. RestInv'
    BY <1>1, <1>4, <2>1 DEF RestInv, Quiet
  <2> QED BY <1>3, <2>2
<1>5. CASE news' # {}
  BY <1>3, <1>5, BusyOK
<1> QED BY <1>1, <1>4, <1>5

\* No step takes the overlay out of force unnoticed.
LEMMA ForceStep ==
  ASSUME TypeOK, Reconciled, ForceInv, [Next]_vars PROVE ForceInv'
<1>1. CASE UNCHANGED vars
  <2>1. /\ ApplyOverlay(managed.spec)' = ApplyOverlay(managed.spec)
        /\ StatusFor(managed.spec)' = StatusFor(managed.spec)
        /\ StatusFor(version.spec)' = StatusFor(version.spec)
        /\ Timely(managed.spec)' = Timely(managed.spec)
    BY <1>1 DEF vars, StatusFor, ApplyOverlay, UsedOverlay, DueOverlays, Timely
  <2> QED BY <1>1, <2>1 DEF vars, ForceInv, CachesInv, WorkerInv, RestInv, Quiet, upstream
<1> QED BY <1>1, BeginForce, UpdateStatusForce, UpdateUpstreamForce, TickForce,
           NewsForce, UpgradeJobForce DEF Next, Reconcile

\* Nothing is reconciled, cached wrongly or at rest at the start.
LEMMA InitForce == ASSUME Init PROVE ForceInv
  BY DEF Init, ForceInv, CachesInv, WorkerInv, RestInv, Quiet

\* The invariant behind the two theorems that follow.
LEMMA Forced == Spec => [](TypeOK /\ ForceInv)
<1>1. Init => TypeOK /\ Reconciled /\ ForceInv
  BY InitType, InitForce
<1>2. TypeOK /\ Reconciled /\ ForceInv /\ [Next]_vars
        => TypeOK' /\ Reconciled' /\ ForceInv'
  BY TypeStep, ForceStep
<1> QED BY <1>1, <1>2, PTL DEF Spec

\* At rest the upstream spec is the one that is asked for, field by field, for
\* any template, any overlays and any order of edits, faults and restarts: no
\* overlay begins without the controller being woken for it.
THEOREM OverlaysInForce == Spec => []OverlayInForce
<1>1. TypeOK /\ ForceInv => OverlayInForce
  <2> SUFFICES ASSUME TypeOK, ForceInv, Quiet, managed.spec # None, NEW f \in Fields
               PROVE  Wanted(managed.spec, f, spec[f])
    BY DEF OverlayInForce
  <2>1. managed.spec \in Configs /\ now \in Nat
    BY DEF TypeOK, Managed
  <2>2. spec = ApplyOverlay(managed.spec)
    BY DEF ForceInv, RestInv
  <2> QED BY <2>1, <2>2, AppliedIsWanted
<1> QED BY <1>1, Forced, PTL

\* The status then says what is in force and which overlay it comes from.
THEOREM StatusIsTruthful == Spec => []StatusTruthful
<1>1. TypeOK /\ ForceInv => StatusTruthful
  <2> SUFFICES ASSUME TypeOK, ForceInv, Quiet, managed.spec # None
               PROVE  /\ managed.status.current = spec
                      /\ DOMAIN managed.status.overlays = DOMAIN managed.spec.overlays
                      /\ \A t \in DOMAIN managed.spec.overlays :
                           IsLatest(managed.spec, t) =>
                             /\ managed.status.overlayApplied = t
                             /\ managed.status.overlays[t] = spec
    BY DEF StatusTruthful
  <2> DEFINE c == managed.spec
  <2>1. c \in Configs /\ now \in Nat
    BY DEF TypeOK, Managed
  <2>2. spec = ApplyOverlay(c) /\ managed.status = StatusFor(c)
    BY DEF ForceInv, RestInv
  <2>3. /\ managed.status.current = ApplyOverlay(c)
        /\ managed.status.overlayApplied = UsedOverlay(c)
        /\ managed.status.overlays =
             [t \in DOMAIN c.overlays |-> Merge(c.template, c.overlays[t])]
    BY <2>2 DEF StatusFor
  <2>4. ASSUME NEW t \in DOMAIN c.overlays, IsLatest(c, t)
        PROVE  UsedOverlay(c) = t /\ spec = Merge(c.template, c.overlays[t])
    <3>1. UsedOverlay(c) = t /\ UsedOverlay(c) # None
      BY <2>1, <2>4, UsedOverlayOK
    <3> QED BY <2>2, <3>1 DEF ApplyOverlay
  <2> QED BY <2>2, <2>3, <2>4
<1> QED BY <1>1, Forced, PTL
=============================================================================
