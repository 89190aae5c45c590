--------------------------- MODULE NodeForceDrain ---------------------------
(***************************************************************************)
(* The NodeForceDrain controller (controllers/node_force_drain_controller. *)
(* go).  It records in the status of a NodeForceDrain when it first saw a  *)
(* node draining, deletes the pods of nodes that drain for longer than a   *)
(* grace period, and kills those that take too long to terminate.          *)
(*                                                                         *)
(* The NodeForceDrain and the nodes come from informer caches, pods and    *)
(* daemon sets from the API server.  Every action of the reconcile makes   *)
(* one API call, so that drains, evictions and terminations go on between  *)
(* the calls.                                                              *)
(***************************************************************************)
EXTENDS Naturals

CONSTANTS
  Nodes,          \* the nodes of the cluster
  Selected,       \* SUBSET Nodes, matched by .spec.nodeSelector
  Pods,           \* pods by name
  NodeOf,         \* [Pods -> Nodes], where they run at first
  Kind,           \* [Pods -> Kinds]
  NodeDrainGracePeriod,
  PodForceDeleteGracePeriod,
  MaxReconcileInterval,    \* during active drains
  Drained,        \* SUBSET Nodes, drained under the NodeForceDrain before
  None,           \* no observation, no drain
  MaxDrains,      \* bound on the drains of a node, the one before included
  MaxTime,        \* bound on the clock
  MaxFaults       \* bound on failed calls, restarts, deletions and called off drains

\* A pod of a daemon set, of the kubelet, of a namespace or with a spec that the
\* selectors do not match, or none of these.
Kinds == {"daemon", "static", "unselected", "plain"}

ASSUME ConstantsAssumption ==
  /\ Selected \subseteq Nodes
  /\ NodeOf \in [Pods -> Nodes] /\ Kind \in [Pods -> Kinds]
  /\ NodeDrainGracePeriod \in Nat /\ PodForceDeleteGracePeriod \in Nat
  /\ MaxReconcileInterval \in Nat
  /\ Drained \subseteq Nodes
  /\ None \notin Nat
  /\ MaxDrains \in Nat \ {0} /\ MaxTime \in Nat /\ MaxFaults \in Nat

VARIABLES
  fd,             \* the NodeForceDrain at the API server
  node,           \* the drainer annotations of the nodes
  pod,            \* the pods
  daemonSet,      \* whether the daemon set exists
  fdSeen,         \* the informer caches
  nodeSeen,
  news,           \* the objects that have changed since
  queued,         \* a request is in the work queue
  wake,           \* the delayed request: no or one instant
  pc,             \* the API call the reconcile makes next
  copy,           \* the NodeForceDrain it has read
  status,         \* the lastObservedNodeDrain it is about to write
  draining,       \* its drainingNodes
  out,            \* its nodesOutOfGracePeriod
  todo,           \* the nodes its loop has still to visit
  victims,        \* the pods of the node it visits, to be deleted
  later,          \* when it wants to run again
  failed,         \* an error has been collected
  replaced,       \* history: those of its victims that are new pods by now
  now, faults,
  recent,         \* history: the requests for the drains of this instant
  overdue,        \* history: how long a pod has been spared
  excuses         \* history: how often a pod could not be judged in time

objects == <<fd, node, pod, daemonSet>>
caches == <<fdSeen, nodeSeen, news>>
queue == <<queued, wake>>
worker == <<pc, copy, status, draining, out, todo, victims, later, failed,
            replaced>>
history == <<recent, overdue, excuses>>
vars == <<fd, node, pod, daemonSet, fdSeen, nodeSeen, news, queued, wake, pc, copy,
          status, draining, out, todo, victims, later, failed, replaced, now, faults,
          recent, overdue, excuses>>

Earliest(S) == CHOOSE t \in S : \A u \in S : t <= u

\* desired and applied are the drainer annotations, in the order in which the
\* machine config operator makes its requests.
Node == [desired: 0..MaxDrains, applied: 0..MaxDrains]
Drains(m) == m.desired # m.applied

\* lastObservedNodeDrain: the drain a node was seen in, and since when.
Observed == [Nodes -> [id: 0..MaxDrains, at: 0..MaxTime] \cup {None}]
NodeForceDrain == [exists: BOOLEAN, observed: Observed]

\* start is the deletion timestamp without the grace period in it.
Pod == [node: Nodes, phase: {"running", "terminating", "killed", "gone"}, start: 0..MaxTime]

\* A request of the machine config operator: under which id, and when.
Request == [id: 0..MaxDrains, at: 0..MaxTime]

\* getDeletionCandidatePodsForNode, without its errors.
Candidate(p) == Kind[p] = "plain" \/ (Kind[p] = "daemon" /\ ~daemonSet)

(***************************************************************************)
(* Reconcile.                                                              *)
(***************************************************************************)
Fresh == [exists |-> FALSE, observed |-> [n \in Nodes |-> None]]

Return ==
  /\ pc' = "idle" /\ copy' = Fresh /\ status' = Fresh.observed
  /\ draining' = {} /\ out' = {} /\ todo' = {} /\ victims' = {}
  /\ later' = {} /\ failed' = FALSE /\ replaced' = {}

\* Mutant: every delayed request is kept.
RequeueAll(S) == wake' = wake \cup S

Requeue(S) == wake' = IF wake \cup S = {} THEN {} ELSE {Earliest(wake \cup S)}

\* An object that is not found is an empty one: it selects every node.
NodesOf(f) == IF f.exists THEN Selected ELSE Nodes
GracePeriodOf(f) == IF f.exists THEN NodeDrainGracePeriod ELSE 0
ForceGracePeriodOf(f) == IF f.exists THEN PodForceDeleteGracePeriod ELSE 0

\* Mutant: a drain is told apart by its node only.
UnobservedNodes(f, D) == {n \in D : f.observed[n] = None}

Unobserved(f, D) ==
  {n \in D : f.observed[n] = None \/ f.observed[n].id # nodeSeen[n].applied}

\* Mutant: the grace period has passed one instant early.
DueAtEarly(f, n) == f.observed[n].at + GracePeriodOf(f) - 1

DueAt(f, n) == f.observed[n].at + GracePeriodOf(f)

\* Get, List, setLastObservedNodeDrain and the grace periods.  One new drain is
\* recorded at a time, because of the || in the loop.
Begin ==
  /\ pc = "idle" /\ queued
  /\ queued' = FALSE
  /\ copy' = fdSeen
  /\ draining' = {n \in NodesOf(fdSeen) : Drains(nodeSeen[n])}
  /\ \/ /\ pc' = "observe"
        /\ \E n \in Unobserved(fdSeen, draining') :
             status' = [fdSeen.observed EXCEPT
                          ![n] = [id |-> nodeSeen[n].applied, at |-> now]]
        /\ UNCHANGED <<out, todo, later>>
     \/ /\ Unobserved(fdSeen, draining') = {}
        /\ pc' = "drain"
        /\ out' = {n \in draining' : DueAt(fdSeen, n) <= now}
        /\ later' = {DueAt(fdSeen, n) : n \in draining' \ out'}
        /\ todo' = IF GracePeriodOf(fdSeen) = 0 THEN {} ELSE out'
        /\ UNCHANGED status
  /\ UNCHANGED <<objects, caches, wake, victims, failed, replaced, now, faults, history>>

\* The status update, and the early return: the other drains wait for the
\* reconcile that the update causes.  Nothing can be recorded for an object that
\* does not exist, so the request is tried again, with a growing back-off, for
\* as long as the drain lasts.
Observe ==
  /\ pc = "observe"
  /\ \/ /\ copy = fd /\ fd.exists
        /\ fd' = [fd EXCEPT !.observed = status] /\ news' = news \cup {"fd"}
        /\ UNCHANGED queue
     \/ /\ copy # fd /\ copy.exists
        /\ queued' = TRUE
        /\ UNCHANGED <<fd, news, wake>>
     \/ /\ ~copy.exists
        /\ Requeue({now + 1})
        /\ UNCHANGED <<fd, news, queued>>
  /\ Return
  /\ UNCHANGED <<node, pod, daemonSet, fdSeen, nodeSeen, now, faults, history>>

\* The list of the candidates on a node, in either loop.  A namespace or a
\* daemon set that cannot be read is a reason to leave its pods alone, not an
\* error.
PodsOn(n) == {p \in Pods : pod[p].node = n /\ Candidate(p)}
Expired(p) == pod[p].start + PodForceDeleteGracePeriod <= now
Terminating(p) == pod[p].phase \in {"terminating", "killed"}

\* Mutant: no pod that still has time is waited for.
ForceDeletionsNext(P) == {}

ForceDeletions(P) ==
  {pod[p].start + PodForceDeleteGracePeriod :
     p \in {q \in P : Terminating(q) /\ ~Expired(q)}}

ListPods(n) ==
  /\ pc \in {"drain", "force"} /\ n \in todo /\ victims = {}
  /\ todo' = todo \ {n} /\ replaced' = {}
  /\ \E ignored \in SUBSET PodsOn(n) :
       LET listed == PodsOn(n) \ ignored
       IN  /\ ignored # {} => faults > 0
           /\ faults' = IF ignored = {} THEN faults ELSE faults - 1
           /\ excuses' = [p \in Pods |-> IF p \in ignored THEN excuses[p] + 1
                                         ELSE excuses[p]]
           /\ \/ /\ pc = "drain"
                 /\ victims' = {p \in listed : pod[p].phase = "running"}
                 /\ later' = later \cup
                      (IF victims' # {} /\ PodForceDeleteGracePeriod # 0
                       THEN {now + PodForceDeleteGracePeriod} ELSE {})
              \/ /\ pc = "force"
                 /\ victims' = {p \in listed : Terminating(p) /\ Expired(p)}
                 /\ later' = later \cup ForceDeletions(listed)
  /\ UNCHANGED <<objects, caches, queue, pc, copy, status, draining, out, failed, now,
                 recent, overdue>>

\* A pod is deleted by its name, whatever pod has that name now.  One that is
\* gone is an error; one that is terminating keeps its deletion timestamp.
DeletePod(p) ==
  /\ pc \in {"drain", "force"} /\ p \in victims
  /\ victims' = victims \ {p}
  /\ pod' = IF pod[p].phase \in {"killed", "gone"} THEN pod
            ELSE [pod EXCEPT
                    ![p].phase = IF pc = "force" THEN "killed" ELSE "terminating",
                    ![p].start = IF pod[p].phase = "running" THEN now ELSE @]
  /\ failed' = (failed \/ pod[p].phase = "gone")
  /\ UNCHANGED <<fd, node, daemonSet, caches, queue, pc, copy, status, draining, out, todo,
                 later, replaced, now, faults, history>>

\* A call of either loop fails, and the loops go on.
CallFails ==
  /\ faults > 0 /\ faults' = faults - 1
  /\ \/ /\ pc \in {"drain", "force"} /\ failed' = TRUE
        /\ \/ /\ victims = {}
              /\ \E n \in todo : todo' = todo \ {n}
              /\ UNCHANGED victims
           \/ /\ \E p \in victims : victims' = victims \ {p}
              /\ UNCHANGED todo
        /\ UNCHANGED <<queue, pc, copy, status, draining, out, later, replaced>>
     \/ /\ pc = "observe"
        /\ Return /\ queued' = TRUE /\ UNCHANGED wake
  /\ UNCHANGED <<objects, caches, now, history>>

StartForceDelete ==
  /\ pc = "drain" /\ todo = {} /\ victims = {}
  /\ pc' = "force"
  /\ todo' = IF ForceGracePeriodOf(copy) = 0 THEN {} ELSE out
  /\ UNCHANGED <<objects, caches, queue, copy, status, draining, out, victims, later, failed,
                 replaced, now, faults, history>>

MaxInterval == IF draining # {} /\ MaxReconcileInterval > 0
               THEN {now + MaxReconcileInterval} ELSE {}

Finish ==
  /\ pc = "force" /\ todo = {} /\ victims = {}
  /\ \/ failed /\ queued' = TRUE /\ UNCHANGED wake
     \/ ~failed /\ Requeue(later \cup MaxInterval) /\ UNCHANGED queued
  /\ Return
  /\ UNCHANGED <<objects, caches, now, faults, history>>

(***************************************************************************)
(* The surroundings.                                                       *)
(***************************************************************************)
\* The watches: of the NodeForceDrain and, through NodeToNodeForceDrainMapper,
\* of the nodes it selects while it exists in the cache.
Deliver ==
  /\ \E o \in news :
       /\ news' = news \ {o}
       /\ fdSeen' = IF o = "fd" THEN fd ELSE fdSeen
       /\ nodeSeen' = IF o \in Nodes THEN [nodeSeen EXCEPT ![o] = node[o]] ELSE nodeSeen
       /\ queued' = (queued \/ o = "fd" \/ (o \in Selected /\ fdSeen.exists))
  /\ UNCHANGED <<objects, wake, worker, now, faults, history>>

Wake ==
  /\ \E t \in wake : t <= now
  /\ wake' = {} /\ queued' = TRUE
  /\ UNCHANGED <<objects, caches, worker, now, faults, history>>

Restart ==
  /\ faults > 0 /\ faults' = faults - 1
  /\ Return
  /\ fdSeen' = fd /\ nodeSeen' = node /\ news' = {}
  /\ queued' = fd.exists /\ wake' = {}
  /\ UNCHANGED <<objects, now, history>>

\* The machine config operator asks for the next drain or uncordon, has done
\* it, or calls it off.  What it has called off it may ask for again.
StartDrain(n) ==
  /\ ~Drains(node[n]) /\ node[n].applied < MaxDrains
  /\ node' = [node EXCEPT ![n].desired = @ + 1]
  /\ recent' = [recent EXCEPT ![n] = @ \cup {[id |-> node[n].applied, at |-> now]}]
  /\ news' = news \cup {n}
  /\ UNCHANGED <<fd, pod, daemonSet, fdSeen, nodeSeen, queue, worker, now, faults,
                 overdue, excuses>>

EndDrain(n) ==
  /\ Drains(node[n])
  /\ \/ node' = [node EXCEPT ![n].applied = node[n].desired] /\ UNCHANGED faults
     \/ /\ faults > 0 /\ faults' = faults - 1
        /\ node' = [node EXCEPT ![n].desired = node[n].applied]
  /\ news' = news \cup {n}
  /\ UNCHANGED <<fd, pod, daemonSet, fdSeen, nodeSeen, queue, worker, now, history>>

\* The drain evicts a pod, or a pod terminates.
PodChanges(p) ==
  /\ \/ /\ pod[p].phase = "running" /\ Candidate(p) /\ Drains(node[pod[p].node])
        /\ pod' = [pod EXCEPT ![p].phase = "terminating", ![p].start = now]
     \/ /\ Terminating(p)
        /\ pod' = [pod EXCEPT ![p].phase = "gone", ![p].start = 0]
  /\ UNCHANGED <<fd, node, daemonSet, caches, queue, worker, now, faults, history>>

\* A pod of the same name, as of a stateful set, is put on a node that is not
\* cordoned: on any such node, or on its own if it belongs to one.
Recreate(p) ==
  /\ pod[p].phase = "gone" /\ (Kind[p] = "daemon" => daemonSet)
  /\ \E n \in IF Kind[p] \in {"daemon", "static"} THEN {NodeOf[p]} ELSE Nodes :
       /\ ~Drains(node[n])
       /\ pod' = [pod EXCEPT ![p].phase = "running", ![p].node = n]
  /\ replaced' = replaced \cup ({p} \cap victims)
  /\ UNCHANGED <<fd, node, daemonSet, caches, queue, pc, copy, status, draining, out, todo,
                 victims, later, failed, now, faults, history>>

\* The daemon set is deleted and leaves its pods behind.
Orphan ==
  /\ faults > 0 /\ faults' = faults - 1
  /\ daemonSet /\ daemonSet' = FALSE
  /\ excuses' = [p \in Pods |-> excuses[p] + IF Kind[p] = "daemon" THEN 1 ELSE 0]
  /\ UNCHANGED <<fd, node, pod, caches, queue, worker, now, recent, overdue>>

\* Somebody deletes the NodeForceDrain.
Delete ==
  /\ faults > 0 /\ faults' = faults - 1
  /\ fd.exists
  /\ fd' = Fresh
  /\ news' = news \cup {"fd"}
  /\ UNCHANGED <<node, pod, daemonSet, fdSeen, nodeSeen, queue, worker, now, history>>

\* Instants are far apart: what can be done in one is done.
Quiet == pc = "idle" /\ ~queued /\ news = {} /\ \A t \in wake : t > now

\* A pod that should have been deleted, or killed, by the end of this instant.
Late(p) ==
  LET seen == fd.observed[pod[p].node]
  IN  /\ fd.exists /\ pod[p].node \in Selected /\ Candidate(p)
      /\ Drains(node[pod[p].node])
      /\ seen # None /\ seen.at + NodeDrainGracePeriod <= now
      /\ \/ pod[p].phase = "running" /\ NodeDrainGracePeriod # 0
         \/ /\ pod[p].phase = "terminating" /\ PodForceDeleteGracePeriod # 0
            /\ pod[p].start + PodForceDeleteGracePeriod <= now

Tick ==
  /\ now < MaxTime /\ Quiet
  /\ now' = now + 1
  /\ recent' = [n \in Nodes |-> {r \in recent[n] : r.id = node[n].applied}]
  /\ overdue' = [p \in Pods |-> IF Late(p) THEN overdue[p] + 1 ELSE 0]
  /\ UNCHANGED <<objects, caches, queue, worker, faults, excuses>>

-----------------------------------------------------------------------------
Init ==
  /\ fd = [exists |-> TRUE,
           observed |-> [n \in Nodes |-> IF n \in Drained THEN [id |-> 0, at |-> 0]
                                         ELSE None]]
  /\ node = [n \in Nodes |-> [desired |-> 1, applied |-> 1]]
  /\ pod = [p \in Pods |-> [node |-> NodeOf[p], phase |-> "running", start |-> 0]]
  /\ daemonSet = TRUE
  /\ fdSeen = fd /\ nodeSeen = node /\ news = {}
  /\ queued = TRUE /\ wake = {}
  /\ pc = "idle" /\ copy = Fresh /\ status = Fresh.observed
  /\ draining = {} /\ out = {} /\ todo = {} /\ victims = {}
  /\ later = {} /\ failed = FALSE /\ replaced = {}
  /\ now = 0 /\ faults = MaxFaults
  /\ recent = [n \in Nodes |-> {}]
  /\ overdue = [p \in Pods |-> 0] /\ excuses = [p \in Pods |-> 0]

Reconcile == \/ Observe \/ StartForceDelete \/ Finish
             \/ \E n \in Nodes : ListPods(n)
             \/ \E p \in Pods : DeletePod(p)

Environment == \/ Deliver \/ Wake \/ Restart \/ Orphan \/ Delete \/ Tick
               \/ \E n \in Nodes : StartDrain(n) \/ EndDrain(n)
               \/ \E p \in Pods : PodChanges(p) \/ Recreate(p)

Next == Begin \/ Reconcile \/ CallFails \/ Environment

Spec == Init /\ [][Next]_vars

-----------------------------------------------------------------------------
(***************************************************************************)
(* Properties.                                                             *)
(***************************************************************************)
\* Every variable has its type; at most one delayed request is kept, and what
\* the reconcile has picked out is among the nodes it found draining.
TypeOK ==
  /\ fd \in NodeForceDrain /\ fdSeen \in NodeForceDrain /\ copy \in NodeForceDrain
  /\ status \in Observed
  /\ node \in [Nodes -> Node] /\ nodeSeen \in [Nodes -> Node]
  /\ pod \in [Pods -> Pod] /\ daemonSet \in BOOLEAN
  /\ news \subseteq Nodes \cup {"fd"}
  /\ queued \in BOOLEAN /\ failed \in BOOLEAN
  /\ wake \subseteq Nat /\ later \subseteq Nat
  /\ \A t, u \in wake : t = u
  /\ pc \in {"idle", "observe", "drain", "force"}
  /\ draining \subseteq Nodes /\ out \subseteq draining /\ todo \subseteq out
  /\ victims \subseteq Pods /\ replaced \subseteq Pods
  /\ now \in 0..MaxTime /\ faults \in 0..MaxFaults
  /\ recent \in [Nodes -> SUBSET Request]
  /\ overdue \in [Pods -> Nat] /\ excuses \in [Pods -> Nat]

\* A pod that the controller deletes or kills is on a selected node, and the
\* drain of that node was asked for at least .spec.nodeDrainGracePeriod ago,
\* whatever the caches and earlier drains of the node say; a pod of the kubelet
\* or of a daemon set that exists is spared.  Two things follow from the code and
\* are part of the statement: the drain is known by lastAppliedDrain, so that one
\* called off and asked for again counts from its first request; and pods are
\* deleted by name, so that a new pod that has taken the name of a listed one
\* before the deletion (replaced) is deleted wherever it is.
Deletes(p) == pc \in {"drain", "force"} /\ victims' # victims /\ pod'[p] # pod[p]
DueOn(n) == \E r \in recent[n] : r.at + NodeDrainGracePeriod <= now
DrainsOnlyDue ==
  [][\A p \in Pods : Deletes(p) /\ p \notin replaced =>
       pod[p].node \in Selected /\ Candidate(p) /\ DueOn(pod[p].node)]_vars

\* No pod outlives, in a drain, the instant in which it is due for deletion or
\* for killing, although pods are not watched and every new drain sends the
\* reconcile back to the start; one whose namespace or daemon set could not be
\* judged waits for at most another MaxReconcileInterval each time.
InTime == \A p \in Pods : overdue[p] <= MaxReconcileInterval * excuses[p]

\* When the controller has come to rest, it has recorded every drain of every
\* selected node, although a reconcile records one drain only.
EveryDrainRecorded ==
  Quiet /\ fd.exists =>
    \A n \in Selected : Drains(node[n]) =>
      fd.observed[n] # None /\ fd.observed[n].id = node[n].applied

(***************************************************************************)
(* What the documentation says and the code does not do.                   *)
(***************************************************************************)
\* PodForceDeleteGracePeriod: "Only pods on nodes that have reached the
\* nodeDrainGracePeriod are force deleted."  A pod that is created anew
\* elsewhere, under the name of one that was listed, is deleted as well.
OnlyOnDueNodes == [][\A p \in Pods : Deletes(p) => DueOn(pod[p].node)]_vars

\* LastAppliedDrain "is a unique identifier for the drain."  A drain that is
\* called off and asked for again has the same one: its pods are not given the
\* grace period since the last request.
GracePerRequest ==
  [][\A p \in Pods : Deletes(p) /\ p \notin replaced =>
       \E r \in recent[pod[p].node] :
         /\ r.at + NodeDrainGracePeriod <= now
         /\ \A q \in recent[pod[p].node] : q.id = r.id => q.at <= r.at]_vars
=============================================================================
